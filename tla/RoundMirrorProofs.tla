-------------------------- MODULE RoundMirrorProofs --------------------------
(***************************************************************************)
(* Proofs about RoundMirror, for any crops, requests, rounds, shares and   *)
(* events that wait.                                                       *)
(***************************************************************************)
EXTENDS RoundMirror, SequenceTheorems, FiniteSetTheorems, TLAPS

(* Types.                                                                  *)
Status == {"OPEN", "ACTIVE", "DISTRIBUTING"}
RowType == [id : Nat, crop : Crops, sold : Nat, status : Status,
            asked : BOOLEAN]
NftType == [row : Nat, index : Nat, token : Nat]
RoundType == [crop : Crops, for : Nat, sold : Nat, status : Status \cup {"FUNDED"}]
EventType == [type : {"RoundCreated", "SharesPurchased", "CapitalUnlocked",
                      "HarvestDistributed"},
              round : Nat, crop : Crops \cup {"any"}, first : Nat, last : Nat]
CallType == [pc : {"idle", "nfts", "sold", "distribute", "link", "shares", "tokens",
                   "status"},
             row : Nat, round : Nat, count : Nat, sold : Nat, status : Status,
             pairs : SUBSET (Nat \X Nat)]

TypeOK ==
  /\ rows \in Seq(RowType)
  /\ nfts \in Seq(NftType)
  /\ chain \in Seq(RoundType)
  /\ minted \in Seq(Nat)
  /\ creating \subseteq 1..Len(rows)
  /\ events \in Seq(EventType)
  /\ calls \in [Calls -> CallType]
  /\ orderly \in BOOLEAN /\ calm \in BOOLEAN

-----------------------------------------------------------------------------
(* What is so whatever overlaps and whatever is lost.                      *)
Rounds == 1..Len(chain)
Rows == 1..Len(rows)

\* A round is created for one row of its crop at most, and once.
Creations ==
  /\ \A r \in Rounds : chain[r].for # 0 =>
       chain[r].for \in Rows /\ rows[chain[r].for].crop = chain[r].crop
  /\ \A r, q \in Rounds : chain[r].for = chain[q].for /\ chain[r].for # 0 => r = q
  /\ \A i \in creating, r \in Rounds : chain[r].for # i
  /\ \A t \in 1..Len(minted) : minted[t] \in Rounds

\* What an event, and the handler that has heard it, say of the contract.
Happened(status, r) == r \in Rounds /\ chain[r].status \in Reached(status)
Sold(r, first, last) == \A t \in first..last : t \in 1..Len(minted) /\ minted[t] = r
Event(e) ==
  /\ e.type = "RoundCreated" => e.round \in Rounds /\ chain[e.round].crop = e.crop
  /\ e.type = "SharesPurchased" =>
       /\ e.round \in Rounds /\ e.first # 0 /\ e.first <= e.last
       /\ Sold(e.round, e.first, e.last)
  /\ e.type = "CapitalUnlocked" => Happened("ACTIVE", e.round)
  /\ e.type = "HarvestDistributed" => Happened("DISTRIBUTING", e.round)
Handler(call) ==
  /\ call.pc \in {"nfts", "sold", "distribute", "link", "shares", "tokens"} =>
       call.row \in Rows
  /\ call.pc = "link" => call.round \in Rounds
  /\ call.pc = "shares" => call.round # 0
  /\ call.pc = "status" => call.status # "OPEN" /\ Happened(call.status, call.round)
  /\ call.pc = "distribute" => rows[call.row].status # "OPEN"
  /\ call.pc = "tokens" => \A p \in call.pairs :
       p[1] \in 1..Len(nfts) /\ nfts[p[1]].row = call.row /\ p[2] # 0
Emissions == {events[n] : n \in 1..Len(events)}
Handlers == {calls[c] : c \in Calls}
Told == /\ \A e \in Emissions : Event(e)
        /\ \A call \in Handlers : Handler(call)

\* A row has a number before it has a status, and takes each number once.
Announces(n, r) == events[n].type = "RoundCreated" /\ events[n].round = r
Links(c, r) == calls[c].pc = "link" /\ calls[c].round = r
Numbered ==
  /\ \A i \in Rows : rows[i].id \in 0..Len(chain)
  /\ \A i \in Rows : rows[i].status # "OPEN" \/ rows[i].asked => rows[i].id # 0
  /\ \A n \in 1..Len(nfts) : nfts[n].row \in Rows
  /\ \A r \in Rounds :
       /\ \A n, m \in 1..Len(events) : Announces(n, r) /\ Announces(m, r) => n = m
       /\ \A c, d \in Calls : Links(c, r) /\ Links(d, r) => c = d
       /\ \A n \in 1..Len(events), c \in Calls : ~(Announces(n, r) /\ Links(c, r))
       /\ \A i \in Rows : rows[i].id = r =>
            /\ \A n \in 1..Len(events) : ~Announces(n, r)
            /\ \A c \in Calls : ~Links(c, r)

\* What is so as long as the rounds of a crop come one after another: the row
\* that a round was created for is the latest of its crop until it is heard of.
Latest(i) == \A j \in Rows : rows[j].crop = rows[i].crop => j <= i
Expected ==
  /\ \A i \in Rows : rows[i].id # 0 =>
       chain[rows[i].id].for = i /\ chain[rows[i].id].status \in Reached(Claimed(rows[i]))
  /\ \A i \in creating : Latest(i)
  /\ \A e \in Emissions : e.type = "RoundCreated" =>
       /\ chain[e.round].for = 0 => \A i \in Rows : rows[i].crop = e.crop => rows[i].id # 0
       /\ \A i \in Rows : chain[e.round].for = i => Latest(i)
  /\ \A call \in Handlers : call.pc = "link" => chain[call.round].for = call.row

\* Tokens go to placeholders of the row of their round.
Tokens ==
  /\ \A n \in 1..Len(nfts) : nfts[n].token # 0 =>
       nfts[n].token \in 1..Len(minted) /\ minted[nfts[n].token] = rows[nfts[n].row].id
  /\ \A call \in Handlers :
       /\ call.pc = "shares" =>
            Sold(rows[call.row].id, call.round, call.round + call.count - 1)
            /\ rows[call.row].id # 0
       /\ call.pc = "tokens" => \A p \in call.pairs :
            p[2] \in 1..Len(minted) /\ minted[p[2]] = rows[call.row].id

IInv == TypeOK /\ Creations /\ Told /\ Numbered /\ (orderly => Expected /\ Tokens)

-----------------------------------------------------------------------------
(* Sequences.                                                              *)
LEMMA AppendFacts ==
  ASSUME NEW X, NEW s \in Seq(X), NEW e \in X
  PROVE  /\ Append(s, e) \in Seq(X) /\ Len(Append(s, e)) = Len(s) + 1
         /\ \A n \in 1..Len(s) : Append(s, e)[n] = s[n]
         /\ Append(s, e)[Len(s) + 1] = e
BY AppendProperties

LEMMA TailFacts ==
  ASSUME NEW X, NEW s \in Seq(X), s # <<>>
  PROVE  /\ Len(s) \in Nat /\ Len(s) >= 1 /\ Head(s) = s[1] /\ Head(s) \in X
         /\ Tail(s) \in Seq(X) /\ Len(Tail(s)) = Len(s) - 1
         /\ \A n \in 1..Len(Tail(s)) : Tail(s)[n] = s[n + 1]
BY EmptySeq, HeadTailProperties

LEMMA ExceptFacts ==
  ASSUME NEW X, NEW s \in Seq(X), NEW i \in 1..Len(s), NEW e \in X
  PROVE  /\ [s EXCEPT ![i] = e] \in Seq(X) /\ Len([s EXCEPT ![i] = e]) = Len(s)
         /\ \A n \in 1..Len(s) : [s EXCEPT ![i] = e][n] = IF n = i THEN e ELSE s[n]
BY ExceptSeq

LEMMA ConcatFacts ==
  ASSUME NEW X, NEW s \in Seq(X), NEW k \in Nat, NEW f \in [1..k -> X]
  PROVE  /\ s \o f \in Seq(X) /\ Len(s \o f) = Len(s) + k
         /\ \A n \in 1..Len(s) : (s \o f)[n] = s[n]
         /\ \A j \in 1..k : (s \o f)[Len(s) + j] = f[j]
<1>1. f \in Seq(X) /\ Len(f) = k
  OBVIOUS
<1>2. Len(s) \in Nat
  OBVIOUS
<1>3. /\ s \o f \in Seq(X) /\ Len(s \o f) = Len(s) + k
      /\ \A n \in 1..(Len(s) + k) : (s \o f)[n] = IF n <= Len(s) THEN s[n] ELSE f[n - Len(s)]
  BY <1>1, ConcatProperties
<1>4. \A j \in 1..k : Len(s) + j \in 1..(Len(s) + k) /\ (Len(s) + j) - Len(s) = j
  BY <1>2
<1>5. \A j \in 1..k : (s \o f)[Len(s) + j] = f[j]
  BY <1>2, <1>3, <1>4
<1> QED BY <1>2, <1>3, <1>5

LEMMA Domains ==
  ASSUME TypeOK
  PROVE  /\ DOMAIN rows = Rows /\ DOMAIN chain = Rounds /\ DOMAIN nfts = 1..Len(nfts)
         /\ Len(rows) \in Nat /\ Len(chain) \in Nat /\ Len(nfts) \in Nat
         /\ Len(minted) \in Nat /\ Len(events) \in Nat
BY DEF TypeOK, Rows, Rounds

-----------------------------------------------------------------------------
(* What is never taken back.                                               *)
RowsGrow ==
  /\ rows' \in Seq(RowType) /\ Len(rows) <= Len(rows')
  /\ \A i \in Rows : /\ rows'[i].crop = rows[i].crop
                     /\ rows[i].id # 0 => rows'[i].id # 0
                     /\ rows[i].status # "OPEN" => rows'[i].status # "OPEN"
ChainGrows ==
  /\ chain' \in Seq(RoundType) /\ Len(chain) <= Len(chain')
  /\ \A r \in Rounds :
       /\ chain'[r].crop = chain[r].crop /\ chain'[r].for = chain[r].for
       /\ \A status \in Status :
            chain[r].status \in Reached(status) => chain'[r].status \in Reached(status)
MintedGrows ==
  /\ minted' \in Seq(Nat) /\ Len(minted) <= Len(minted')
  /\ \A t \in 1..Len(minted) : minted'[t] = minted[t]
NftsGrow ==
  /\ nfts' \in Seq(NftType) /\ Len(nfts) <= Len(nfts')
  /\ \A n \in 1..Len(nfts) : nfts'[n].row = nfts[n].row

LEMMA AsBefore ==
  ASSUME TypeOK
  PROVE  /\ UNCHANGED rows => RowsGrow
         /\ UNCHANGED chain => ChainGrows
         /\ UNCHANGED minted => MintedGrows
         /\ UNCHANGED nfts => NftsGrow
<1>1. Len(rows) \in Nat /\ Len(chain) \in Nat /\ Len(minted) \in Nat /\ Len(nfts) \in Nat
  BY Domains
<1> QED BY <1>1 DEF TypeOK, RowsGrow, ChainGrows, MintedGrows, NftsGrow

\* What an event says stays so.
LEMMA EventStays ==
  ASSUME TypeOK, ChainGrows, MintedGrows, NEW e \in EventType, Event(e)
  PROVE  Event(e)'
<1>1. Len(chain) \in Nat /\ Len(chain') \in Nat /\ Len(minted) \in Nat /\ Len(minted') \in Nat
  BY Domains DEF ChainGrows, MintedGrows
<1>2. Rounds \subseteq Rounds'
  BY <1>1 DEF ChainGrows, Rounds
<1>3. e.type = "SharesPurchased" => \A t \in e.first..e.last :
        t \in 1..Len(minted') /\ minted'[t] = e.round
  BY <1>1 DEF MintedGrows, Event, Sold
<1> QED BY <1>2, <1>3 DEF ChainGrows, Event, Happened, Sold, Status

\* And what a handler relies on.
LEMMA HandlerStays ==
  ASSUME TypeOK, RowsGrow, ChainGrows, NftsGrow, NEW call \in CallType, Handler(call)
  PROVE  Handler(call)'
<1>1. /\ Len(chain) \in Nat /\ Len(chain') \in Nat /\ Len(rows) \in Nat /\ Len(rows') \in Nat
      /\ Len(nfts) \in Nat /\ Len(nfts') \in Nat
  BY Domains DEF ChainGrows, RowsGrow, NftsGrow
<1>2. Rounds \subseteq Rounds' /\ Rows \subseteq Rows' /\ 1..Len(nfts) \subseteq 1..Len(nfts')
  BY <1>1 DEF ChainGrows, RowsGrow, NftsGrow, Rounds, Rows
<1>3. call.status \in Status
  BY DEF CallType
<1>4. call.pc = "tokens" => \A p \in call.pairs :
        p[1] \in 1..Len(nfts') /\ nfts'[p[1]].row = call.row /\ p[2] # 0
  BY <1>2 DEF NftsGrow, Handler
<1> QED BY <1>2, <1>3, <1>4 DEF RowsGrow, ChainGrows, Handler, Happened

LEMMA EventsStay ==
  ASSUME TypeOK, Told, ChainGrows, MintedGrows
  PROVE  \A e \in Emissions : Event(e)'
<1>1. \A e \in Emissions : e \in EventType /\ Event(e)
  BY DEF TypeOK, Told, Emissions
<1> QED BY <1>1, EventStays

LEMMA HandlersStay ==
  ASSUME TypeOK, Told, RowsGrow, ChainGrows, NftsGrow
  PROVE  \A call \in Handlers : Handler(call)'
<1>1. \A call \in Handlers : call \in CallType /\ Handler(call)
  BY DEF TypeOK, Told, Handlers
<1> QED BY <1>1, HandlerStays

-----------------------------------------------------------------------------
(* The contract.                                                           *)
LEMMA CreatedStep ==
  ASSUME IInv, NEW crop \in Crops, NEW row \in Nat, Created(crop, row),
         UNCHANGED <<rows, nfts, calls>>, creating' \subseteq creating,
         row # 0 => row \in creating /\ row \notin creating' /\ rows[row].crop = crop,
         orderly' \in BOOLEAN, calm' \in BOOLEAN, orderly' => orderly,
         row = 0 /\ orderly' => \A i \in Rows : rows[i].crop = crop => rows[i].id # 0
  PROVE  IInv'
<1> PICK r : r = Len(chain) + 1
  OBVIOUS
<1> PICK last : last = Len(events) + 1
  OBVIOUS
<1> PICK round : round = [crop |-> crop, for |-> row, sold |-> 0, status |-> "OPEN"]
  OBVIOUS
<1> PICK e : e = [type |-> "RoundCreated", round |-> r, crop |-> crop,
                  first |-> 0, last |-> 0]
  OBVIOUS
<1> USE DEF IInv
<1>1. /\ Len(chain) \in Nat /\ Len(rows) \in Nat /\ Len(events) \in Nat /\ Len(nfts) \in Nat
      /\ Len(minted) \in Nat
  BY Domains
<1>2. /\ chain' \in Seq(RoundType) /\ Len(chain') = r /\ chain'[r] = round
      /\ \A q \in Rounds : chain'[q] = chain[q]
  <2>1. round \in RoundType
    BY DEF RoundType, Status
  <2>2. chain' = Append(chain, round)
    BY DEF Created
  <2> QED BY <2>1, <2>2, AppendFacts DEF TypeOK, Rounds
<1>3. /\ events' \in Seq(EventType) /\ Len(events') = Len(events) + 1
      /\ events'[last] = e
      /\ \A n \in 1..Len(events) : events'[n] = events[n]
  <2>1. e \in EventType
    BY <1>1 DEF EventType
  <2>2. events' = Append(events, e)
    BY DEF Created, Emitted
  <2> QED BY <2>1, <2>2, AppendFacts DEF TypeOK
<1>4. UNCHANGED minted
  BY DEF Created
<1>5. /\ r = Len(chain) + 1 /\ r \notin Rounds /\ Rounds' = Rounds \cup {r} /\ Rows' = Rows
      /\ round.crop = crop /\ round.for = row /\ round.status = "OPEN"
      /\ e.type = "RoundCreated" /\ e.round = r /\ e.crop = crop
      /\ 1..Len(events') = (1..Len(events)) \cup {last}
      /\ last \notin 1..Len(events)
  BY <1>1, <1>2, <1>3 DEF Rounds, Rows
<1>6. ChainGrows /\ RowsGrow /\ MintedGrows /\ NftsGrow
  BY <1>1, <1>2, <1>4, <1>5, AsBefore DEF ChainGrows, Rounds
<1>7. TypeOK'
  <2>1. creating' \subseteq 1..Len(rows')
    BY DEF TypeOK
  <2>2. /\ rows' \in Seq(RowType) /\ nfts' \in Seq(NftType) /\ minted' \in Seq(Nat)
        /\ calls' \in [Calls -> CallType]
    BY <1>4 DEF TypeOK
  <2>3. chain' \in Seq(RoundType) /\ events' \in Seq(EventType)
    BY <1>2, <1>3
  <2> QED BY <2>1, <2>2, <2>3 DEF TypeOK
<1>8. Creations'
  <2>1. \A q \in Rounds : chain'[q].for # 0 =>
          chain'[q].for \in Rows /\ rows'[chain'[q].for].crop = chain'[q].crop
    BY <1>2 DEF Creations
  <2>2. row # 0 => row \in Rows /\ \A q \in Rounds : chain'[q].for # row
    BY <1>2 DEF Creations, TypeOK, Rows
  <2>3. \A q, p \in Rounds : chain'[q].for = chain'[p].for /\ chain'[q].for # 0 => q = p
    BY <1>2 DEF Creations
  <2>4. \A i \in creating' : \A q \in Rounds : chain'[q].for # i
    BY <1>2 DEF Creations
  <2>5. \A i \in creating' : row # i
    BY <1>1 DEF TypeOK
  <2>6. \A t \in 1..Len(minted') : minted'[t] \in Rounds'
    BY <1>4, <1>5 DEF Creations
  <2> QED BY <1>2, <1>5, <2>1, <2>2, <2>3, <2>4, <2>5, <2>6 DEF Creations
<1>9. Told'
  <2>1. Emissions' = Emissions \cup {e} /\ Handlers' = Handlers
    BY <1>3, <1>5 DEF Emissions, Handlers
  <2>2. Event(e)'
    BY <1>2, <1>5 DEF Event
  <2> QED BY <1>6, <2>1, <2>2, EventsStay, HandlersStay DEF Told
<1>10. Numbered'
  <2>1. \A n \in 1..Len(events) : events[n].type = "RoundCreated" => events[n].round \in Rounds
    BY DEF Told, Event, Emissions
  <2>2. \A c \in Calls : calls[c].pc = "link" => calls[c].round \in Rounds
    BY DEF Told, Handler, Handlers
  <2>3. \A i \in Rows : rows[i].id \in 0..Len(chain) /\ rows[i].id # r
    BY <1>1, <1>5 DEF Numbered
  <2>4. /\ \A n \in 1..Len(events) : \A q : Announces(n, q)' <=> Announces(n, q)
        /\ \A q : Announces(last, q)' <=> (q = r)
        /\ \A n \in 1..Len(events) : ~Announces(n, r)
        /\ \A c \in Calls : \A q : Links(c, q)' <=> Links(c, q)
        /\ \A c \in Calls : ~Links(c, r)
    <3>1. \A n \in 1..Len(events) : \A q : Announces(n, q)' <=> Announces(n, q)
      BY <1>3 DEF Announces
    <3>2. \A q : Announces(last, q)' <=> (q = r)
      BY <1>3, <1>5 DEF Announces
    <3>3. \A n \in 1..Len(events) : ~Announces(n, r)
      BY <1>5, <2>1 DEF Announces
    <3>4. \A c \in Calls : \A q : Links(c, q)' <=> Links(c, q)
      BY DEF Links
    <3>5. \A c \in Calls : ~Links(c, r)
      BY <1>5, <2>2 DEF Links
    <3> QED BY <3>1, <3>2, <3>3, <3>4, <3>5
  <2>5. /\ \A i \in Rows : rows'[i].id \in 0..Len(chain')
        /\ \A i \in Rows : rows'[i].status # "OPEN" \/ rows'[i].asked => rows'[i].id # 0
        /\ \A n \in 1..Len(nfts) : nfts'[n].row \in Rows
    BY <1>1, <1>2, <1>5, <2>3 DEF Numbered
  <2>6. ASSUME NEW q \in Rounds
        PROVE  /\ \A n, m \in 1..Len(events') : Announces(n, q)' /\ Announces(m, q)' => n = m
               /\ \A c, d \in Calls : Links(c, q)' /\ Links(d, q)' => c = d
               /\ \A n \in 1..Len(events'), c \in Calls : ~(Announces(n, q)' /\ Links(c, q)')
               /\ \A i \in Rows : rows'[i].id = q =>
                    /\ \A n \in 1..Len(events') : ~Announces(n, q)'
                    /\ \A c \in Calls : ~Links(c, q)'
    BY <1>5, <2>4 DEF Numbered
  <2>7. /\ \A n, m \in 1..Len(events') : Announces(n, r)' /\ Announces(m, r)' => n = m
        /\ \A c \in Calls : ~Links(c, r)'
    BY <1>5, <2>4
  <2> QED BY <1>5, <2>3, <2>5, <2>6, <2>7 DEF Numbered
<1>11. ASSUME orderly'
       PROVE  Expected' /\ Tokens'
  <2>1. Expected /\ Tokens /\ UNCHANGED rows /\ UNCHANGED nfts /\ Handlers' = Handlers
        /\ Emissions' = Emissions \cup {e}
    BY <1>3, <1>5, <1>11 DEF Emissions, Handlers
  <2>2. \A i \in Rows : rows'[i].id # 0 =>
          chain'[rows'[i].id].for = i /\ chain'[rows'[i].id].status \in Reached(Claimed(rows'[i]))
    <3> TAKE i \in Rows
    <3>1. rows[i].id # 0 => rows[i].id \in Rounds
      BY <1>1 DEF Numbered, Rounds
    <3> QED BY <1>2, <2>1, <3>1 DEF Expected
  <2>3. \A i \in Rows : Latest(i)' <=> Latest(i)
    BY <1>5, <2>1 DEF Latest
  <2>4. \A i \in creating' : Latest(i)'
    BY <2>1, <2>3 DEF Expected, TypeOK, Rows
  <2>5. \A x \in Emissions : x.type = "RoundCreated" =>
          /\ chain'[x.round].for = 0 => \A i \in Rows : rows'[i].crop = x.crop => rows'[i].id # 0
          /\ \A i \in Rows : chain'[x.round].for = i => Latest(i)'
    BY <1>2, <2>1, <2>3 DEF Told, Event, Expected
  <2>6. /\ chain'[e.round].for = 0 => \A i \in Rows : rows'[i].crop = e.crop => rows'[i].id # 0
        /\ \A i \in Rows : chain'[e.round].for = i => Latest(i)'
    <3>1. chain'[e.round].for = row /\ e.crop = crop
      BY <1>2, <1>5
    <3>2. row = 0 => \A i \in Rows : rows[i].crop = crop => rows[i].id # 0
      BY <1>11
    <3>3. row # 0 => Latest(row)
      BY <2>1 DEF Expected
    <3>4. \A i \in Rows : i # 0
      BY DEF Rows
    <3> QED BY <2>1, <2>3, <3>1, <3>2, <3>3, <3>4
  <2>7. \A call \in Handlers : call.pc = "link" => chain'[call.round].for = call.row
    BY <1>2, <2>1 DEF Told, Handler, Expected
  <2>8. Expected'
    BY <1>5, <2>1, <2>2, <2>4, <2>5, <2>6, <2>7 DEF Expected
  <2>9. Tokens'
    BY <1>4, <2>1 DEF Tokens, Sold
  <2> QED BY <2>8, <2>9
<1> QED BY <1>7, <1>8, <1>9, <1>10, <1>11

\* The contract goes on with a round, and says so.
LEMMA OnChain ==
  ASSUME IInv, ChainGrows, Len(chain') = Len(chain), MintedGrows,
         \A t \in 1..Len(minted') : minted'[t] \in Rounds,
         NEW e \in EventType, e.type # "RoundCreated", Event(e)', events' = Append(events, e),
         UNCHANGED <<rows, nfts, creating, calls, orderly, calm>>
  PROVE  IInv'
<1> PICK last : last = Len(events) + 1
  OBVIOUS
<1> USE DEF IInv
<1>1. /\ Len(chain) \in Nat /\ Len(rows) \in Nat /\ Len(events) \in Nat /\ Len(nfts) \in Nat
      /\ Len(minted) \in Nat
  BY Domains
<1>2. /\ events' \in Seq(EventType) /\ Len(events') = Len(events) + 1
      /\ events'[last] = e
      /\ \A n \in 1..Len(events) : events'[n] = events[n]
  BY AppendFacts DEF TypeOK
<1>3. /\ 1..Len(events') = (1..Len(events)) \cup {last} /\ last \notin 1..Len(events)
      /\ Rows' = Rows /\ Rounds' = Rounds
      /\ Handlers' = Handlers /\ Emissions' = Emissions \cup {e}
  <2>1. 1..Len(events') = (1..Len(events)) \cup {last} /\ last \notin 1..Len(events)
    BY <1>1, <1>2
  <2>2. Rows' = Rows /\ Rounds' = Rounds /\ Handlers' = Handlers
    BY DEF Rows, Rounds, Handlers
  <2> QED BY <1>2, <2>1, <2>2 DEF Emissions
<1>4. RowsGrow /\ NftsGrow
  BY AsBefore
<1>5. TypeOK'
  <2>1. /\ rows' \in Seq(RowType) /\ nfts' \in Seq(NftType) /\ chain' \in Seq(RoundType)
        /\ minted' \in Seq(Nat) /\ creating' \subseteq 1..Len(rows')
        /\ calls' \in [Calls -> CallType] /\ orderly' \in BOOLEAN /\ calm' \in BOOLEAN
    BY DEF TypeOK, ChainGrows, MintedGrows
  <2> QED BY <1>2, <2>1 DEF TypeOK
<1>6. Creations'
  BY <1>3 DEF Creations, ChainGrows
<1>7. Told'
  BY <1>3, <1>4, EventsStay, HandlersStay DEF Told
<1>8. Numbered'
  <2>1. \A n \in 1..Len(events) : \A q : Announces(n, q)' <=> Announces(n, q)
    BY <1>2 DEF Announces
  <2>2. \A q : ~Announces(last, q)'
    BY <1>2 DEF Announces
  <2>3. \A c \in Calls : \A q : Links(c, q)' <=> Links(c, q)
    BY DEF Links
  <2> QED BY <1>3, <2>1, <2>2, <2>3 DEF Numbered
<1>9. ASSUME orderly'
      PROVE  Expected' /\ Tokens'
  <2>1. Expected /\ Tokens
    BY <1>9
  <2>2. \A i \in Rows : rows'[i].id # 0 =>
          chain'[rows'[i].id].for = i /\ chain'[rows'[i].id].status \in Reached(Claimed(rows'[i]))
    <3> TAKE i \in Rows
    <3>1. Claimed(rows[i]) \in Status /\ rows'[i] = rows[i]
      <4>1. rows[i] \in RowType
        BY DEF TypeOK, Rows
      <4> QED BY <4>1 DEF RowType, Claimed, Status
    <3>2. rows[i].id # 0 => rows[i].id \in Rounds
      BY <1>1 DEF Numbered, Rounds
    <3> QED BY <2>1, <3>1, <3>2 DEF Expected, ChainGrows
  <2>3. \A i \in Rows : Latest(i)' <=> Latest(i)
    BY <1>3 DEF Latest
  <2>4. \A i \in creating' : Latest(i)'
    BY <2>1, <2>3 DEF Expected, TypeOK, Rows
  <2>5. \A x \in Emissions' : x.type = "RoundCreated" =>
          /\ chain'[x.round].for = 0 => \A i \in Rows : rows'[i].crop = x.crop => rows'[i].id # 0
          /\ \A i \in Rows : chain'[x.round].for = i => Latest(i)'
    <3> TAKE x \in Emissions'
    <3> HAVE x.type = "RoundCreated"
    <3>1. x \in Emissions /\ x.round \in Rounds
      BY <1>3 DEF Told, Event
    <3>2. chain'[x.round].for = chain[x.round].for
      BY <3>1 DEF ChainGrows
    <3> QED BY <2>1, <2>3, <3>1, <3>2 DEF Expected
  <2>6. \A call \in Handlers' : call.pc = "link" => chain'[call.round].for = call.row
    BY <1>3, <2>1 DEF Told, Handler, Expected, ChainGrows
  <2>7. Expected'
    BY <1>3, <2>2, <2>4, <2>5, <2>6 DEF Expected
  <2>8. UNCHANGED rows /\ UNCHANGED nfts
        /\ \A t \in 1..Len(minted) : t \in 1..Len(minted') /\ minted'[t] = minted[t]
    BY <1>1 DEF MintedGrows
  <2>9. \A n \in 1..Len(nfts') : nfts'[n].token # 0 =>
          nfts'[n].token \in 1..Len(minted') /\ minted'[nfts'[n].token] = rows'[nfts'[n].row].id
    BY <2>1, <2>8 DEF Tokens
  <2>10. \A call \in Handlers' :
          /\ call.pc = "shares" =>
               Sold(rows[call.row].id, call.round, call.round + call.count - 1)'
               /\ rows'[call.row].id # 0
          /\ call.pc = "tokens" => \A p \in call.pairs :
               p[2] \in 1..Len(minted') /\ minted'[p[2]] = rows'[call.row].id
    <3> TAKE call \in Handlers'
    <3>1. call \in Handlers
      BY <1>3
    <3> QED BY <2>1, <2>8, <3>1 DEF Tokens, Sold
  <2> QED BY <2>7, <2>9, <2>10 DEF Tokens, Sold
<1> QED BY <1>5, <1>6, <1>7, <1>8, <1>9

LEMMA InvestStep ==
  ASSUME IInv, NEW r \in Rounds, NEW k \in 1..Shares, invest(r, k)
  PROVE  IInv'
<1> PICK e : e = [type |-> "SharesPurchased", round |-> r, crop |-> "any",
                  first |-> Len(minted) + 1, last |-> Len(minted) + k]
  OBVIOUS
<1> PICK round : round = [chain[r] EXCEPT !.sold = chain[r].sold + k,
       !.status = IF chain[r].sold + k = Shares THEN "FUNDED" ELSE chain[r].status]
  OBVIOUS
<1>1. Len(chain) \in Nat /\ Len(minted) \in Nat /\ TypeOK /\ k \in Nat /\ k # 0
  BY Domains, BoundAssumption DEF IInv
<1>2. /\ round \in RoundType /\ round.crop = chain[r].crop /\ round.for = chain[r].for
      /\ \A status \in Status :
           chain[r].status \in Reached(status) => round.status \in Reached(status)
  <2>1. chain[r] \in RoundType /\ chain[r].status = "OPEN"
    BY <1>1 DEF TypeOK, Rounds, invest
  <2> PICK status \in {"OPEN", "FUNDED"} :
        status = IF chain[r].sold + k = Shares THEN "FUNDED" ELSE "OPEN"
    OBVIOUS
  <2>2. round = [crop |-> chain[r].crop, for |-> chain[r].for, sold |-> chain[r].sold + k,
                 status |-> status]
    BY <2>1 DEF RoundType
  <2>3. chain[r].crop \in Crops /\ chain[r].for \in Nat /\ chain[r].sold + k \in Nat
        /\ status \in Status \cup {"FUNDED"}
    BY <1>1, <2>1 DEF RoundType, Status
  <2> QED BY <2>1, <2>2, <2>3 DEF RoundType, Reached, Status
<1>3. chain' = [chain EXCEPT ![r] = round]
  <2>1. DOMAIN chain = Rounds
    BY <1>1 DEF TypeOK, Rounds
  <2> QED BY <2>1 DEF invest
<1>4. ChainGrows /\ Len(chain') = Len(chain)
  BY <1>1, <1>2, <1>3, ExceptFacts DEF TypeOK, ChainGrows, Rounds
<1>5. /\ minted' \in Seq(Nat) /\ Len(minted') = Len(minted) + k
      /\ \A t \in 1..Len(minted) : minted'[t] = minted[t]
      /\ \A j \in 1..k : minted'[Len(minted) + j] = r
  <2>1. [j \in 1..k |-> r] \in [1..k -> Nat]
    BY <1>1 DEF Rounds
  <2>2. minted' = minted \o [j \in 1..k |-> r]
    BY DEF invest
  <2>3. \A j \in 1..k : [i \in 1..k |-> r][j] = r
    OBVIOUS
  <2> QED BY <1>1, <2>1, <2>2, <2>3, ConcatFacts DEF TypeOK
<1>6. MintedGrows
  BY <1>1, <1>5 DEF MintedGrows
<1>7. \A t \in (Len(minted) + 1)..(Len(minted) + k) : t \in 1..Len(minted') /\ minted'[t] = r
  <2> TAKE t \in (Len(minted) + 1)..(Len(minted) + k)
  <2>1. PICK j \in 1..k : t = Len(minted) + j
    <3>1. t - Len(minted) \in 1..k /\ t = Len(minted) + (t - Len(minted))
      BY <1>1
    <3> QED BY <3>1
  <2> QED BY <1>1, <1>5, <2>1
<1>8. \A t \in 1..Len(minted') : minted'[t] \in Rounds
  <2> TAKE t \in 1..Len(minted')
  <2>1. t \in 1..Len(minted) \/ t \in (Len(minted) + 1)..(Len(minted) + k)
    BY <1>1, <1>5
  <2> QED BY <1>5, <1>7, <2>1 DEF IInv, Creations
<1>9. e \in EventType
  BY <1>1 DEF EventType, Rounds
<1>10. Event(e)'
  <2>1. e.type = "SharesPurchased" /\ e.round = r /\ e.first = Len(minted) + 1
        /\ e.last = Len(minted) + k
    OBVIOUS
  <2>2. e.first # 0 /\ e.first <= e.last /\ r \in Rounds'
    BY <1>1, <1>4, <2>1 DEF Rounds
  <2> QED BY <1>7, <2>1, <2>2 DEF Event, Sold
<1>11. events' = Append(events, e) /\ UNCHANGED <<rows, nfts, creating, calls, orderly, calm>>
  BY DEF invest, Emitted
<1>12. e.type # "RoundCreated"
  OBVIOUS
<1> QED BY <1>4, <1>6, <1>8, <1>9, <1>10, <1>11, <1>12, OnChain

\* The capital is released, or the harvest shared out.
LEMMA StatusStep ==
  ASSUME IInv, NEW r \in Rounds, unlockCapital(r) \/ distributeOnChain(r)
  PROVE  IInv'
<1> PICK status : status = IF chain[r].status = "FUNDED" THEN "ACTIVE" ELSE "DISTRIBUTING"
  OBVIOUS
<1> PICK e : e = [type |-> IF status = "ACTIVE" THEN "CapitalUnlocked"
                           ELSE "HarvestDistributed",
                  round |-> r, crop |-> "any", first |-> 0, last |-> 0]
  OBVIOUS
<1> PICK round : round = [chain[r] EXCEPT !.status = status]
  OBVIOUS
<1>1. Len(chain) \in Nat /\ Len(minted) \in Nat /\ TypeOK
  BY Domains DEF IInv
<1>2. chain[r] \in RoundType
  BY <1>1 DEF TypeOK, Rounds
<1>3. \/ chain[r].status = "FUNDED" /\ status = "ACTIVE"
      \/ chain[r].status = "ACTIVE" /\ status = "DISTRIBUTING"
  BY DEF unlockCapital, distributeOnChain
<1>4. /\ round \in RoundType /\ round.crop = chain[r].crop /\ round.for = chain[r].for
      /\ round.status = status
      /\ \A s \in Status : chain[r].status \in Reached(s) => round.status \in Reached(s)
  <2>1. round = [crop |-> chain[r].crop, for |-> chain[r].for, sold |-> chain[r].sold,
                 status |-> status]
    BY <1>2 DEF RoundType
  <2> QED BY <1>2, <1>3, <2>1 DEF RoundType, Reached, Status
<1>5. chain' = [chain EXCEPT ![r] = round]
  BY <1>3 DEF unlockCapital, distributeOnChain
<1>6. ChainGrows /\ Len(chain') = Len(chain) /\ chain'[r] = round
  BY <1>1, <1>4, <1>5, ExceptFacts DEF TypeOK, ChainGrows, Rounds
<1>7. UNCHANGED minted /\ UNCHANGED <<rows, nfts, creating, calls, orderly, calm>>
  BY DEF unlockCapital, distributeOnChain
<1>8. MintedGrows /\ \A t \in 1..Len(minted') : minted'[t] \in Rounds
  BY <1>1, <1>7, AsBefore DEF IInv, Creations
<1>9. e \in EventType /\ e.type # "RoundCreated"
  BY <1>1 DEF EventType, Rounds
<1>10. Event(e)'
  <2>1. r \in Rounds' /\ chain'[r].status = status
    BY <1>1, <1>4, <1>6 DEF Rounds
  <2>2. e.round = r /\ e.type = IF status = "ACTIVE" THEN "CapitalUnlocked"
                                 ELSE "HarvestDistributed"
    OBVIOUS
  <2> QED BY <1>3, <2>1, <2>2 DEF Event, Happened, Reached
<1>11. events' = Append(events, e)
  BY <1>3 DEF unlockCapital, distributeOnChain, Emitted
<1> QED BY <1>6, <1>7, <1>8, <1>9, <1>10, <1>11, OnChain

-----------------------------------------------------------------------------
(* The requests.                                                           *)
\* Fewer transactions under way, or fewer promises to keep.
LEMMA LessUnderWay ==
  ASSUME IInv, UNCHANGED <<rows, nfts, chain, minted, events, calls, orderly, calm>>,
         creating' \subseteq creating
  PROVE  IInv'
<1> USE DEF IInv
<1>1. /\ UNCHANGED rows /\ UNCHANGED nfts /\ UNCHANGED chain /\ UNCHANGED minted
      /\ UNCHANGED events /\ UNCHANGED calls /\ UNCHANGED orderly /\ UNCHANGED calm
      /\ creating' \subseteq creating
  OBVIOUS
<1>2. TypeOK'
  BY <1>1 DEF TypeOK
<1>3. Creations'
  BY <1>1 DEF Creations, Rows, Rounds
<1>4. Emissions' = Emissions /\ Handlers' = Handlers /\ Rows' = Rows /\ Rounds' = Rounds
  BY <1>1 DEF Emissions, Handlers, Rows, Rounds
<1>5. Told'
  BY <1>1, <1>4 DEF Told, Event, Handler, Happened, Sold
<1>6. Numbered'
  BY <1>1, <1>4 DEF Numbered, Announces, Links
<1>7. orderly' => Expected'
  BY <1>1, <1>4 DEF Expected, Latest
<1>8. orderly' => Tokens'
  BY <1>1, <1>4 DEF Tokens, Sold
<1> QED BY <1>2, <1>3, <1>5, <1>6, <1>7, <1>8

LEMMA CreateStep ==
  ASSUME IInv, NEW crop \in Crops, createRound(crop)
  PROVE  IInv'
<1> PICK i : i = Len(rows) + 1
  OBVIOUS
<1> PICK row : row = [id |-> 0, crop |-> crop, sold |-> 0, status |-> "OPEN",
                   asked |-> FALSE]
  OBVIOUS
<1> USE DEF IInv
<1>1. Len(chain) \in Nat /\ Len(rows) \in Nat /\ Len(events) \in Nat /\ Len(nfts) \in Nat
  BY Domains
<1>2. /\ rows' \in Seq(RowType) /\ Len(rows') = i /\ rows'[i] = row
      /\ \A j \in Rows : rows'[j] = rows[j]
  <2>1. row \in RowType
    BY DEF RowType, Status
  <2>2. rows' = Append(rows, row)
    BY DEF createRound
  <2> QED BY <2>1, <2>2, AppendFacts DEF TypeOK, Rows
<1>3. /\ UNCHANGED nfts /\ UNCHANGED chain /\ UNCHANGED minted /\ UNCHANGED events
      /\ UNCHANGED calls /\ UNCHANGED calm /\ creating' = creating \cup {i}
  BY DEF createRound, contract
<1>4. orderly' = (orderly /\ ~UnderWay(crop))
  BY DEF createRound
<1>5. /\ Rows' = Rows \cup {i} /\ i \notin Rows /\ i # 0 /\ Rounds' = Rounds
      /\ \A j \in Rows : j <= i
      /\ row.id = 0 /\ row.crop = crop /\ row.status = "OPEN" /\ ~row.asked
      /\ Emissions' = Emissions /\ Handlers' = Handlers
  BY <1>1, <1>2, <1>3 DEF Rows, Rounds, Emissions, Handlers
<1>6. RowsGrow /\ ChainGrows /\ MintedGrows /\ NftsGrow
  BY <1>1, <1>2, <1>3, <1>5, AsBefore DEF RowsGrow
<1>7. TypeOK'
  <2>1. creating' \subseteq 1..Len(rows')
    BY <1>3, <1>5 DEF TypeOK, Rows
  <2>2. orderly' \in BOOLEAN
    BY <1>4
  <2> QED BY <1>2, <1>3, <2>1, <2>2 DEF TypeOK
<1>8. Creations'
  BY <1>2, <1>3, <1>5 DEF Creations
<1>9. Told'
  BY <1>5, <1>6, EventsStay, HandlersStay DEF Told
<1>10. Numbered'
  <2>1. \A j \in Rows' : rows'[j].id \in 0..Len(chain')
    BY <1>1, <1>2, <1>3, <1>5 DEF Numbered
  <2>2. \A j \in Rows' : rows'[j].status # "OPEN" \/ rows'[j].asked => rows'[j].id # 0
    BY <1>2, <1>5 DEF Numbered
  <2>3. \A n \in 1..Len(nfts') : nfts'[n].row \in Rows'
    BY <1>3, <1>5 DEF Numbered
  <2>4. \A q : /\ \A n \in 1..Len(events) : Announces(n, q)' <=> Announces(n, q)
               /\ \A c \in Calls : Links(c, q)' <=> Links(c, q)
    BY <1>3 DEF Announces, Links
  <2>5. \A q \in Rounds : q # 0
    BY DEF Rounds
  <2>6. \A q \in Rounds, j \in Rows' : rows'[j].id = q => j \in Rows /\ rows[j].id = q
    BY <1>2, <1>5, <2>5
  <2>7. ASSUME NEW r \in Rounds'
        PROVE  /\ \A n, m \in 1..Len(events') : Announces(n, r)' /\ Announces(m, r)' => n = m
               /\ \A c, d \in Calls : Links(c, r)' /\ Links(d, r)' => c = d
               /\ \A n \in 1..Len(events'), c \in Calls : ~(Announces(n, r)' /\ Links(c, r)')
               /\ \A j \in Rows' : rows'[j].id = r =>
                    /\ \A n \in 1..Len(events') : ~Announces(n, r)'
                    /\ \A c \in Calls : ~Links(c, r)'
    BY <1>3, <1>5, <2>4, <2>6 DEF Numbered
  <2> QED BY <2>1, <2>2, <2>3, <2>7 DEF Numbered
<1>11. ASSUME orderly'
       PROVE  Expected' /\ Tokens'
  <2>1. Expected /\ Tokens
    BY <1>4, <1>11
  <2>2. /\ \A j \in creating : rows[j].crop # crop
        /\ \A e \in Emissions : e.crop # crop
    <3>1. ~UnderWay(crop)
      BY <1>4, <1>11
    <3>2. DOMAIN events = 1..Len(events)
      BY DEF TypeOK
    <3> QED BY <3>1, <3>2 DEF UnderWay, Emissions
  <2>3. \A j \in Rows : Latest(j) /\ rows[j].crop # crop => Latest(j)'
    BY <1>2, <1>5 DEF Latest
  <2>4. Latest(i)'
    BY <1>1, <1>2, <1>5 DEF Latest, Rows
  <2>5. \A j \in Rows' : rows'[j].id # 0 =>
          chain'[rows'[j].id].for = j /\ chain'[rows'[j].id].status \in Reached(Claimed(rows'[j]))
    BY <1>2, <1>3, <1>5, <2>1 DEF Expected
  <2>6. \A j \in creating' : Latest(j)'
    BY <1>3, <2>1, <2>2, <2>3, <2>4 DEF Expected, TypeOK, Rows
  <2>7. \A e \in Emissions : e.type = "RoundCreated" =>
          /\ chain'[e.round].for = 0 => \A j \in Rows' : rows'[j].crop = e.crop => rows'[j].id # 0
          /\ \A j \in Rows' : chain'[e.round].for = j => Latest(j)'
    <3> TAKE e \in Emissions
    <3> HAVE e.type = "RoundCreated"
    <3>1. e.round \in Rounds /\ chain[e.round].crop = e.crop /\ e.crop # crop
      BY <2>2 DEF Told, Event
    <3>2. chain[e.round].for = 0 => \A j \in Rows' : rows'[j].crop = e.crop => rows'[j].id # 0
      BY <1>2, <1>5, <2>1, <3>1 DEF Expected
    <3>3. \A j \in Rows' : chain[e.round].for = j =>
            j \in Rows /\ Latest(j) /\ rows[j].crop # crop
      <4> TAKE j \in Rows'
      <4> HAVE chain[e.round].for = j
      <4>1. j # 0
        BY <1>5 DEF Rows
      <4>2. j \in Rows /\ rows[j].crop = chain[e.round].crop
        BY <3>1, <4>1 DEF Creations
      <4> QED BY <2>1, <3>1, <4>2 DEF Expected
    <3> QED BY <1>3, <2>3, <3>2, <3>3
  <2>8. Expected'
    BY <1>3, <1>5, <2>1, <2>5, <2>6, <2>7 DEF Expected
  <2>9. Tokens'
    <3>1. \A n \in 1..Len(nfts) : rows'[nfts[n].row].id = rows[nfts[n].row].id
      BY <1>2 DEF Numbered
    <3>2. \A call \in Handlers : call.pc \in {"shares", "tokens"} =>
            rows'[call.row].id = rows[call.row].id
      BY <1>2 DEF Told, Handler
    <3> QED BY <1>3, <1>5, <2>1, <3>1, <3>2 DEF Tokens, Sold
  <2> QED BY <2>8, <2>9
<1> QED BY <1>7, <1>8, <1>9, <1>10, <1>11

LEMMA ContractStep ==
  ASSUME IInv,
         \/ \E i \in creating : mineCreateRound(i)
         \/ \E crop \in Crops : createRoundOutside(crop)
  PROVE  IInv'
<1>1. ASSUME NEW i \in creating, mineCreateRound(i)
      PROVE  IInv'
  <2>1. i \in 1..Len(rows) /\ rows[i].crop \in Crops /\ i # 0 /\ i \in Nat
    <3>1. i \in 1..Len(rows) /\ rows \in Seq(RowType)
      BY DEF IInv, TypeOK
    <3>2. rows[i] \in RowType
      BY <3>1
    <3> QED BY <3>1, <3>2 DEF RowType
  <2>2. /\ Created(rows[i].crop, i) /\ UNCHANGED <<rows, nfts, calls>>
        /\ creating' \subseteq creating /\ i \notin creating'
        /\ UNCHANGED orderly /\ UNCHANGED calm
    BY <1>1 DEF mineCreateRound
  <2>3. orderly' \in BOOLEAN /\ calm' \in BOOLEAN
    BY <2>2 DEF IInv, TypeOK
  <2>4. PICK crop \in Crops : crop = rows[i].crop
    BY <2>1
  <2>5. Created(crop, i)
    BY <2>2, <2>4
  <2>6. orderly' => orderly
    BY <2>2
  <2> QED BY <2>1, <2>2, <2>3, <2>4, <2>5, <2>6, CreatedStep
<1>2. ASSUME NEW crop \in Crops, createRoundOutside(crop)
      PROVE  IInv'
  <2>1. /\ Created(crop, 0) /\ UNCHANGED <<rows, nfts, calls>> /\ creating' \subseteq creating
        /\ UNCHANGED calm
    BY <1>2 DEF createRoundOutside
  <2>2. orderly' = (orderly /\ ~UnderWay(crop)
                 /\ \A i \in DOMAIN rows : rows[i].crop = crop => rows[i].id # 0)
    BY <1>2 DEF createRoundOutside
  <2>3. orderly' \in BOOLEAN /\ calm' \in BOOLEAN
    BY <2>1, <2>2 DEF IInv, TypeOK
  <2>4. DOMAIN rows = Rows
    BY Domains DEF IInv
  <2>5. orderly' => orderly
    BY <2>2
  <2>6. orderly' => \A i \in Rows : rows[i].crop = crop => rows[i].id # 0
    BY <2>2, <2>4
  <2> QED BY <2>1, <2>3, <2>5, <2>6, CreatedStep
<1> QED BY <1>1, <1>2

-----------------------------------------------------------------------------
(* The handlers.                                                           *)
\* One of them moves, perhaps on an event, before it writes.
LEMMA CallStep ==
  ASSUME IInv, UNCHANGED <<rows, nfts, chain, minted, creating, orderly>>, calm' \in BOOLEAN,
         NEW c \in Calls, NEW call \in CallType, calls' = [calls EXCEPT ![c] = call],
         Handler(call),
         UNCHANGED events \/ (events # <<>> /\ events' = Tail(events)),
         call.pc = "link" => /\ events # <<>> /\ events' = Tail(events)
                             /\ Announces(1, call.round),
         orderly =>
           /\ call.pc = "link" => chain[call.round].for = call.row
           /\ call.pc = "shares" =>
                Sold(rows[call.row].id, call.round, call.round + call.count - 1)
                /\ rows[call.row].id # 0
           /\ call.pc = "tokens" => \A p \in call.pairs :
                p[2] \in 1..Len(minted) /\ minted[p[2]] = rows[call.row].id
  PROVE  IInv'
<1> USE DEF IInv
<1>1. PICK s \in {0, 1} :
        /\ events' \in Seq(EventType)
        /\ \A n \in 1..Len(events') :
             n + s \in 1..Len(events) /\ events'[n] = events[n + s] /\ n + s # s
        /\ call.pc = "link" => s = 1 /\ 1 \in 1..Len(events) /\ Announces(1, call.round)
  <2>1. Len(events) \in Nat
    BY Domains
  <2>2. CASE events # <<>> /\ events' = Tail(events)
    <3>1. /\ events' \in Seq(EventType) /\ Len(events) >= 1 /\ Len(events') = Len(events) - 1
          /\ \A n \in 1..Len(events') : events'[n] = events[n + 1]
      BY <2>2, TailFacts DEF TypeOK
    <3>2. \A n \in 1..Len(events') : n + 1 \in 1..Len(events) /\ n + 1 # 1
      BY <2>1, <3>1
    <3> QED BY <2>1, <3>1, <3>2
  <2>3. CASE UNCHANGED events /\ call.pc # "link"
    <3>1. \A n \in 1..Len(events) : n + 0 = n /\ n # 0
      BY <2>1
    <3> QED BY <2>3, <3>1 DEF TypeOK
  <2> QED BY <2>2, <2>3
<1>2. /\ calls' \in [Calls -> CallType] /\ calls'[c] = call
      /\ \A d \in Calls : d # c => calls'[d] = calls[d]
  BY DEF TypeOK
<1>3. /\ Rows' = Rows /\ Rounds' = Rounds
      /\ \A e \in Emissions' : e \in Emissions
      /\ \A x \in Handlers' : x = call \/ x \in Handlers
  <2>1. \A e \in Emissions' : e \in Emissions
    BY <1>1 DEF Emissions
  <2>2. \A x \in Handlers' : x = call \/ x \in Handlers
    BY <1>2 DEF Handlers
  <2> QED BY <2>1, <2>2 DEF Rows, Rounds
<1>4. RowsGrow /\ ChainGrows /\ MintedGrows /\ NftsGrow
  BY AsBefore
<1>5. TypeOK'
  <2>1. /\ rows' \in Seq(RowType) /\ nfts' \in Seq(NftType) /\ chain' \in Seq(RoundType)
        /\ minted' \in Seq(Nat) /\ creating' \subseteq 1..Len(rows') /\ orderly' \in BOOLEAN
    BY DEF TypeOK
  <2> QED BY <1>1, <1>2, <2>1 DEF TypeOK
<1>6. Creations'
  BY <1>3 DEF Creations
<1>7. Told'
  <2>1. Handler(call)'
    BY <1>4, HandlerStays
  <2> QED BY <1>3, <1>4, <2>1, EventsStay, HandlersStay DEF Told
<1>8. Numbered'
  <2>1. \A n \in 1..Len(events') : \A q : Announces(n, q)' => Announces(n + s, q)
    BY <1>1 DEF Announces
  <2>2. \A q : Links(c, q)' => call.pc = "link" /\ call.round = q
    BY <1>2 DEF Links
  <2>3. \A d \in Calls : d # c => \A q : Links(d, q)' => Links(d, q)
    BY <1>2 DEF Links
  <2>4. \A q : Links(c, q)' => Announces(1, q) /\ s = 1 /\ 1 \in 1..Len(events)
    BY <1>1, <2>2
  <2>5. ASSUME NEW q \in Rounds
        PROVE  /\ \A n, m \in 1..Len(events') : Announces(n, q)' /\ Announces(m, q)' => n = m
               /\ \A d, x \in Calls : Links(d, q)' /\ Links(x, q)' => d = x
               /\ \A n \in 1..Len(events'), d \in Calls : ~(Announces(n, q)' /\ Links(d, q)')
               /\ \A i \in Rows : rows[i].id = q =>
                    /\ \A n \in 1..Len(events') : ~Announces(n, q)'
                    /\ \A d \in Calls : ~Links(d, q)'
    <3>1. \A n, m \in 1..Len(events') : Announces(n, q)' /\ Announces(m, q)' => n = m
      <4> TAKE n, m \in 1..Len(events')
      <4> HAVE Announces(n, q)' /\ Announces(m, q)'
      <4>1. n + s = m + s
        BY <1>1, <2>1 DEF Numbered
      <4> QED BY <4>1
    <3>2. \A d, x \in Calls : Links(d, q)' /\ Links(x, q)' => d = x
      BY <2>3, <2>4 DEF Numbered
    <3>3. \A n \in 1..Len(events'), d \in Calls : ~(Announces(n, q)' /\ Links(d, q)')
      BY <1>1, <2>1, <2>3, <2>4 DEF Numbered
    <3>4. \A i \in Rows : rows[i].id = q => \A n \in 1..Len(events') : ~Announces(n, q)'
      BY <1>1, <2>1 DEF Numbered
    <3>5. \A i \in Rows : rows[i].id = q => \A d \in Calls : ~Links(d, q)'
      BY <2>3, <2>4 DEF Numbered
    <3> QED BY <3>1, <3>2, <3>3, <3>4, <3>5
  <2> QED BY <1>3, <2>5 DEF Numbered
<1>9. ASSUME orderly'
      PROVE  Expected' /\ Tokens'
  <2>1. Expected /\ Tokens
    BY <1>9
  <2>2. \A i \in Rows : Latest(i)' <=> Latest(i)
    BY <1>3 DEF Latest
  <2>3. \A i \in creating' : Latest(i)'
    BY <2>1, <2>2 DEF Expected, TypeOK, Rows
  <2>4. \A e \in Emissions' : e.type = "RoundCreated" =>
          /\ chain'[e.round].for = 0 => \A i \in Rows : rows'[i].crop = e.crop => rows'[i].id # 0
          /\ \A i \in Rows : chain'[e.round].for = i => Latest(i)'
    BY <1>3, <2>1, <2>2 DEF Expected
  <2>5. \A x \in Handlers' : x.pc = "link" => chain'[x.round].for = x.row
    BY <1>3, <1>9, <2>1 DEF Expected
  <2>6. Expected'
    BY <1>3, <2>1, <2>3, <2>4, <2>5 DEF Expected
  <2>7. Tokens'
    BY <1>3, <1>9, <2>1 DEF Tokens, Sold
  <2> QED BY <2>6, <2>7
<1> QED BY <1>5, <1>6, <1>7, <1>8, <1>9

LEMMA IdleFacts == Idle \in CallType /\ Idle.pc = "idle" /\ (TypeOK => Handler(Idle))
BY DEF Idle, CallType, Status, Handler

LEMMA CallFacts ==
  ASSUME NEW pc \in {"nfts", "sold", "distribute", "link", "shares", "tokens", "status"},
         NEW row \in Nat, NEW round \in Nat, NEW count \in Nat, NEW sold \in Nat,
         NEW status \in Status, NEW pairs \in SUBSET (Nat \X Nat)
  PROVE  [pc |-> pc, row |-> row, round |-> round, count |-> count, sold |-> sold,
          status |-> status, pairs |-> pairs] \in CallType
BY DEF CallType

\* An event is about to be heard.
LEMMA HeardFacts ==
  ASSUME IInv, NEW type, Heard(type)
  PROVE  /\ events # <<>> /\ events' = Tail(events)
         /\ Head(events) \in EventType /\ Event(Head(events)) /\ Head(events).type = type
         /\ Head(events) \in Emissions /\ Head(events) = events[1] /\ 1 \in 1..Len(events)
<1>1. events \in Seq(EventType) /\ events # <<>> /\ events' = Tail(events)
      /\ Head(events).type = type
  BY DEF IInv, TypeOK, Heard
<1>2. Len(events) \in Nat /\ Len(events) >= 1 /\ Head(events) = events[1]
      /\ Head(events) \in EventType
  BY <1>1, TailFacts
<1>3. 1 \in 1..Len(events)
  BY <1>2
<1>4. Head(events) \in Emissions
  BY <1>2, <1>3 DEF Emissions
<1> QED BY <1>1, <1>2, <1>3, <1>4 DEF IInv, Told

\* A handler of this kind relies on nothing that another one changes.
LEMMA PlainStep ==
  ASSUME IInv, UNCHANGED <<rows, nfts, chain, minted, creating, orderly>>, calm' \in BOOLEAN,
         NEW c \in Calls, NEW call \in CallType, calls' = [calls EXCEPT ![c] = call],
         Handler(call), call.pc \notin {"link", "shares", "tokens"},
         UNCHANGED events \/ (events # <<>> /\ events' = Tail(events))
  PROVE  IInv'
<1>1. call.pc # "link" /\ call.pc # "shares" /\ call.pc # "tokens"
  OBVIOUS
<1> QED BY <1>1, CallStep

LEMMA BeginFacts ==
  ASSUME IInv, NEW c, NEW call, Begin(c, call)
  PROVE  calls' = [calls EXCEPT ![c] = call] /\ calm' \in BOOLEAN
BY DEF Begin

LEMMA RequestStep ==
  ASSUME IInv, NEW c \in Calls, NEW i \in Rows,
         (\E k \in 1..Shares : investInRound(c, i, k)) \/ distributeHarvest(c, i)
  PROVE  IInv'
<1>1. TypeOK /\ i \in Nat /\ rows[i] \in RowType
  BY Domains DEF IInv, TypeOK, Rows
<1>2. ASSUME NEW k \in 1..Shares, investInRound(c, i, k)
      PROVE  IInv'
  <2> PICK call : call = [pc |-> "nfts", row |-> i, round |-> 0, count |-> k,
                          sold |-> rows[i].sold, status |-> "OPEN", pairs |-> {}]
    OBVIOUS
  <2>1. Begin(c, call) /\ UNCHANGED <<rows, nfts, chain, minted, creating, orderly>>
        /\ UNCHANGED events
    <3>1. [Idle EXCEPT !.pc = "nfts", !.row = i, !.count = k, !.sold = rows[i].sold] = call
      <4>1. ASSUME NEW x, x = [Idle EXCEPT !.pc = "nfts", !.row = i, !.count = k, !.sold = rows[i].sold]
            PROVE  x = [pc |-> "nfts", row |-> i, round |-> 0, count |-> k,
                       sold |-> rows[i].sold, status |-> "OPEN", pairs |-> {}]
        BY <4>1 DEF Idle
      <4> QED BY <4>1
    <3> QED BY <1>2, <3>1 DEF investInRound, contract
  <2>2. call \in CallType
    <3>1. k \in Nat /\ rows[i].sold \in Nat
      BY <1>1, BoundAssumption DEF RowType
    <3>2. 0 \in Nat /\ "OPEN" \in Status /\ {} \in SUBSET (Nat \X Nat)
      BY DEF Status
    <3> QED BY <1>1, <3>1, <3>2, CallFacts
  <2>3. Handler(call) /\ call.pc \notin {"link", "shares", "tokens"}
    BY DEF Handler
  <2> QED BY <2>1, <2>2, <2>3, BeginFacts, PlainStep
<1>3. ASSUME distributeHarvest(c, i)
      PROVE  IInv'
  <2> PICK call : call = [pc |-> "distribute", row |-> i, round |-> 0, count |-> 0,
                          sold |-> 0, status |-> "OPEN", pairs |-> {}]
    OBVIOUS
  <2>1. Begin(c, call) /\ UNCHANGED <<rows, nfts, chain, minted, creating, orderly>>
        /\ UNCHANGED events /\ rows[i].status = "ACTIVE"
    <3>1. [Idle EXCEPT !.pc = "distribute", !.row = i] = call
      <4>1. ASSUME NEW x, x = [Idle EXCEPT !.pc = "distribute", !.row = i]
            PROVE  x = [pc |-> "distribute", row |-> i, round |-> 0, count |-> 0,
                       sold |-> 0, status |-> "OPEN", pairs |-> {}]
        BY <4>1 DEF Idle
      <4> QED BY <4>1
    <3> QED BY <1>3, <3>1 DEF distributeHarvest, contract
  <2>2. call \in CallType
    BY <1>1 DEF CallType, Status
  <2>3. Handler(call) /\ call.pc \notin {"link", "shares", "tokens"}
    BY <2>1 DEF Handler
  <2> QED BY <2>1, <2>2, <2>3, BeginFacts, PlainStep
<1> QED BY <1>2, <1>3

LEMMA StatusHeardStep ==
  ASSUME IInv, NEW c \in Calls, CapitalUnlocked(c) \/ HarvestDistributed(c)
  PROVE  IInv'
<1> PICK e : e = Head(events)
  OBVIOUS
<1> PICK status : status = IF e.type = "CapitalUnlocked" THEN "ACTIVE" ELSE "DISTRIBUTING"
  OBVIOUS
<1> PICK call : call = [pc |-> "status", row |-> 0, round |-> e.round, count |-> 0,
                        sold |-> 0, status |-> status, pairs |-> {}]
  OBVIOUS
<1>1. /\ \/ e.type = "CapitalUnlocked" /\ Heard("CapitalUnlocked") /\ status = "ACTIVE"
         \/ /\ e.type = "HarvestDistributed" /\ Heard("HarvestDistributed")
            /\ status = "DISTRIBUTING"
      /\ Begin(c, call) /\ UNCHANGED <<rows, nfts, chain, minted, creating, orderly>>
  <2>1. [Idle EXCEPT !.pc = "status", !.round = e.round, !.status = status] = call
    <3>1. ASSUME NEW x, x = [Idle EXCEPT !.pc = "status", !.round = e.round, !.status = status]
          PROVE  x = [pc |-> "status", row |-> 0, round |-> e.round, count |-> 0,
                     sold |-> 0, status |-> status, pairs |-> {}]
      BY <3>1 DEF Idle
    <3> QED BY <3>1
  <2>2. CASE CapitalUnlocked(c)
    BY <2>1, <2>2 DEF CapitalUnlocked, Heard, contract
  <2>3. CASE HarvestDistributed(c)
    BY <2>1, <2>3 DEF HarvestDistributed, Heard, contract
  <2> QED BY <2>2, <2>3
<1>2. /\ events # <<>> /\ events' = Tail(events) /\ e \in EventType /\ Event(e)
  BY <1>1, HeardFacts
<1>3. call \in CallType
  <2>1. e.round \in Nat /\ status \in Status
    BY <1>1, <1>2 DEF EventType, Status
  <2>2. 0 \in Nat /\ {} \in SUBSET (Nat \X Nat)
    OBVIOUS
  <2> QED BY <2>1, <2>2, CallFacts
<1>4. Happened(status, e.round) /\ status # "OPEN"
  BY <1>1, <1>2 DEF Event
<1>5. Handler(call) /\ call.pc \notin {"link", "shares", "tokens"}
  BY <1>4 DEF Handler
<1> QED BY <1>1, <1>2, <1>3, <1>5, BeginFacts, PlainStep

LEMMA ThrowStep ==
  ASSUME IInv, NEW c \in Calls, throws(c)
  PROVE  IInv'
<1>1. /\ UNCHANGED <<rows, nfts, chain, minted, creating, orderly>> /\ UNCHANGED events
      /\ calls' = [calls EXCEPT ![c] = Idle] /\ calm' \in BOOLEAN
  BY DEF throws, contract
<1>2. Idle \in CallType /\ Handler(Idle) /\ Idle.pc \notin {"link", "shares", "tokens"}
  BY IdleFacts DEF IInv
<1> QED BY <1>1, <1>2, PlainStep

LEMMA Largest ==
  ASSUME NEW n \in Nat, NEW W \in SUBSET (1..n), W # {}
  PROVE  \E i \in W : \A j \in W : j <= i
<1> DEFINE Distances == {d \in Nat : n - d \in W}
<1>1. Distances # {}
  <2>1. PICK i \in W : TRUE
    OBVIOUS
  <2>2. n - i \in Nat /\ n - (n - i) = i
    OBVIOUS
  <2> QED BY <2>1, <2>2
<1>2. Distances \subseteq Nat
  OBVIOUS
<1> HIDE DEF Distances
<1>3. PICK d \in Distances : \A x \in Distances : ~(<<x, d>> \in OpToRel(<, Nat))
  BY <1>1, <1>2, NatLessThanWellFounded, WFMin
<1>4. d \in Nat /\ n - d \in W /\ \A x \in Distances : ~(x < d)
  BY <1>2, <1>3 DEF OpToRel, Distances
<1>5. ASSUME NEW j \in W
      PROVE  j <= n - d
  <2>1. n - j \in Nat /\ n - (n - j) = j
    OBVIOUS
  <2>2. n - j \in Distances
    BY <2>1 DEF Distances
  <2>3. ~(n - j < d)
    BY <1>4, <2>2
  <2> QED BY <1>4, <2>1, <2>3
<1> QED BY <1>4, <1>5

LEMMA PlaceholderFacts ==
  ASSUME TypeOK, NEW crop, Waiting(crop) # {}
  PROVE  /\ Placeholder(crop) \in Waiting(crop)
         /\ \A j \in Waiting(crop) : j <= Placeholder(crop)
<1>1. Len(rows) \in Nat /\ Waiting(crop) \in SUBSET (1..Len(rows))
  BY Domains DEF Waiting, Rows
<1>2. \E i \in Waiting(crop) : \A j \in Waiting(crop) : j <= i
  BY <1>1, Largest
<1> QED BY <1>2 DEF Placeholder

LEMMA RoundCreatedStep ==
  ASSUME IInv, NEW c \in Calls, RoundCreated(c)
  PROVE  IInv'
<1> PICK e : e = Head(events)
  OBVIOUS
<1>1. /\ events # <<>> /\ events' = Tail(events) /\ e \in EventType /\ Event(e)
      /\ e.type = "RoundCreated" /\ e \in Emissions /\ e = events[1] /\ 1 \in 1..Len(events)
      /\ UNCHANGED <<rows, nfts, chain, minted, creating, orderly>>
  BY HeardFacts DEF RoundCreated, contract
<1>2. CASE Waiting(e.crop) = {}
  <2>1. calls[c] = Idle /\ UNCHANGED calls /\ UNCHANGED calm
    BY <1>2 DEF RoundCreated
  <2>2. calls' = [calls EXCEPT ![c] = Idle] /\ calm' \in BOOLEAN
    BY <2>1 DEF IInv, TypeOK
  <2>3. Idle \in CallType /\ Handler(Idle) /\ Idle.pc \notin {"link", "shares", "tokens"}
    BY IdleFacts DEF IInv
  <2> QED BY <1>1, <2>2, <2>3, PlainStep
<1>3. CASE Waiting(e.crop) # {}
  <2> PICK i : i = Placeholder(e.crop)
    OBVIOUS
  <2> PICK call : call = [pc |-> "link", row |-> i, round |-> e.round, count |-> 0,
                          sold |-> 0, status |-> "OPEN", pairs |-> {}]
    OBVIOUS
  <2>1. /\ i \in Rows /\ rows[i].id = 0 /\ rows[i].crop = e.crop
        /\ \A j \in Waiting(e.crop) : j <= i
    <3>1. DOMAIN rows = Rows
      BY Domains DEF IInv
    <3> QED BY <1>3, <3>1, PlaceholderFacts DEF IInv, Waiting
  <2>2. Begin(c, call)
    <3>1. [Idle EXCEPT !.pc = "link", !.round = e.round, !.row = i] = call
      <4>1. ASSUME NEW x, x = [Idle EXCEPT !.pc = "link", !.round = e.round, !.row = i]
            PROVE  x = [pc |-> "link", row |-> i, round |-> e.round, count |-> 0,
                        sold |-> 0, status |-> "OPEN", pairs |-> {}]
        BY <4>1 DEF Idle
      <4> QED BY <4>1
    <3> QED BY <1>3, <3>1 DEF RoundCreated
  <2>3. call \in CallType
    <3>1. e.round \in Nat /\ i \in Nat /\ 0 \in Nat /\ "OPEN" \in Status
          /\ {} \in SUBSET (Nat \X Nat)
      BY <1>1, <2>1 DEF EventType, Rows, Status
    <3> QED BY <3>1, CallFacts
  <2>4. e.round \in Rounds /\ chain[e.round].crop = e.crop
    BY <1>1 DEF Event
  <2>5. Handler(call) /\ call.pc = "link" /\ call.round = e.round /\ call.row = i
    BY <2>1, <2>4 DEF Handler
  <2>6. Announces(1, e.round)
    BY <1>1 DEF Announces
  <2>7. ASSUME orderly
        PROVE  chain[e.round].for = i
    <3> PICK f : f = chain[e.round].for
      OBVIOUS
    <3>1. f # 0
      BY <1>1, <2>1, <2>7 DEF IInv, Expected
    <3>2. f \in Rows /\ rows[f].crop = e.crop
      BY <2>4, <3>1 DEF IInv, Creations
    <3>3. i <= f
      BY <1>1, <2>1, <2>7, <3>2 DEF IInv, Expected, Latest
    <3>4. rows[f].id = 0
      <4> SUFFICES ASSUME rows[f].id # 0 PROVE FALSE
        OBVIOUS
      <4>1. rows[f].id \in Rounds
        BY <3>2, Domains DEF IInv, Numbered, Rounds
      <4>2. chain[rows[f].id].for = f
        BY <2>7, <3>2 DEF IInv, Expected
      <4>3. rows[f].id = e.round
        BY <2>4, <3>1, <4>1, <4>2 DEF IInv, Creations
      <4> QED BY <1>1, <2>4, <2>6, <3>2, <4>3 DEF IInv, Numbered
    <3>5. rows[f].status = "OPEN"
      BY <3>2, <3>4 DEF IInv, Numbered
    <3>6. f \in Waiting(e.crop)
      BY <3>2, <3>4, <3>5, Domains DEF IInv, Waiting
    <3> QED BY <2>1, <3>2, <3>3, <3>6 DEF Rows
  <2>8. call.pc # "shares" /\ call.pc # "tokens"
    BY <2>5
  <2>9. calls' = [calls EXCEPT ![c] = call] /\ calm' \in BOOLEAN
    BY <2>2, BeginFacts
  <2> QED BY <1>1, <2>3, <2>5, <2>6, <2>7, <2>8, <2>9, CallStep
<1> QED BY <1>2, <1>3

LEMMA SharesPurchasedStep ==
  ASSUME IInv, NEW c \in Calls, SharesPurchased(c)
  PROVE  IInv'
<1> PICK e : e = Head(events)
  OBVIOUS
<1>1. /\ events # <<>> /\ events' = Tail(events) /\ e \in EventType /\ Event(e)
      /\ e.type = "SharesPurchased"
      /\ UNCHANGED <<rows, nfts, chain, minted, creating, orderly>>
  BY HeardFacts DEF SharesPurchased, contract
<1>2. CASE Of(e.round) = {}
  <2>1. calls[c] = Idle /\ UNCHANGED calls /\ UNCHANGED calm
    BY <1>2 DEF SharesPurchased
  <2>2. calls' = [calls EXCEPT ![c] = Idle] /\ calm' \in BOOLEAN
    BY <2>1 DEF IInv, TypeOK
  <2>3. Idle \in CallType /\ Handler(Idle) /\ Idle.pc \notin {"link", "shares", "tokens"}
    BY IdleFacts DEF IInv
  <2> QED BY <1>1, <2>2, <2>3, PlainStep
<1>3. CASE Of(e.round) # {}
  <2>1. PICK i \in Of(e.round) :
          Begin(c, [Idle EXCEPT !.pc = "shares", !.row = i, !.round = e.first,
                                !.count = e.last - e.first + 1])
    BY <1>3 DEF SharesPurchased
  <2> PICK k : k = e.last - e.first + 1
    OBVIOUS
  <2> PICK call : call = [pc |-> "shares", row |-> i, round |-> e.first, count |-> k,
                          sold |-> 0, status |-> "OPEN", pairs |-> {}]
    OBVIOUS
  <2>2. Begin(c, call)
    <3>1. [Idle EXCEPT !.pc = "shares", !.row = i, !.round = e.first, !.count = k] = call
      <4>1. ASSUME NEW x, x = [Idle EXCEPT !.pc = "shares", !.row = i, !.round = e.first,
                                           !.count = k]
            PROVE  x = [pc |-> "shares", row |-> i, round |-> e.first, count |-> k,
                        sold |-> 0, status |-> "OPEN", pairs |-> {}]
        BY <4>1 DEF Idle
      <4> QED BY <4>1
    <3> QED BY <2>1, <3>1
  <2>3. i \in Rows /\ rows[i].id = e.round
    BY Domains DEF IInv, Of
  <2>4. /\ e.round \in Rounds /\ e.first # 0 /\ e.first <= e.last
        /\ Sold(e.round, e.first, e.last)
    BY <1>1 DEF Event
  <2>5. e.first \in Nat /\ k \in Nat /\ e.first + k - 1 = e.last
    BY <1>1, <2>4 DEF EventType
  <2>6. call \in CallType
    <3>1. i \in Nat /\ 0 \in Nat /\ "OPEN" \in Status /\ {} \in SUBSET (Nat \X Nat)
      BY <2>3 DEF Rows, Status
    <3> QED BY <2>5, <3>1, CallFacts
  <2>7. Handler(call)
    BY <2>3, <2>4 DEF Handler
  <2>8. call.pc = "shares" /\ call.row = i /\ call.round = e.first /\ call.count = k
    OBVIOUS
  <2>9. /\ Sold(rows[call.row].id, call.round, call.round + call.count - 1)
        /\ rows[call.row].id # 0
    BY <2>3, <2>4, <2>5, <2>8 DEF Rounds
  <2>10. call.pc # "link" /\ call.pc # "tokens"
    BY <2>8
  <2>11. calls' = [calls EXCEPT ![c] = call] /\ calm' \in BOOLEAN
    BY <2>2, BeginFacts
  <2> QED BY <1>1, <2>6, <2>7, <2>9, <2>10, <2>11, CallStep
<1> QED BY <1>2, <1>3

LEMMA RankFacts ==
  ASSUME TypeOK, NEW n, NEW i
  PROVE  Rank(n, i) \in Nat
<1>1. IsFiniteSet(1..Len(nfts))
  BY Domains, FS_Interval
<1>2. {m \in Blank(i) : Before(m, n)} \subseteq 1..Len(nfts)
  BY Domains DEF Blank
<1> QED BY <1>1, <1>2, FS_Subset, FS_CardinalityType DEF Rank

LEMMA FindStep ==
  ASSUME IInv, NEW c \in Calls, findPlaceholders(c)
  PROVE  IInv'
<1> PICK old : old = calls[c]
  OBVIOUS
<1> PICK pairs : pairs = Assigned(old.row, old.round, old.count)
  OBVIOUS
<1>1. /\ old \in CallType /\ Handler(old) /\ old \in Handlers /\ old.pc = "shares"
      /\ UNCHANGED <<rows, nfts, chain, minted, creating, orderly>> /\ UNCHANGED events
      /\ UNCHANGED calm /\ calm' \in BOOLEAN
  BY DEF IInv, TypeOK, Told, Handlers, findPlaceholders, End, contract
<1>2. CASE pairs = {}
  <2>1. calls' = [calls EXCEPT ![c] = Idle]
    BY <1>2 DEF findPlaceholders, End
  <2>2. Idle \in CallType /\ Handler(Idle) /\ Idle.pc \notin {"link", "shares", "tokens"}
    BY IdleFacts DEF IInv
  <2> QED BY <1>1, <2>1, <2>2, PlainStep
<1>3. CASE pairs # {}
  <2> PICK call : call = [pc |-> "tokens", row |-> old.row, round |-> old.round,
                          count |-> old.count, sold |-> old.sold, status |-> old.status,
                          pairs |-> pairs]
    OBVIOUS
  <2>1. old.row \in Nat /\ old.round \in Nat /\ old.count \in Nat /\ old.sold \in Nat
        /\ old.status \in Status /\ old.row \in Rows /\ old.round # 0
    BY <1>1 DEF CallType, Handler
  <2>2. calls' = [calls EXCEPT ![c] = call]
    <3>1. calls' = [calls EXCEPT ![c].pc = "tokens", ![c].pairs = pairs]
      BY <1>3 DEF findPlaceholders
    <3>2. calls' = [calls EXCEPT ![c] = [old EXCEPT !.pc = "tokens", !.pairs = pairs]]
      BY <3>1
    <3>3. ASSUME NEW x, x = [old EXCEPT !.pc = "tokens", !.pairs = pairs]
          PROVE  x = [pc |-> "tokens", row |-> old.row, round |-> old.round,
                      count |-> old.count, sold |-> old.sold, status |-> old.status,
                      pairs |-> pairs]
      BY <1>1, <3>3 DEF CallType
    <3> QED BY <3>2, <3>3
  <2>3. \A p \in pairs : /\ p \in Nat \X Nat
                         /\ p[1] \in 1..Len(nfts) /\ nfts[p[1]].row = old.row
                         /\ p[2] # 0 /\ p[2] \in old.round..(old.round + old.count - 1)
    <3> TAKE p \in pairs
    <3>1. PICK n \in Blank(old.row) : Rank(n, old.row) < old.count
                                     /\ p = <<n, old.round + Rank(n, old.row)>>
      BY DEF Assigned
    <3>2. n \in 1..Len(nfts) /\ nfts[n].row = old.row
      BY Domains DEF IInv, Blank
    <3>3. Rank(n, old.row) \in Nat
      BY RankFacts DEF IInv
    <3>4. PICK t : t = old.round + Rank(n, old.row)
      OBVIOUS
    <3>5. t \in Nat /\ t # 0 /\ t \in old.round..(old.round + old.count - 1)
      BY <2>1, <3>1, <3>3, <3>4
    <3>6. p = <<n, t>>
      BY <3>1, <3>4
    <3> QED BY <3>2, <3>5, <3>6
  <2>4. call \in CallType
    <3>1. pairs \in SUBSET (Nat \X Nat)
      BY <2>3
    <3> QED BY <2>1, <3>1, CallFacts
  <2>5. call.pc = "tokens" /\ call.row = old.row /\ call.pairs = pairs
    OBVIOUS
  <2>6. Handler(call)
    BY <2>1, <2>3, <2>5 DEF Handler
  <2>7. ASSUME orderly
        PROVE  \A p \in call.pairs : p[2] \in 1..Len(minted) /\ minted[p[2]] = rows[call.row].id
    <3>1. Sold(rows[old.row].id, old.round, old.round + old.count - 1)
      BY <1>1, <2>7 DEF IInv, Tokens
    <3> QED BY <2>3, <2>5, <3>1 DEF Sold
  <2>8. call.pc # "link" /\ call.pc # "shares"
    BY <2>5
  <2> QED BY <1>1, <2>2, <2>4, <2>6, <2>7, <2>8, CallStep
<1> QED BY <1>2, <1>3

LEMMA RestartStep ==
  ASSUME IInv, restart
  PROVE  IInv'
<1> USE DEF IInv
<1>1. /\ UNCHANGED rows /\ UNCHANGED nfts /\ UNCHANGED chain /\ UNCHANGED minted
      /\ UNCHANGED creating /\ UNCHANGED orderly /\ calm' \in BOOLEAN
      /\ events' = <<>> /\ calls' = [c \in Calls |-> Idle]
  BY DEF restart, contract
<1>2. Idle \in CallType /\ Idle.pc = "idle" /\ Handler(Idle)
  BY IdleFacts
<1>3. TypeOK'
  BY <1>1, <1>2 DEF TypeOK
<1>4. /\ Rows' = Rows /\ Rounds' = Rounds /\ Emissions' = {} /\ \A x \in Handlers' : x = Idle
      /\ 1..Len(events') = {}
  BY <1>1 DEF Rows, Rounds, Emissions, Handlers
<1>5. Creations'
  BY <1>1, <1>4 DEF Creations
<1>6. Told'
  BY <1>2, <1>4 DEF Told, Handler
<1>7. Numbered'
  <2>1. \A c \in Calls : \A r : ~Links(c, r)'
    BY <1>1, <1>2 DEF Links
  <2> QED BY <1>1, <1>4, <2>1 DEF Numbered
<1>8. ASSUME orderly'
      PROVE  Expected' /\ Tokens'
  <2>1. Expected /\ Tokens
    BY <1>1, <1>8
  <2>2. \A i \in Rows : Latest(i)' <=> Latest(i)
    BY <1>1, <1>4 DEF Latest
  <2>3. \A i \in creating' : Latest(i)'
    BY <1>1, <2>1, <2>2 DEF Expected, TypeOK, Rows
  <2>4. Expected'
    BY <1>1, <1>2, <1>4, <2>1, <2>3 DEF Expected
  <2>5. Tokens'
    BY <1>1, <1>2, <1>4, <2>1 DEF Tokens
  <2> QED BY <2>4, <2>5
<1> QED BY <1>3, <1>5, <1>6, <1>7, <1>8

\* A handler writes to the rows and is done.
LEMMA WroteRows ==
  ASSUME IInv, NEW c \in Calls, calls' = [calls EXCEPT ![c] = Idle],
         UNCHANGED <<nfts, chain, minted, creating, events, orderly, calm>>,
         RowsGrow, Len(rows') = Len(rows)
  PROVE  /\ TypeOK' /\ Creations' /\ Told'
         /\ Rows' = Rows /\ Rounds' = Rounds /\ Emissions' = Emissions
         /\ \A x \in Handlers' : x = Idle \/ x \in Handlers
         /\ \A i \in Rows : Latest(i)' <=> Latest(i)
         /\ \A n \in 1..Len(events) : \A q : Announces(n, q)' <=> Announces(n, q)
         /\ \A d \in Calls : \A q : Links(d, q)' <=> Links(d, q) /\ d # c
<1> USE DEF IInv
<1>1. /\ calls' \in [Calls -> CallType] /\ calls'[c] = Idle
      /\ \A d \in Calls : d # c => calls'[d] = calls[d]
  BY IdleFacts DEF TypeOK
<1>2. TypeOK'
  <2>1. /\ rows' \in Seq(RowType) /\ nfts' \in Seq(NftType) /\ chain' \in Seq(RoundType)
        /\ minted' \in Seq(Nat) /\ creating' \subseteq 1..Len(rows')
        /\ events' \in Seq(EventType) /\ orderly' \in BOOLEAN /\ calm' \in BOOLEAN
    BY DEF TypeOK, RowsGrow
  <2> QED BY <1>1, <2>1 DEF TypeOK
<1>3. Rows' = Rows /\ Rounds' = Rounds /\ Emissions' = Emissions
  BY DEF Rows, Rounds, Emissions
<1>4. \A x \in Handlers' : x = Idle \/ x \in Handlers
  BY <1>1 DEF Handlers
<1>5. Creations'
  BY <1>3 DEF Creations, RowsGrow
<1>6. Told'
  <2>1. ChainGrows /\ MintedGrows /\ NftsGrow
    BY AsBefore
  <2>2. Handler(Idle)'
    BY IdleFacts, <2>1, HandlerStays
  <2> QED BY <1>3, <1>4, <2>1, <2>2, EventsStay, HandlersStay DEF Told
<1>7. \A i \in Rows : Latest(i)' <=> Latest(i)
  BY <1>3 DEF Latest, RowsGrow
<1>8. \A n \in 1..Len(events) : \A q : Announces(n, q)' <=> Announces(n, q)
  BY DEF Announces
<1>9. \A d \in Calls : \A q : Links(d, q)' <=> Links(d, q) /\ d # c
  <2>1. calls'[c].pc # "link"
    BY <1>1, IdleFacts
  <2> QED BY <1>1, <2>1 DEF Links
<1> QED BY <1>2, <1>3, <1>4, <1>5, <1>6, <1>7, <1>8, <1>9

\* It leaves the numbers of the rows alone.
LEMMA ProgressStep ==
  ASSUME IInv, NEW c \in Calls, calls' = [calls EXCEPT ![c] = Idle],
         UNCHANGED <<nfts, chain, minted, creating, events, orderly, calm>>,
         rows' \in Seq(RowType), Len(rows') = Len(rows),
         \A i \in Rows :
           /\ rows'[i].crop = rows[i].crop /\ rows'[i].id = rows[i].id
           /\ \/ rows'[i].status = rows[i].status /\ rows'[i].asked = rows[i].asked
              \/ /\ rows'[i].status # "OPEN" /\ rows[i].id # 0
                 /\ orderly => chain[rows[i].id].status \in Reached(Claimed(rows'[i]))
  PROVE  IInv'
<1> USE DEF IInv
<1>1. RowsGrow
  BY Domains DEF RowsGrow
<1>2. /\ TypeOK' /\ Creations' /\ Told'
      /\ Rows' = Rows /\ Rounds' = Rounds /\ Emissions' = Emissions
      /\ \A x \in Handlers' : x = Idle \/ x \in Handlers
      /\ \A i \in Rows : Latest(i)' <=> Latest(i)
      /\ \A n \in 1..Len(events) : \A q : Announces(n, q)' <=> Announces(n, q)
      /\ \A d \in Calls : \A q : Links(d, q)' <=> Links(d, q) /\ d # c
  BY <1>1, WroteRows
<1>3. Numbered'
  BY <1>2 DEF Numbered
<1>4. ASSUME orderly'
      PROVE  Expected' /\ Tokens'
  <2>1. orderly /\ Expected /\ Tokens
    BY <1>4
  <2>2. \A i \in Rows : rows'[i].id # 0 =>
          chain'[rows'[i].id].for = i /\ chain'[rows'[i].id].status \in Reached(Claimed(rows'[i]))
    BY <2>1 DEF Expected, Claimed
  <2>3. \A i \in creating' : Latest(i)'
    BY <1>2, <2>1 DEF Expected, TypeOK, Rows
  <2>4. \A e \in Emissions' : e.type = "RoundCreated" =>
          /\ chain'[e.round].for = 0 => \A i \in Rows : rows'[i].crop = e.crop => rows'[i].id # 0
          /\ \A i \in Rows : chain'[e.round].for = i => Latest(i)'
    BY <1>2, <2>1 DEF Expected
  <2>5. \A x \in Handlers' : x.pc = "link" => chain'[x.round].for = x.row
    BY <1>2, <2>1, IdleFacts DEF Expected
  <2>6. Expected'
    BY <1>2, <2>2, <2>3, <2>4, <2>5 DEF Expected
  <2>7. \A n \in 1..Len(nfts) : rows'[nfts[n].row].id = rows[nfts[n].row].id
    BY DEF Numbered
  <2>8. \A x \in Handlers : x.pc \in {"shares", "tokens"} => rows'[x.row].id = rows[x.row].id
    BY DEF Told, Handler
  <2>9. Tokens'
    BY <1>2, <2>1, <2>7, <2>8, IdleFacts DEF Tokens, Sold
  <2> QED BY <2>6, <2>9
<1> QED BY <1>2, <1>3, <1>4

LEMMA ProgressSteps ==
  ASSUME IInv, NEW c \in Calls, countShares(c) \/ distributing(c) \/ writeStatus(c)
  PROVE  IInv'
<1> PICK call : call = calls[c]
  OBVIOUS
<1>1. /\ calls' = [calls EXCEPT ![c] = Idle]
      /\ UNCHANGED <<nfts, chain, minted, creating, events, orderly, calm>>
  BY DEF countShares, distributing, writeStatus, End, contract
<1>2. call \in CallType /\ Handler(call) /\ TypeOK
  BY DEF IInv, TypeOK, Told, Handlers
<1>3. \A i \in Rows : rows[i] \in RowType /\ rows[i].status \in Status /\ rows[i].sold \in Nat
  <2>1. \A i \in Rows : rows[i] \in RowType
    BY <1>2 DEF TypeOK, Rows
  <2> QED BY <2>1 DEF RowType
<1>4. DOMAIN rows = Rows /\ rows \in Seq(RowType) /\ Len(rows) \in Nat
  BY <1>2, Domains DEF TypeOK
<1>5. CASE countShares(c)
  <2> PICK i : i = call.row
    OBVIOUS
  <2> PICK row : row = [rows[i] EXCEPT !.sold = rows[i].sold + call.count]
    OBVIOUS
  <2>1. call.pc = "sold" /\ i \in Rows /\ call.count \in Nat
    BY <1>2, <1>5 DEF countShares, Handler, CallType
  <2>2. /\ row \in RowType /\ row.id = rows[i].id /\ row.crop = rows[i].crop
        /\ row.status = rows[i].status /\ row.asked = rows[i].asked
    <3>1. rows[i] \in RowType /\ rows[i].sold + call.count \in Nat
      BY <1>3, <2>1
    <3> QED BY <3>1 DEF RowType
  <2>3. rows' = [rows EXCEPT ![i] = row]
    BY <1>4, <1>5, <2>1 DEF countShares
  <2>4. /\ rows' \in Seq(RowType) /\ Len(rows') = Len(rows)
        /\ \A j \in Rows : rows'[j] = IF j = i THEN row ELSE rows[j]
    BY <1>4, <2>1, <2>2, <2>3, ExceptFacts DEF Rows
  <2> QED BY <1>1, <2>2, <2>4, ProgressStep
<1>6. CASE distributing(c)
  <2> PICK i : i = call.row
    OBVIOUS
  <2> PICK row : row = [rows[i] EXCEPT !.status = "DISTRIBUTING", !.asked = TRUE]
    OBVIOUS
  <2>1. call.pc = "distribute" /\ i \in Rows /\ rows[i].status # "OPEN"
    BY <1>2, <1>6 DEF distributing, Handler
  <2>2. /\ row \in RowType /\ row.id = rows[i].id /\ row.crop = rows[i].crop
        /\ row.status = "DISTRIBUTING" /\ row.asked
    <3>1. rows[i] \in RowType
      BY <1>3, <2>1
    <3> QED BY <3>1 DEF RowType, Status
  <2>3. rows' = [rows EXCEPT ![i] = row]
    BY <1>4, <1>6, <2>1 DEF distributing
  <2>4. /\ rows' \in Seq(RowType) /\ Len(rows') = Len(rows)
        /\ \A j \in Rows : rows'[j] = IF j = i THEN row ELSE rows[j]
    BY <1>4, <2>1, <2>2, <2>3, ExceptFacts DEF Rows
  <2>5. rows[i].id # 0
    BY <2>1 DEF IInv, Numbered
  <2>6. orderly => chain[rows[i].id].status \in Reached(Claimed(row))
    BY <1>3, <2>1, <2>2, <2>5 DEF IInv, Expected, Reached, Claimed, Status
  <2> QED BY <1>1, <2>2, <2>4, <2>5, <2>6, ProgressStep
<1>7. CASE writeStatus(c)
  <2>1. call.pc = "status" /\ call.status \in Status /\ call.status # "OPEN"
        /\ Happened(call.status, call.round)
    BY <1>2, <1>7 DEF writeStatus, Handler, CallType
  <2>2. call.round # 0 /\ chain[call.round].status \in Reached(call.status)
    BY <2>1 DEF Happened, Rounds
  <2>3. rows' = [i \in Rows |-> IF rows[i].id = call.round
                   THEN [rows[i] EXCEPT !.status = call.status, !.asked = FALSE]
                   ELSE rows[i]]
    BY <1>4, <1>7 DEF writeStatus
  <2>4. \A i \in Rows :
          /\ [rows[i] EXCEPT !.status = call.status, !.asked = FALSE] \in RowType
          /\ [rows[i] EXCEPT !.status = call.status, !.asked = FALSE].id = rows[i].id
          /\ [rows[i] EXCEPT !.status = call.status, !.asked = FALSE].crop = rows[i].crop
          /\ [rows[i] EXCEPT !.status = call.status, !.asked = FALSE].status = call.status
          /\ ~[rows[i] EXCEPT !.status = call.status, !.asked = FALSE].asked
    BY <1>3, <2>1 DEF RowType
  <2>5. rows' \in Seq(RowType) /\ Len(rows') = Len(rows)
    <3>1. rows' \in [Rows -> RowType]
      BY <1>3, <2>3, <2>4
    <3> QED BY <1>4, <3>1 DEF Rows
  <2>6. \A i \in Rows :
          /\ rows'[i].crop = rows[i].crop /\ rows'[i].id = rows[i].id
          /\ \/ rows'[i].status = rows[i].status /\ rows'[i].asked = rows[i].asked
             \/ /\ rows'[i].status # "OPEN" /\ rows[i].id # 0
                /\ orderly => chain[rows[i].id].status \in Reached(Claimed(rows'[i]))
    <3> TAKE i \in Rows
    <3>1. CASE rows[i].id = call.round
      BY <2>1, <2>2, <2>3, <2>4, <3>1 DEF Claimed
    <3>2. CASE rows[i].id # call.round
      BY <2>3, <3>2
    <3> QED BY <3>1, <3>2
  <2> QED BY <1>1, <2>5, <2>6, ProgressStep
<1> QED BY <1>5, <1>6, <1>7

LEMMA LinkStep ==
  ASSUME IInv, NEW c \in Calls, link(c)
  PROVE  IInv'
<1> PICK call : call = calls[c]
  OBVIOUS
<1> PICK i : i = call.row
  OBVIOUS
<1> PICK r : r = call.round
  OBVIOUS
<1> PICK row : row = [rows[i] EXCEPT !.id = r]
  OBVIOUS
<1> USE DEF IInv
<1>1. /\ calls' = [calls EXCEPT ![c] = Idle] /\ UNCHANGED nfts /\ UNCHANGED chain
      /\ UNCHANGED <<nfts, chain, minted, creating, events, orderly, calm>>
      /\ call.pc = "link" /\ Links(c, r)
  BY DEF link, End, Links, contract
<1>2. call \in Handlers /\ Handler(call)
  BY DEF Told, Handlers
<1>3. i \in Rows /\ r \in Rounds /\ r # 0 /\ r \in 0..Len(chain) /\ r \in Nat
  BY <1>1, <1>2, Domains DEF Handler, Rounds
<1>4. row \in RowType /\ row.id = r /\ row.crop = rows[i].crop /\ row.status = rows[i].status
      /\ row.asked = rows[i].asked /\ rows[i].status \in Status
  <2>1. rows[i] \in RowType
    BY <1>3 DEF TypeOK, Rows
  <2> QED BY <1>3, <2>1 DEF RowType
<1>5. /\ rows' \in Seq(RowType) /\ Len(rows') = Len(rows)
      /\ \A j \in Rows : rows'[j] = IF j = i THEN row ELSE rows[j]
  <2>1. rows' = [rows EXCEPT ![i] = row]
    BY <1>3, Domains DEF link
  <2> QED BY <1>3, <1>4, <2>1, ExceptFacts DEF TypeOK, Rows
<1>6. RowsGrow
  <2>1. Len(rows) \in Nat
    BY Domains
  <2>2. \A j \in Rows : /\ rows'[j].crop = rows[j].crop
                        /\ rows[j].id # 0 => rows'[j].id # 0
                        /\ rows[j].status # "OPEN" => rows'[j].status # "OPEN"
    BY <1>3, <1>4, <1>5
  <2> QED BY <1>5, <2>1, <2>2 DEF RowsGrow
<1>7. /\ TypeOK' /\ Creations' /\ Told'
      /\ Rows' = Rows /\ Rounds' = Rounds /\ Emissions' = Emissions
      /\ \A x \in Handlers' : x = Idle \/ x \in Handlers
      /\ \A j \in Rows : Latest(j)' <=> Latest(j)
      /\ \A n \in 1..Len(events) : \A q : Announces(n, q)' <=> Announces(n, q)
      /\ \A d \in Calls : \A q : Links(d, q)' <=> Links(d, q) /\ d # c
  BY <1>1, <1>5, <1>6, WroteRows
<1>8. Numbered'
  <2>1. \A j \in Rows : rows'[j].id \in 0..Len(chain')
    BY <1>1, <1>3, <1>4, <1>5 DEF Numbered
  <2>2. \A j \in Rows : rows'[j].status # "OPEN" \/ rows'[j].asked => rows'[j].id # 0
    BY <1>3, <1>4, <1>5 DEF Numbered
  <2>3. ASSUME NEW q \in Rounds
        PROVE  \A j \in Rows : rows'[j].id = q =>
                 /\ \A n \in 1..Len(events) : ~Announces(n, q)'
                 /\ \A d \in Calls : ~Links(d, q)'
    <3>1. CASE q = r
      <4>1. \A n \in 1..Len(events) : ~Announces(n, q)'
        BY <1>1, <1>7, <3>1 DEF Numbered
      <4>2. \A d \in Calls : ~Links(d, q)'
        BY <1>1, <1>7, <3>1 DEF Numbered
      <4> QED BY <4>1, <4>2
    <3>2. CASE q # r
      <4>1. \A j \in Rows : rows'[j].id = q => rows[j].id = q
        BY <1>4, <1>5, <3>2
      <4> QED BY <1>7, <4>1 DEF Numbered
    <3> QED BY <3>1, <3>2
  <2> QED BY <1>1, <1>7, <2>1, <2>2, <2>3 DEF Numbered
<1>9. ASSUME orderly'
      PROVE  Expected' /\ Tokens'
  <2>1. Expected /\ Tokens
    BY <1>1, <1>9
  <2>2. chain[r].for = i
    BY <1>1, <1>2, <2>1 DEF Expected
  <2>3. rows[i].id = 0
    <3> SUFFICES ASSUME rows[i].id # 0 PROVE FALSE
      OBVIOUS
    <3>1. rows[i].id \in Rounds /\ chain[rows[i].id].for = i
      BY <1>3, <2>1, Domains DEF Numbered, Expected, Rounds
    <3>2. i # 0
      BY <1>3 DEF Rows
    <3>3. rows[i].id = r
      BY <1>3, <2>2, <3>1, <3>2 DEF Creations
    <3> QED BY <1>1, <1>3, <3>3 DEF Numbered
  <2>4. Claimed(row) = "OPEN"
    BY <1>3, <1>4, <2>3 DEF Numbered, Claimed
  <2>5. chain[r].status \in Reached("OPEN")
    <3>1. chain[r] \in RoundType
      BY <1>3 DEF TypeOK, Rounds
    <3> QED BY <3>1 DEF RoundType, Status, Reached
  <2>6. \A j \in Rows : rows'[j].id # 0 =>
          chain'[rows'[j].id].for = j /\ chain'[rows'[j].id].status \in Reached(Claimed(rows'[j]))
    <3> TAKE j \in Rows
    <3>1. CASE j = i
      BY <1>1, <1>4, <1>5, <2>2, <2>4, <2>5, <3>1
    <3>2. CASE j # i
      BY <1>1, <1>5, <2>1, <3>2 DEF Expected
    <3> QED BY <3>1, <3>2
  <2>7. \A j \in creating' : Latest(j)'
    BY <1>1, <1>7, <2>1 DEF Expected, TypeOK, Rows
  <2>8. \A e \in Emissions' : e.type = "RoundCreated" =>
          /\ chain'[e.round].for = 0 => \A j \in Rows : rows'[j].crop = e.crop => rows'[j].id # 0
          /\ \A j \in Rows : chain'[e.round].for = j => Latest(j)'
    BY <1>1, <1>6, <1>7, <2>1 DEF Expected, RowsGrow
  <2>9. \A x \in Handlers' : x.pc = "link" => chain'[x.round].for = x.row
    BY <1>1, <1>7, <2>1, IdleFacts DEF Expected
  <2>10. Expected'
    BY <1>7, <2>6, <2>7, <2>8, <2>9 DEF Expected
  <2>11. \A t \in 1..Len(minted) : minted[t] # 0
    BY DEF Creations, Rounds
  <2>12. \A n \in 1..Len(nfts) : nfts[n].token # 0 => nfts[n].row # i /\ nfts[n].row \in Rows
    BY <2>1, <2>3, <2>11 DEF Tokens, Numbered
  <2>13. \A n \in 1..Len(nfts') : nfts'[n].token # 0 =>
           nfts'[n].token \in 1..Len(minted') /\ minted'[nfts'[n].token] = rows'[nfts'[n].row].id
    BY <1>1, <1>5, <2>1, <2>12 DEF Tokens
  <2>14. ASSUME NEW x \in Handlers'
         PROVE  /\ x.pc = "shares" =>
                     Sold(rows[x.row].id, x.round, x.round + x.count - 1)'
                     /\ rows'[x.row].id # 0
                /\ x.pc = "tokens" => \A p \in x.pairs :
                     p[2] \in 1..Len(minted') /\ minted'[p[2]] = rows'[x.row].id
    <3>1. CASE x = Idle
      BY <3>1, IdleFacts
    <3>2. CASE x \in Handlers
      <4>1. x.pc = "shares" => x.row # i /\ x.row \in Rows
        BY <2>1, <2>3, <3>2 DEF Tokens, Told, Handler
      <4>2. x.pc = "shares" => rows'[x.row] = rows[x.row]
        BY <1>5, <4>1
      <4>3. x.pc = "tokens" => \A p \in x.pairs : x.row # i /\ x.row \in Rows
        BY <2>1, <2>3, <2>11, <3>2 DEF Tokens, Told, Handler
      <4>4. x.pc = "tokens" => \A p \in x.pairs : rows'[x.row] = rows[x.row]
        BY <1>5, <4>3
      <4> QED BY <1>1, <2>1, <3>2, <4>2, <4>4 DEF Tokens, Sold
    <3> QED BY <1>7, <3>1, <3>2
  <2>15. Tokens'
    BY <2>13, <2>14 DEF Tokens, Sold
  <2> QED BY <2>10, <2>15
<1> QED BY <1>7, <1>8, <1>9

\* A handler writes to the shares.
LEMMA WroteNfts ==
  ASSUME IInv, NEW c \in Calls, NEW call \in CallType, calls' = [calls EXCEPT ![c] = call],
         UNCHANGED <<rows, chain, minted, creating, events, orderly, calm>>,
         NftsGrow, \A n \in 1..Len(nfts') : nfts'[n].row \in Rows,
         Handler(call)', call.pc \notin {"link", "shares"},
         orderly =>
           /\ \A n \in 1..Len(nfts') : nfts'[n].token # 0 =>
                nfts'[n].token \in 1..Len(minted)
                /\ minted[nfts'[n].token] = rows[nfts'[n].row].id
           /\ call.pc = "tokens" => \A p \in call.pairs :
                p[2] \in 1..Len(minted) /\ minted[p[2]] = rows[call.row].id
  PROVE  IInv'
<1> USE DEF IInv
<1>1. /\ calls' \in [Calls -> CallType] /\ calls'[c] = call
      /\ \A d \in Calls : d # c => calls'[d] = calls[d]
  BY DEF TypeOK
<1>2. TypeOK'
  <2>1. /\ rows' \in Seq(RowType) /\ nfts' \in Seq(NftType) /\ chain' \in Seq(RoundType)
        /\ minted' \in Seq(Nat) /\ creating' \subseteq 1..Len(rows')
        /\ events' \in Seq(EventType) /\ orderly' \in BOOLEAN /\ calm' \in BOOLEAN
    BY DEF TypeOK, NftsGrow
  <2> QED BY <1>1, <2>1 DEF TypeOK
<1>3. Rows' = Rows /\ Rounds' = Rounds /\ Emissions' = Emissions
  BY DEF Rows, Rounds, Emissions
<1>4. \A x \in Handlers' : x = call \/ x \in Handlers
  BY <1>1 DEF Handlers
<1>5. Creations'
  BY <1>3 DEF Creations
<1>6. Told'
  <2>1. RowsGrow /\ ChainGrows /\ MintedGrows
    BY AsBefore
  <2> QED BY <1>3, <1>4, <2>1, EventsStay, HandlersStay DEF Told
<1>7. Numbered'
  <2>1. \A n \in 1..Len(events) : \A q : Announces(n, q)' <=> Announces(n, q)
    BY DEF Announces
  <2>2. call.pc # "link"
    OBVIOUS
  <2>3. \A d \in Calls : \A q : Links(d, q)' => Links(d, q)
    BY <1>1, <2>2 DEF Links
  <2> QED BY <1>3, <2>1, <2>3 DEF Numbered
<1>8. ASSUME orderly'
      PROVE  Expected' /\ Tokens'
  <2>1. orderly /\ Expected /\ Tokens
    BY <1>8
  <2>2. call.pc # "link" /\ call.pc # "shares"
    OBVIOUS
  <2>3. \A i \in Rows : Latest(i)' <=> Latest(i)
    BY <1>3 DEF Latest
  <2>4. \A i \in creating' : Latest(i)'
    BY <2>1, <2>3 DEF Expected, TypeOK, Rows
  <2>5. \A e \in Emissions' : e.type = "RoundCreated" =>
          /\ chain'[e.round].for = 0 => \A i \in Rows : rows'[i].crop = e.crop => rows'[i].id # 0
          /\ \A i \in Rows : chain'[e.round].for = i => Latest(i)'
    BY <1>3, <2>1, <2>3 DEF Expected
  <2>6. \A x \in Handlers' : x.pc = "link" => chain'[x.round].for = x.row
    BY <1>4, <2>1, <2>2 DEF Expected
  <2>7. Expected'
    BY <1>3, <2>1, <2>4, <2>5, <2>6 DEF Expected
  <2>8. Tokens'
    BY <1>4, <2>1, <2>2 DEF Tokens, Sold
  <2> QED BY <2>7, <2>8
<1> QED BY <1>2, <1>5, <1>6, <1>7, <1>8

LEMMA CreateNftsStep ==
  ASSUME IInv, NEW c \in Calls, createNfts(c)
  PROVE  IInv'
<1> PICK old : old = calls[c]
  OBVIOUS
<1> PICK call : call = [old EXCEPT !.pc = "sold"]
  OBVIOUS
<1> PICK k : k = old.count
  OBVIOUS
<1> PICK new : new = [j \in 1..k |-> [row |-> old.row, index |-> old.sold + j - 1, token |-> 0]]
  OBVIOUS
<1>1. /\ old \in CallType /\ Handler(old) /\ old.pc = "nfts" /\ TypeOK
      /\ nfts' = nfts \o new /\ calls' = [calls EXCEPT ![c] = call]
      /\ UNCHANGED <<rows, chain, minted, creating, events, orderly, calm>>
  <2>1. calls' = [calls EXCEPT ![c] = call]
    BY DEF createNfts
  <2> QED BY <2>1 DEF IInv, TypeOK, Told, Handlers, createNfts, contract
<1>2. old.row \in Rows /\ old.row \in Nat /\ k \in Nat /\ old.sold \in Nat
  BY <1>1 DEF Handler, CallType
<1>3. call \in CallType /\ call.pc = "sold" /\ call.row = old.row
  BY <1>1 DEF CallType
<1>4. new \in [1..k -> NftType]
  <2>1. \A j \in 1..k : old.sold + j - 1 \in Nat
    BY <1>2
  <2> QED BY <1>2, <2>1 DEF NftType
<1>5. \A j \in 1..k : new[j].row = old.row /\ new[j].token = 0
  OBVIOUS
<1>6. /\ nfts' \in Seq(NftType) /\ Len(nfts') = Len(nfts) + k /\ Len(nfts) \in Nat
      /\ \A n \in 1..Len(nfts) : nfts'[n] = nfts[n]
      /\ \A j \in 1..k : nfts'[Len(nfts) + j] = new[j]
  <2>1. nfts \in Seq(NftType) /\ Len(nfts) \in Nat
    BY <1>1, Domains DEF TypeOK
  <2>2. /\ nfts \o new \in Seq(NftType) /\ Len(nfts \o new) = Len(nfts) + k
        /\ \A n \in 1..Len(nfts) : (nfts \o new)[n] = nfts[n]
        /\ \A j \in 1..k : (nfts \o new)[Len(nfts) + j] = new[j]
    BY <1>2, <1>4, <2>1, ConcatFacts
  <2> QED BY <1>1, <2>1, <2>2
<1>7. NftsGrow
  BY <1>2, <1>6 DEF NftsGrow
<1>8. \A n \in 1..Len(nfts') :
        \/ n \in 1..Len(nfts) /\ nfts'[n] = nfts[n]
        \/ nfts'[n].row = old.row /\ nfts'[n].token = 0
  <2> TAKE n \in 1..Len(nfts')
  <2>1. CASE n \in 1..Len(nfts)
    BY <1>6, <2>1
  <2>2. CASE n \notin 1..Len(nfts)
    <3>1. n - Len(nfts) \in 1..k /\ Len(nfts) + (n - Len(nfts)) = n
      BY <1>2, <1>6, <2>2
    <3>2. PICK j \in 1..k : Len(nfts) + j = n
      BY <3>1
    <3>3. nfts'[n] = new[j]
      BY <1>6, <3>2
    <3> QED BY <1>5, <3>3
  <2> QED BY <2>1, <2>2
<1>9. \A n \in 1..Len(nfts') : nfts'[n].row \in Rows
  BY <1>2, <1>8 DEF IInv, Numbered
<1>10. Handler(call)'
  BY <1>1, <1>2, <1>3 DEF Handler, Rows
<1>11. orderly => \A n \in 1..Len(nfts') : nfts'[n].token # 0 =>
         nfts'[n].token \in 1..Len(minted) /\ minted[nfts'[n].token] = rows[nfts'[n].row].id
  BY <1>8 DEF IInv, Tokens
<1>12. call.pc \notin {"link", "shares"} /\ call.pc # "tokens"
  BY <1>3
<1> QED BY <1>1, <1>3, <1>7, <1>9, <1>10, <1>11, <1>12, WroteNfts

LEMMA AssignStep ==
  ASSUME IInv, NEW c \in Calls, assignToken(c)
  PROVE  IInv'
<1> PICK old : old = calls[c]
  OBVIOUS
<1>1. /\ old \in CallType /\ Handler(old) /\ old \in Handlers /\ old.pc = "tokens" /\ TypeOK
      /\ UNCHANGED <<rows, chain, minted, creating, events, orderly, calm>>
  BY DEF IInv, TypeOK, Told, Handlers, assignToken, End, contract
<1>2. PICK p \in old.pairs :
        /\ nfts' = [nfts EXCEPT ![p[1]].token = p[2]]
        /\ IF old.pairs = {p} THEN calls' = [calls EXCEPT ![c] = Idle]
           ELSE calls' = [calls EXCEPT ![c].pairs = @ \ {p}]
  BY DEF assignToken, End
<1>3. /\ p[1] \in 1..Len(nfts) /\ nfts[p[1]].row = old.row /\ p[2] \in Nat /\ p[2] # 0
      /\ old.row \in Rows
  BY <1>1 DEF Handler, CallType
<1>4. PICK nft : nft = [nfts[p[1]] EXCEPT !.token = p[2]]
  OBVIOUS
<1>5. nft \in NftType /\ nft.row = old.row /\ nft.token = p[2]
  <2>1. nfts[p[1]] \in NftType
    BY <1>1, <1>3 DEF TypeOK
  <2> QED BY <1>3, <1>4, <2>1 DEF NftType
<1>6. /\ nfts' \in Seq(NftType) /\ Len(nfts') = Len(nfts) /\ Len(nfts) \in Nat
      /\ \A n \in 1..Len(nfts) : nfts'[n] = IF n = p[1] THEN nft ELSE nfts[n]
  <2>1. nfts' = [nfts EXCEPT ![p[1]] = nft]
    BY <1>1, <1>2, <1>3, <1>4, Domains
  <2> QED BY <1>1, <1>3, <1>5, <2>1, ExceptFacts, Domains DEF TypeOK
<1>7. NftsGrow
  BY <1>3, <1>5, <1>6 DEF NftsGrow
<1>8. \A n \in 1..Len(nfts') : nfts'[n].row \in Rows
  BY <1>3, <1>5, <1>6 DEF IInv, Numbered
<1>9. orderly => \A n \in 1..Len(nfts') : nfts'[n].token # 0 =>
        nfts'[n].token \in 1..Len(minted) /\ minted[nfts'[n].token] = rows[nfts'[n].row].id
  <2>1. orderly => p[2] \in 1..Len(minted) /\ minted[p[2]] = rows[old.row].id
    BY <1>1 DEF IInv, Tokens
  <2> QED BY <1>3, <1>5, <1>6, <2>1 DEF IInv, Tokens
<1>10. CASE old.pairs = {p}
  <2>1. calls' = [calls EXCEPT ![c] = Idle]
    BY <1>2, <1>10
  <2>2. Idle \in CallType /\ Idle.pc = "idle"
    BY IdleFacts
  <2>3. Handler(Idle)'
    BY <2>2 DEF Handler
  <2>4. Idle.pc \notin {"link", "shares"} /\ Idle.pc # "tokens"
    BY <2>2
  <2> QED BY <1>1, <1>7, <1>8, <1>9, <2>1, <2>2, <2>3, <2>4, WroteNfts
<1>11. CASE old.pairs # {p}
  <2> PICK call : call = [old EXCEPT !.pairs = old.pairs \ {p}]
    OBVIOUS
  <2>1. calls' = [calls EXCEPT ![c] = call]
    BY <1>2, <1>11
  <2>2. /\ call \in CallType /\ call.pc = "tokens" /\ call.row = old.row
        /\ call.pairs = old.pairs \ {p}
    BY <1>1 DEF CallType
  <2>3. Handler(call)'
    <3>1. \A q \in old.pairs : q[1] \in 1..Len(nfts) /\ nfts[q[1]].row = old.row /\ q[2] # 0
      BY <1>1 DEF Handler
    <3>2. \A q \in old.pairs : q[1] \in 1..Len(nfts') /\ nfts'[q[1]].row = old.row
      BY <1>3, <1>5, <1>6, <3>1
    <3> QED BY <1>1, <1>3, <2>2, <3>1, <3>2 DEF Handler, Rows
  <2>4. orderly => \A q \in call.pairs :
          q[2] \in 1..Len(minted) /\ minted[q[2]] = rows[call.row].id
    BY <1>1, <2>2 DEF IInv, Tokens
  <2>5. call.pc \notin {"link", "shares"}
    BY <2>2
  <2> QED BY <1>1, <1>7, <1>8, <1>9, <2>1, <2>2, <2>3, <2>4, <2>5, WroteNfts
<1> QED BY <1>10, <1>11

-----------------------------------------------------------------------------
(* The theorem.                                                            *)
LEMMA Start == Init => IInv
<1> SUFFICES ASSUME Init PROVE IInv
  OBVIOUS
<1>1. /\ rows = <<>> /\ nfts = <<>> /\ chain = <<>> /\ minted = <<>> /\ creating = {}
      /\ events = <<>> /\ calls = [c \in Calls |-> Idle] /\ orderly = TRUE /\ calm = TRUE
  BY DEF Init
<1>2. Idle \in CallType /\ Idle.pc = "idle"
  BY IdleFacts
<1>3. TypeOK
  BY <1>1, <1>2 DEF TypeOK
<1>4. /\ Rows = {} /\ Rounds = {} /\ Emissions = {} /\ \A x \in Handlers : x = Idle
      /\ 1..Len(nfts) = {} /\ 1..Len(minted) = {} /\ 1..Len(events) = {}
  BY <1>1 DEF Rows, Rounds, Emissions, Handlers
<1>5. Creations
  BY <1>1, <1>4 DEF Creations
<1>6. Told
  BY <1>2, <1>4 DEF Told, Handler
<1>7. Numbered
  BY <1>4 DEF Numbered
<1>8. Expected /\ Tokens
  BY <1>1, <1>2, <1>4 DEF Expected, Tokens
<1> QED BY <1>3, <1>5, <1>6, <1>7, <1>8 DEF IInv

LEMMA Step ==
  ASSUME IInv, [Next]_vars
  PROVE  IInv'
<1>1. DOMAIN rows = Rows /\ DOMAIN chain = Rounds
  BY Domains DEF IInv
<1>2. ASSUME NEW i \in creating, mineCreateRound(i) \/ createRoundFails(i)
      PROVE  IInv'
  <2>1. CASE mineCreateRound(i)
    BY <2>1, ContractStep
  <2>2. CASE createRoundFails(i)
    BY <2>2, LessUnderWay DEF createRoundFails, contract
  <2> QED BY <1>2, <2>1, <2>2
<1>3. ASSUME NEW crop \in Crops, createRoundOutside(crop) \/ createRound(crop)
      PROVE  IInv'
  BY <1>3, ContractStep, CreateStep
<1>4. ASSUME NEW r \in Rounds,
             (\E k \in 1..Shares : invest(r, k)) \/ unlockCapital(r) \/ distributeOnChain(r)
      PROVE  IInv'
  BY <1>4, InvestStep, StatusStep
<1>5. ASSUME NEW c \in Calls, NEW i \in Rows,
             (\E k \in 1..Shares : investInRound(c, i, k)) \/ distributeHarvest(c, i)
      PROVE  IInv'
  BY <1>5, RequestStep
<1>6. ASSUME NEW c \in Calls,
             \/ createNfts(c) \/ countShares(c) \/ distributing(c)
             \/ RoundCreated(c) \/ link(c)
             \/ SharesPurchased(c) \/ findPlaceholders(c) \/ assignToken(c)
             \/ CapitalUnlocked(c) \/ HarvestDistributed(c) \/ writeStatus(c)
             \/ throws(c)
      PROVE  IInv'
  BY <1>6, CreateNftsStep, ProgressSteps, RoundCreatedStep, LinkStep, SharesPurchasedStep,
     FindStep, AssignStep, StatusHeardStep, ThrowStep
<1>7. CASE restart
  BY <1>7, RestartStep
<1>8. CASE UNCHANGED vars
  BY <1>8, LessUnderWay DEF vars
<1> QED BY <1>1, <1>2, <1>3, <1>4, <1>5, <1>6, <1>7, <1>8 DEF Next

LEMMA Follows == IInv => RowIsItsRound
<1> SUFFICES ASSUME IInv, orderly, NEW i \in DOMAIN rows, rows[i].id # 0
             PROVE  /\ chain[rows[i].id].for = i
                    /\ chain[rows[i].id].status \in Reached(Claimed(rows[i]))
                    /\ \A n \in DOMAIN nfts : nfts[n].row = i /\ nfts[n].token # 0 =>
                         minted[nfts[n].token] = rows[i].id
  BY DEF RowIsItsRound
<1>1. i \in Rows /\ DOMAIN nfts = 1..Len(nfts)
  BY Domains DEF IInv
<1> QED BY <1>1 DEF IInv, Expected, Tokens

\* As long as the rounds of a crop are created one after another, a row has the
\* number of the round that was created for it and of no other, is not ahead of
\* the contract, and its shares name tokens of that round, in whichever order
\* the effects of requests and events are written and whatever is lost.  The
\* exception is the DISTRIBUTING that distributeHarvest writes: of such a row
\* the theorem says that the round is ACTIVE at least.
THEOREM RowFollowsRound == Spec => []RowIsItsRound
<1>1. Spec => []IInv
  BY Start, Step, PTL DEF Spec
<1> QED BY <1>1, Follows, PTL

-----------------------------------------------------------------------------
(* What is so as long as handlers do not overlap: the shares of a row.     *)
Own(i) == {n \in 1..Len(nfts) : nfts[n].row = i}
\* The row i has k shares, with the numbers from 0.
Filled(i, k) ==
  /\ \A n \in Own(i) : nfts[n].index \in 0..(k - 1)
  /\ \A n, m \in Own(i) : nfts[n].index = nfts[m].index => n = m
  /\ \A x \in 0..(k - 1) : \E n \in Own(i) : nfts[n].index = x
  /\ k <= Shares
Alone == \A c, d \in Calls : calls[c] # Idle /\ calls[d] # Idle => c = d
Counts ==
  /\ \A i \in Rows : (\A call \in Handlers : call.pc = "sold" => call.row # i) =>
       Filled(i, rows[i].sold)
  /\ \A call \in Handlers : call.pc = "sold" =>
       Filled(call.row, rows[call.row].sold + call.count)
  /\ \A call \in Handlers : call.pc = "nfts" =>
       call.sold = rows[call.row].sold /\ call.sold + call.count <= Shares
CalmInv == calm => Alone /\ Counts

\* Between two handlers there is none.
LEMMA AloneStep ==
  ASSUME IInv, NEW c \in Calls, NEW call, calls' = [calls EXCEPT ![c] = call],
         Alone, Quiet \/ calls[c] # Idle
  PROVE  Alone'
<1>1. \A d \in Calls : d # c => calls'[d] = calls[d]
  BY DEF IInv, TypeOK
<1>2. \A d \in Calls : d # c => calls'[d] = Idle
  BY <1>1 DEF Alone, Quiet
<1> QED BY <1>2 DEF Alone

\* Steps that have nothing to do with how many shares there are.
KeepsShares ==
  /\ rows' \in Seq(RowType) /\ Len(rows) <= Len(rows')
  /\ \A i \in Rows : rows'[i].sold = rows[i].sold
  /\ \A i \in 1..Len(rows') : i \notin Rows => rows'[i].sold = 0
  /\ Len(nfts') = Len(nfts)
  /\ \A n \in 1..Len(nfts) : nfts'[n].row = nfts[n].row /\ nfts'[n].index = nfts[n].index

LEMMA FilledStays ==
  ASSUME IInv, KeepsShares, NEW i, NEW k, Filled(i, k)
  PROVE  Filled(i, k)'
<1>1. Own(i)' = Own(i) /\ \A n \in Own(i) : nfts'[n].index = nfts[n].index
  BY DEF KeepsShares, Own
<1> QED BY <1>1 DEF Filled

LEMMA CountsStay ==
  ASSUME IInv, KeepsShares, Counts,
         \A x \in Handlers' : x.pc \in {"nfts", "sold"} => x \in Handlers,
         \A x \in Handlers : x.pc = "sold" => x \in Handlers'
  PROVE  Counts'
<1>1. Len(rows) \in Nat /\ Len(rows') \in Nat
  BY Domains DEF IInv, KeepsShares
<1>2. ASSUME NEW i \in Rows', \A call \in Handlers' : call.pc = "sold" => call.row # i
      PROVE  Filled(i, rows[i].sold)'
  <2>1. CASE i \in Rows
    <3> PICK k : k = rows[i].sold
      OBVIOUS
    <3>1. Filled(i, k)
      BY <1>2, <2>1 DEF Counts
    <3>2. Filled(i, k)'
      BY <3>1, FilledStays
    <3>3. rows'[i].sold = k
      BY <2>1 DEF KeepsShares
    <3> QED BY <3>2, <3>3 DEF Filled
  <2>2. CASE i \notin Rows
    <3>1. rows'[i].sold = 0
      BY <1>2, <2>2 DEF KeepsShares, Rows
    <3>2. \A n \in 1..Len(nfts') : nfts'[n].row \in Rows
      BY DEF IInv, Numbered, KeepsShares
    <3>3. Own(i)' = {}
      BY <2>2, <3>2 DEF Own
    <3>4. 0..(0 - 1) = {} /\ 0 <= Shares
      BY BoundAssumption
    <3> QED BY <3>1, <3>3, <3>4 DEF Filled
  <2> QED BY <2>1, <2>2
<1>3. ASSUME NEW call \in Handlers', call.pc = "sold"
      PROVE  Filled(call.row, rows[call.row].sold + call.count)'
  <2> PICK k : k = rows[call.row].sold + call.count
    OBVIOUS
  <2>1. call \in Handlers
    BY <1>3
  <2>2. call.row \in Rows /\ rows'[call.row].sold = rows[call.row].sold
    BY <1>3, <2>1 DEF IInv, Told, Handler, KeepsShares
  <2>3. Filled(call.row, k)
    BY <1>3, <2>1 DEF Counts
  <2>4. Filled(call.row, k)'
    BY <2>3, FilledStays
  <2> QED BY <2>2, <2>4 DEF Filled
<1>4. ASSUME NEW call \in Handlers', call.pc = "nfts"
      PROVE  call.sold = rows'[call.row].sold /\ call.sold + call.count <= Shares
  <2>1. call \in Handlers
    BY <1>4
  <2>2. call.row \in Rows /\ rows'[call.row].sold = rows[call.row].sold
    BY <1>4, <2>1 DEF IInv, Told, Handler, KeepsShares
  <2> QED BY <1>4, <2>1, <2>2 DEF Counts
<1> QED BY <1>2, <1>3, <1>4 DEF Counts

LEMMA ApartStep ==
  ASSUME IInv, CalmInv, KeepsShares, calm' => calm,
         \/ UNCHANGED calls
         \/ \E c \in Calls : \E call :
              /\ calls' = [calls EXCEPT ![c] = call]
              /\ calls[c].pc \notin {"nfts", "sold"} /\ call.pc \notin {"nfts", "sold"}
              /\ calm' => Quiet \/ calls[c] # Idle
  PROVE  CalmInv'
<1> SUFFICES ASSUME calm' PROVE Alone' /\ Counts'
  BY DEF CalmInv
<1>1. Alone /\ Counts
  BY DEF CalmInv
<1>2. CASE UNCHANGED calls
  <2>1. Handlers' = Handlers /\ Alone'
    BY <1>1, <1>2 DEF Handlers, Alone
  <2> QED BY <1>1, <2>1, CountsStay
<1>3. ASSUME NEW c \in Calls, NEW call, calls' = [calls EXCEPT ![c] = call],
             calls[c].pc \notin {"nfts", "sold"}, call.pc \notin {"nfts", "sold"},
             Quiet \/ calls[c] # Idle
      PROVE  Alone' /\ Counts'
  <2>1. calls'[c] = call /\ \A d \in Calls : d # c => calls'[d] = calls[d]
    BY <1>3 DEF IInv, TypeOK
  <2>2. \A x \in Handlers' : x.pc \in {"nfts", "sold"} => x \in Handlers
    BY <1>3, <2>1 DEF Handlers
  <2>3. \A x \in Handlers : x.pc = "sold" => x \in Handlers'
    BY <1>3, <2>1 DEF Handlers
  <2>4. Alone'
    BY <1>1, <1>3, AloneStep
  <2> QED BY <1>1, <2>2, <2>3, <2>4, CountsStay
<1> QED BY <1>2, <1>3

LEMMA RowsAndNftsAsBefore ==
  ASSUME IInv, UNCHANGED <<rows, nfts>>
  PROVE  KeepsShares
<1>1. UNCHANGED rows /\ UNCHANGED nfts /\ Len(rows) \in Nat /\ rows \in Seq(RowType)
  BY Domains DEF IInv, TypeOK
<1> QED BY <1>1 DEF KeepsShares, Rows

\* The contract, and the rounds that are asked for.
LEMMA ApartFromCalls ==
  ASSUME IInv, CalmInv,
         \/ \E i \in creating : mineCreateRound(i) \/ createRoundFails(i)
         \/ \E crop \in Crops : createRoundOutside(crop) \/ createRound(crop)
         \/ \E r \in Rounds :
              (\E k \in 1..Shares : invest(r, k)) \/ unlockCapital(r) \/ distributeOnChain(r)
  PROVE  CalmInv'
<1>1. UNCHANGED calls /\ UNCHANGED calm
  BY DEF mineCreateRound, createRoundFails, createRoundOutside, createRound, invest,
         unlockCapital, distributeOnChain
<1>2. CASE UNCHANGED <<rows, nfts>>
  BY <1>1, <1>2, RowsAndNftsAsBefore, ApartStep
<1>3. ASSUME NEW crop \in Crops, createRound(crop)
      PROVE  KeepsShares
  <2> PICK row : row = [id |-> 0, crop |-> crop, sold |-> 0, status |-> "OPEN",
                   asked |-> FALSE]
    OBVIOUS
  <2>1. row \in RowType /\ row.sold = 0
    BY DEF RowType, Status
  <2>2. rows' = Append(rows, row) /\ UNCHANGED nfts
    BY <1>3 DEF createRound
  <2>3. Len(rows) \in Nat /\ rows \in Seq(RowType)
    BY Domains DEF IInv, TypeOK
  <2>4. /\ rows' \in Seq(RowType) /\ Len(rows') = Len(rows) + 1
        /\ \A n \in Rows : rows'[n] = rows[n]
        /\ rows'[Len(rows) + 1] = row
    BY <2>1, <2>2, <2>3, AppendFacts DEF Rows
  <2>5. \A n \in 1..Len(rows') : n \notin Rows => n = Len(rows) + 1
    BY <2>3, <2>4 DEF Rows
  <2>6. \A n \in Rows : rows'[n].sold = rows[n].sold
    BY <2>4
  <2>7. \A n \in 1..Len(rows') : n \notin Rows => rows'[n].sold = 0
    BY <2>1, <2>4, <2>5
  <2>8. Len(rows) <= Len(rows')
    BY <2>3, <2>4
  <2> QED BY <2>2, <2>4, <2>6, <2>7, <2>8 DEF KeepsShares
<1>4. (\E crop \in Crops : createRound(crop)) \/ UNCHANGED <<rows, nfts>>
  BY DEF mineCreateRound, createRoundFails, createRoundOutside, invest,
         unlockCapital, distributeOnChain
<1> QED BY <1>1, <1>2, <1>3, <1>4, ApartStep

\* What begins without shares.
LEMMA ApartBegins ==
  ASSUME IInv, CalmInv, NEW c \in Calls,
         \/ \E i \in Rows : distributeHarvest(c, i)
         \/ RoundCreated(c) \/ SharesPurchased(c) \/ CapitalUnlocked(c) \/ HarvestDistributed(c)
  PROVE  CalmInv'
<1>1. UNCHANGED <<rows, nfts>>
  BY DEF distributeHarvest, RoundCreated, SharesPurchased, CapitalUnlocked, HarvestDistributed
<1>2. ASSUME NEW call, Begin(c, call), call.pc \notin {"nfts", "sold"}
      PROVE  CalmInv'
  <2>1. /\ calls[c] = Idle /\ calls' = [calls EXCEPT ![c] = call]
        /\ calm' => calm /\ Quiet
    BY <1>2 DEF Begin
  <2>2. calls[c].pc \notin {"nfts", "sold"}
    BY <2>1, IdleFacts
  <2> QED BY <1>1, <1>2, <2>1, <2>2, RowsAndNftsAsBefore, ApartStep
<1>3. CASE UNCHANGED calls /\ UNCHANGED calm
  BY <1>1, <1>3, RowsAndNftsAsBefore, ApartStep
<1>4. ASSUME NEW i, Begin(c, [Idle EXCEPT !.pc = "distribute", !.row = i])
      PROVE  CalmInv'
  <2>1. [Idle EXCEPT !.pc = "distribute", !.row = i].pc \notin {"nfts", "sold"}
    BY DEF Idle
  <2> QED BY <1>2, <1>4, <2>1
<1>5. ASSUME NEW i, NEW r, Begin(c, [Idle EXCEPT !.pc = "link", !.round = r, !.row = i])
      PROVE  CalmInv'
  <2>1. [Idle EXCEPT !.pc = "link", !.round = r, !.row = i].pc \notin {"nfts", "sold"}
    BY DEF Idle
  <2> QED BY <1>2, <1>5, <2>1
<1>6. ASSUME NEW i, NEW r, NEW k,
             Begin(c, [Idle EXCEPT !.pc = "shares", !.row = i, !.round = r, !.count = k])
      PROVE  CalmInv'
  <2>1. [Idle EXCEPT !.pc = "shares", !.row = i, !.round = r, !.count = k].pc
          \notin {"nfts", "sold"}
    BY DEF Idle
  <2> QED BY <1>2, <1>6, <2>1
<1>7. ASSUME NEW r, NEW status,
             Begin(c, [Idle EXCEPT !.pc = "status", !.round = r, !.status = status])
      PROVE  CalmInv'
  <2>1. [Idle EXCEPT !.pc = "status", !.round = r, !.status = status].pc \notin {"nfts", "sold"}
    BY DEF Idle
  <2> QED BY <1>2, <1>7, <2>1
<1>8. CASE \E i \in Rows : distributeHarvest(c, i)
  BY <1>4, <1>8 DEF distributeHarvest
<1>9. CASE RoundCreated(c)
  BY <1>3, <1>5, <1>9 DEF RoundCreated
<1>10. CASE SharesPurchased(c)
  BY <1>3, <1>6, <1>10 DEF SharesPurchased
<1>11. CASE CapitalUnlocked(c)
  BY <1>7, <1>11 DEF CapitalUnlocked
<1>12. CASE HarvestDistributed(c)
  BY <1>7, <1>12 DEF HarvestDistributed
<1> QED BY <1>8, <1>9, <1>10, <1>11, <1>12

\* What goes on, or ends, without shares.
LEMMA ApartGoesOn ==
  ASSUME IInv, CalmInv, NEW c \in Calls,
         distributing(c) \/ link(c) \/ findPlaceholders(c) \/ assignToken(c) \/ writeStatus(c)
  PROVE  CalmInv'
<1> PICK old : old = calls[c]
  OBVIOUS
<1>1. /\ old \in CallType /\ Handler(old) /\ TypeOK /\ Len(rows) \in Nat
      /\ DOMAIN rows = Rows /\ UNCHANGED calm
      /\ old.pc \in {"distribute", "link", "shares", "tokens", "status"}
  <2>1. old \in CallType /\ Handler(old) /\ TypeOK
    BY DEF IInv, TypeOK, Told, Handlers
  <2>2. old.pc \in {"distribute", "link", "shares", "tokens", "status"}
    BY DEF distributing, link, findPlaceholders, assignToken, writeStatus
  <2>3. UNCHANGED calm
    BY DEF distributing, link, findPlaceholders, assignToken, writeStatus, End
  <2> QED BY <2>1, <2>2, <2>3, Domains
<1>2. calls[c] # Idle /\ calls[c].pc \notin {"nfts", "sold"} /\ Idle.pc \notin {"nfts", "sold"}
  BY <1>1, IdleFacts
<1>3. ASSUME KeepsShares, calls' = [calls EXCEPT ![c] = Idle]
      PROVE  CalmInv'
  BY <1>1, <1>2, <1>3, ApartStep
<1>4. ASSUME NEW row, NEW i \in Rows, row \in RowType, row.sold = rows[i].sold,
             rows' = [rows EXCEPT ![i] = row], UNCHANGED nfts
      PROVE  KeepsShares
  <2>1. /\ rows' \in Seq(RowType) /\ Len(rows') = Len(rows)
        /\ \A n \in Rows : rows'[n] = IF n = i THEN row ELSE rows[n]
    BY <1>1, <1>4, ExceptFacts DEF TypeOK, Rows
  <2> QED BY <1>1, <1>4, <2>1 DEF KeepsShares, Rows
<1>5. \A i \in Rows : rows[i] \in RowType
  BY <1>1 DEF TypeOK, Rows
<1>6. CASE distributing(c)
  <2>1. old.row \in Rows /\ UNCHANGED nfts /\ calls' = [calls EXCEPT ![c] = Idle]
    BY <1>1, <1>6 DEF distributing, End, Handler
  <2> PICK row : row = [rows[old.row] EXCEPT !.status = "DISTRIBUTING", !.asked = TRUE]
    OBVIOUS
  <2>2. row \in RowType /\ row.sold = rows[old.row].sold
    BY <1>5, <2>1 DEF RowType, Status
  <2>3. rows' = [rows EXCEPT ![old.row] = row]
    BY <1>1, <1>6, <2>1 DEF distributing
  <2> QED BY <1>3, <1>4, <2>1, <2>2, <2>3
<1>7. CASE link(c)
  <2>1. old.row \in Rows /\ old.round \in Nat /\ UNCHANGED nfts
        /\ calls' = [calls EXCEPT ![c] = Idle]
    BY <1>1, <1>7 DEF link, End, Handler, CallType
  <2> PICK row : row = [rows[old.row] EXCEPT !.id = old.round]
    OBVIOUS
  <2>2. row \in RowType /\ row.sold = rows[old.row].sold
    BY <1>5, <2>1 DEF RowType
  <2>3. rows' = [rows EXCEPT ![old.row] = row]
    BY <1>1, <1>7, <2>1 DEF link
  <2> QED BY <1>3, <1>4, <2>1, <2>2, <2>3
<1>8. CASE writeStatus(c)
  <2>1. old.status \in Status /\ UNCHANGED nfts /\ calls' = [calls EXCEPT ![c] = Idle]
    BY <1>1, <1>8 DEF writeStatus, End, CallType
  <2>2. rows' = [i \in Rows |-> IF rows[i].id = old.round
                   THEN [rows[i] EXCEPT !.status = old.status, !.asked = FALSE]
                   ELSE rows[i]]
    BY <1>1, <1>8 DEF writeStatus
  <2>3. \A i \in Rows :
          /\ [rows[i] EXCEPT !.status = old.status, !.asked = FALSE] \in RowType
          /\ [rows[i] EXCEPT !.status = old.status, !.asked = FALSE].sold = rows[i].sold
    BY <1>5, <2>1 DEF RowType
  <2>4. rows' \in [Rows -> RowType] /\ \A i \in Rows : rows'[i].sold = rows[i].sold
    BY <1>5, <2>2, <2>3
  <2>5. rows' \in Seq(RowType) /\ Len(rows') = Len(rows)
    BY <1>1, <2>4 DEF Rows
  <2>6. KeepsShares
    BY <1>1, <2>1, <2>4, <2>5 DEF KeepsShares, Rows
  <2> QED BY <1>3, <2>1, <2>6
<1>9. CASE findPlaceholders(c)
  <2>1. KeepsShares
    BY <1>9, RowsAndNftsAsBefore DEF findPlaceholders
  <2> PICK pairs : pairs = Assigned(old.row, old.round, old.count)
    OBVIOUS
  <2> PICK call : call = [[old EXCEPT !.pc = "tokens"] EXCEPT !.pairs = pairs]
    OBVIOUS
  <2>2. \/ calls' = [calls EXCEPT ![c] = Idle]
        \/ calls' = [calls EXCEPT ![c].pc = "tokens", ![c].pairs = pairs]
    BY <1>9 DEF findPlaceholders, End
  <2>3. ASSUME calls' = [calls EXCEPT ![c].pc = "tokens", ![c].pairs = pairs]
        PROVE  CalmInv'
    <3>1. calls' = [calls EXCEPT ![c] = call]
      BY <2>3
    <3>2. call.pc = "tokens"
      BY <1>1 DEF CallType
    <3>3. call.pc \notin {"nfts", "sold"}
      BY <3>2
    <3> QED BY <1>1, <1>2, <2>1, <3>1, <3>3, ApartStep
  <2> QED BY <1>3, <2>1, <2>2, <2>3
<1>10. CASE assignToken(c)
  <2>1. PICK p \in old.pairs :
          /\ nfts' = [nfts EXCEPT ![p[1]].token = p[2]]
          /\ IF old.pairs = {p} THEN calls' = [calls EXCEPT ![c] = Idle]
             ELSE calls' = [calls EXCEPT ![c].pairs = @ \ {p}]
    BY <1>10 DEF assignToken, End
  <2> PICK nft : nft = [nfts[p[1]] EXCEPT !.token = p[2]]
    OBVIOUS
  <2>2. p[1] \in 1..Len(nfts) /\ p[2] \in Nat /\ UNCHANGED rows
    BY <1>1, <1>10 DEF assignToken, Handler, CallType
  <2>3. nft \in NftType /\ nft.row = nfts[p[1]].row /\ nft.index = nfts[p[1]].index
    <3>1. nfts[p[1]] \in NftType
      BY <1>1, <2>2 DEF TypeOK
    <3> QED BY <2>2, <3>1 DEF NftType
  <2>4. /\ Len(nfts') = Len(nfts)
        /\ \A n \in 1..Len(nfts) : nfts'[n] = IF n = p[1] THEN nft ELSE nfts[n]
    <3>1. nfts' = [nfts EXCEPT ![p[1]] = nft]
      BY <1>1, <2>1, <2>2, Domains
    <3> QED BY <1>1, <2>2, <2>3, <3>1, ExceptFacts DEF TypeOK
  <2>5. KeepsShares
    <3>1. \A n \in 1..Len(nfts) : nfts'[n].row = nfts[n].row /\ nfts'[n].index = nfts[n].index
      BY <2>3, <2>4
    <3>2. rows' = rows /\ rows \in Seq(RowType)
      BY <1>1, <2>2 DEF TypeOK
    <3> QED BY <1>1, <2>4, <3>1, <3>2 DEF KeepsShares, Rows
  <2> PICK call : call = [old EXCEPT !.pairs = old.pairs \ {p}]
    OBVIOUS
  <2>6. ASSUME calls' = [calls EXCEPT ![c].pairs = @ \ {p}]
        PROVE  CalmInv'
    <3>1. calls' = [calls EXCEPT ![c] = call]
      BY <2>6
    <3>2. call.pc = old.pc
      BY <1>1 DEF CallType
    <3>3. call.pc \notin {"nfts", "sold"}
      BY <1>1, <3>2
    <3> QED BY <1>1, <1>2, <2>5, <3>1, <3>3, ApartStep
  <2> QED BY <1>3, <2>1, <2>5, <2>6
<1> QED BY <1>6, <1>7, <1>8, <1>9, <1>10

LEMMA ApartFails ==
  ASSUME IInv, CalmInv, restart \/ \E c \in Calls : throws(c)
  PROVE  CalmInv'
<1>1. CASE \E c \in Calls : throws(c)
  BY <1>1 DEF throws, CalmInv
<1>2. CASE restart
  <2> SUFFICES ASSUME calm' PROVE Alone' /\ Counts'
    BY DEF CalmInv
  <2>1. calm /\ Quiet /\ calls' = [c \in Calls |-> Idle] /\ UNCHANGED <<rows, nfts>>
    BY <1>2 DEF restart
  <2>2. calls' = calls
    BY <2>1 DEF IInv, TypeOK, Quiet
  <2> QED BY <2>1, <2>2, RowsAndNftsAsBefore, ApartStep DEF CalmInv
<1> QED BY <1>1, <1>2

\* The shares themselves.
LEMMA OneHandler ==
  ASSUME IInv, NEW c \in Calls, NEW call, calls' = [calls EXCEPT ![c] = call],
         \A d \in Calls : d # c => calls[d] = Idle
  PROVE  /\ \A x \in Handlers : x = calls[c] \/ x = Idle
         /\ \A x \in Handlers' : x = call \/ x = Idle
         /\ call \in Handlers' /\ calls[c] \in Handlers
<1>1. calls'[c] = call /\ \A d \in Calls : d # c => calls'[d] = calls[d]
  BY DEF IInv, TypeOK
<1> QED BY <1>1 DEF Handlers

LEMMA InvestSharesStep ==
  ASSUME IInv, CalmInv, NEW c \in Calls, NEW i \in Rows, NEW k \in 1..Shares,
         investInRound(c, i, k)
  PROVE  CalmInv'
<1> SUFFICES ASSUME calm' PROVE Alone' /\ Counts'
  BY DEF CalmInv
<1> PICK call : call = [pc |-> "nfts", row |-> i, round |-> 0, count |-> k,
                        sold |-> rows[i].sold, status |-> "OPEN", pairs |-> {}]
  OBVIOUS
<1>1. [Idle EXCEPT !.pc = "nfts", !.row = i, !.count = k, !.sold = rows[i].sold] = call
  <2>1. ASSUME NEW x, x = [Idle EXCEPT !.pc = "nfts", !.row = i, !.count = k,
                                       !.sold = rows[i].sold]
        PROVE  x = [pc |-> "nfts", row |-> i, round |-> 0, count |-> k,
                    sold |-> rows[i].sold, status |-> "OPEN", pairs |-> {}]
    BY <2>1 DEF Idle
  <2> QED BY <2>1
<1>2. /\ Begin(c, call) /\ UNCHANGED rows /\ UNCHANGED nfts /\ rows[i].sold + k <= Shares
  BY <1>1 DEF investInRound, Available
<1>3. /\ calls' = [calls EXCEPT ![c] = call] /\ Quiet /\ Alone /\ Counts
  BY <1>2 DEF Begin, CalmInv
<1>4. Alone'
  BY <1>3, AloneStep
<1>5. \A d \in Calls : calls[d] = Idle
  BY <1>3 DEF Quiet
<1>6. /\ \A x \in Handlers : x = Idle
      /\ \A x \in Handlers' : x = call \/ x = Idle
  <2>1. calls[c] = Idle /\ \A d \in Calls : d # c => calls[d] = Idle
    BY <1>5
  <2> QED BY <1>3, <2>1, OneHandler
<1>7. /\ call.pc = "nfts" /\ call.row = i /\ call.count = k /\ call.sold = rows[i].sold
      /\ Idle.pc = "idle"
  BY IdleFacts
<1>8. \A j \in Rows : Filled(j, rows[j].sold)
  BY <1>3, <1>6, <1>7 DEF Counts
<1>9. Rows' = Rows /\ \A j : Own(j)' = Own(j)
  BY <1>2 DEF Rows, Own
<1>10. \A j \in Rows : Filled(j, rows[j].sold)'
  BY <1>2, <1>8, <1>9 DEF Filled
<1>11. Counts'
  BY <1>2, <1>6, <1>7, <1>9, <1>10 DEF Counts
<1> QED BY <1>4, <1>11

LEMMA CreateNftsSharesStep ==
  ASSUME IInv, CalmInv, NEW c \in Calls, createNfts(c)
  PROVE  CalmInv'
<1> SUFFICES ASSUME calm' PROVE Alone' /\ Counts'
  BY DEF CalmInv
<1> PICK old : old = calls[c]
  OBVIOUS
<1> PICK call : call = [old EXCEPT !.pc = "sold"]
  OBVIOUS
<1> PICK k : k = old.count
  OBVIOUS
<1> PICK s : s = old.sold
  OBVIOUS
<1> PICK i : i = old.row
  OBVIOUS
<1> PICK new : new = [j \in 1..k |-> [row |-> i, index |-> s + j - 1, token |-> 0]]
  OBVIOUS
<1>1. /\ old \in CallType /\ Handler(old) /\ old.pc = "nfts" /\ TypeOK /\ old # Idle
      /\ nfts' = nfts \o new /\ calls' = [calls EXCEPT ![c] = call] /\ UNCHANGED rows
      /\ Alone /\ Counts
  <2>1. calls' = [calls EXCEPT ![c] = call]
    BY DEF createNfts
  <2>2. old.pc = "nfts" /\ UNCHANGED rows /\ UNCHANGED calm /\ nfts' = nfts \o new
    BY DEF createNfts
  <2>3. old # Idle
    BY <2>2, IdleFacts
  <2> QED BY <2>1, <2>2, <2>3 DEF IInv, TypeOK, Told, Handlers, CalmInv
<1>2. i \in Rows /\ k \in Nat /\ s \in Nat /\ i \in Nat
  BY <1>1 DEF Handler, CallType
<1>3. Alone'
  BY <1>1, AloneStep
<1>4. /\ \A x \in Handlers : x = old \/ x = Idle
      /\ \A x \in Handlers' : x = call \/ x = Idle
      /\ call \in Handlers' /\ old \in Handlers
  <2>1. \A d \in Calls : d # c => calls[d] = Idle
    BY <1>1 DEF Alone
  <2> QED BY <1>1, <2>1, OneHandler
<1>5. /\ call.pc = "sold" /\ call.row = i /\ call.count = k /\ Idle.pc = "idle"
  BY <1>1, IdleFacts DEF CallType
<1>6. /\ s = rows[i].sold /\ s + k <= Shares /\ \A j \in Rows : Filled(j, rows[j].sold)
  BY <1>1, <1>4, <1>5 DEF Counts
<1>7. new \in [1..k -> NftType]
  <2>1. \A j \in 1..k : s + j - 1 \in Nat
    BY <1>2
  <2> QED BY <1>2, <2>1 DEF NftType
<1>8. \A j \in 1..k : new[j].row = i /\ new[j].index = s + j - 1
  OBVIOUS
<1>9. /\ Len(nfts') = Len(nfts) + k /\ Len(nfts) \in Nat
      /\ \A n \in 1..Len(nfts) : nfts'[n] = nfts[n]
      /\ \A j \in 1..k : nfts'[Len(nfts) + j] = new[j]
  <2>1. nfts \in Seq(NftType) /\ Len(nfts) \in Nat
    BY <1>1, Domains DEF TypeOK
  <2>2. /\ Len(nfts \o new) = Len(nfts) + k
        /\ \A n \in 1..Len(nfts) : (nfts \o new)[n] = nfts[n]
        /\ \A j \in 1..k : (nfts \o new)[Len(nfts) + j] = new[j]
    BY <1>2, <1>7, <2>1, ConcatFacts
  <2> QED BY <1>1, <2>1, <2>2
<1>10. PICK base : base = Len(nfts)
  OBVIOUS
<1>11. /\ \A n \in 1..Len(nfts') : n \in 1..base \/ \E j \in 1..k : n = base + j
       /\ \A n \in 1..base : n \in 1..Len(nfts')
       /\ \A j \in 1..k : base + j \in 1..Len(nfts') /\ base + j \notin 1..base
  <2>1. \A n \in 1..Len(nfts') : n \notin 1..base => n - base \in 1..k /\ n = base + (n - base)
    BY <1>2, <1>9, <1>10
  <2> QED BY <1>2, <1>9, <1>10, <2>1
<1>12. /\ \A j \in 1..k : nfts'[base + j].row = i /\ nfts'[base + j].index = s + j - 1
       /\ \A n \in 1..base : nfts'[n] = nfts[n]
  BY <1>8, <1>9, <1>10
<1>13. \A m \in Rows : m # i => Filled(m, rows[m].sold)'
  <2> TAKE m \in Rows
  <2> HAVE m # i
  <2>1. Own(m)' = Own(m)
    BY <1>10, <1>11, <1>12 DEF Own
  <2>2. \A n \in Own(m) : nfts'[n] = nfts[n]
    BY <1>9 DEF Own
  <2> PICK t : t = rows[m].sold
    OBVIOUS
  <2>3. Filled(m, t) /\ rows'[m].sold = t
    BY <1>1, <1>6
  <2> QED BY <2>1, <2>2, <2>3 DEF Filled
<1>14. Filled(i, rows[i].sold + k)'
  <2> PICK total : total = s + k
    OBVIOUS
  <2>1. Filled(i, s)
    BY <1>2, <1>6
  <2>2. \A n \in Own(i) : n \in 1..base /\ n \in Own(i)' /\ nfts'[n].index = nfts[n].index
    BY <1>10, <1>11, <1>12 DEF Own
  <2>3. \A j \in 1..k : base + j \in Own(i)'
    BY <1>11, <1>12 DEF Own
  <2>4. \A n \in Own(i)' : n \in Own(i) \/ \E j \in 1..k : n = base + j
    BY <1>10, <1>11, <1>12 DEF Own
  <2>5. \A n \in Own(i)' : nfts'[n].index \in 0..(total - 1)
    <3> TAKE n \in Own(i)'
    <3>1. CASE n \in Own(i)
      <4>1. nfts'[n].index \in 0..(s - 1)
        BY <2>1, <2>2, <3>1 DEF Filled
      <4> QED BY <1>2, <4>1
    <3>2. ASSUME NEW j \in 1..k, n = base + j
          PROVE  nfts'[n].index \in 0..(total - 1)
      BY <1>2, <1>12, <3>2
    <3> QED BY <2>4, <3>1, <3>2
  <2>6. \A n, m \in Own(i)' : nfts'[n].index = nfts'[m].index => n = m
    <3>1. \A n, m \in Own(i) : nfts'[n].index = nfts'[m].index => n = m
      BY <2>1, <2>2 DEF Filled
    <3>2. \A n \in Own(i), j \in 1..k : nfts'[n].index # nfts'[base + j].index
      <4> TAKE n \in Own(i), j \in 1..k
      <4>1. nfts'[n].index \in 0..(s - 1)
        BY <2>1, <2>2 DEF Filled
      <4>2. nfts'[base + j].index = s + j - 1
        BY <1>12
      <4> QED BY <1>2, <4>1, <4>2
    <3>3. \A j, l \in 1..k : nfts'[base + j].index = nfts'[base + l].index => j = l
      <4> TAKE j, l \in 1..k
      <4>1. nfts'[base + j].index = s + j - 1 /\ nfts'[base + l].index = s + l - 1
        BY <1>12
      <4> QED BY <1>2, <4>1
    <3> QED BY <2>4, <3>1, <3>2, <3>3
  <2>7. \A x \in 0..(total - 1) : \E n \in Own(i)' : nfts'[n].index = x
    <3> TAKE x \in 0..(total - 1)
    <3>1. CASE x < s
      <4>1. x \in 0..(s - 1)
        BY <1>2, <3>1
      <4> QED BY <2>1, <2>2, <4>1 DEF Filled
    <3>2. CASE x >= s
      <4>1. x - s + 1 \in 1..k /\ s + (x - s + 1) - 1 = x
        BY <1>2, <3>2
      <4>2. PICK j \in 1..k : s + j - 1 = x
        BY <4>1
      <4> QED BY <1>12, <2>3, <4>2
    <3> QED BY <1>2, <3>1, <3>2
  <2>8. rows'[i].sold + k = total
    BY <1>1, <1>6
  <2> HIDE DEF Own
  <2> QED BY <1>6, <2>5, <2>6, <2>7, <2>8 DEF Filled
<1>15. Counts'
  <2>1. Rows' = Rows
    BY <1>1 DEF Rows
  <2>2. \A j \in Rows' : (\A x \in Handlers' : x.pc = "sold" => x.row # j) =>
          Filled(j, rows[j].sold)'
    BY <1>4, <1>5, <1>13, <2>1
  <2>3. \A x \in Handlers' : x.pc = "sold" => Filled(x.row, rows[x.row].sold + x.count)'
    <3> TAKE x \in Handlers'
    <3> HAVE x.pc = "sold"
    <3>1. x.row = i /\ x.count = k
      BY <1>4, <1>5
    <3> QED BY <1>14, <3>1 DEF Filled, Own
  <2>4. \A x \in Handlers' : x.pc # "nfts"
    BY <1>4, <1>5
  <2> QED BY <2>2, <2>3, <2>4 DEF Counts
<1> QED BY <1>3, <1>15

LEMMA CountSharesStep ==
  ASSUME IInv, CalmInv, NEW c \in Calls, countShares(c)
  PROVE  CalmInv'
<1> SUFFICES ASSUME calm' PROVE Alone' /\ Counts'
  BY DEF CalmInv
<1> PICK old : old = calls[c]
  OBVIOUS
<1> PICK i : i = old.row
  OBVIOUS
<1> PICK k : k = old.count
  OBVIOUS
<1> PICK row : row = [rows[i] EXCEPT !.sold = rows[i].sold + k]
  OBVIOUS
<1>1. /\ old \in CallType /\ Handler(old) /\ old.pc = "sold" /\ TypeOK /\ old # Idle
      /\ calls' = [calls EXCEPT ![c] = Idle] /\ UNCHANGED nfts
      /\ Alone /\ Counts
  <2>1. old.pc = "sold" /\ UNCHANGED nfts /\ UNCHANGED calm
        /\ calls' = [calls EXCEPT ![c] = Idle]
    BY DEF countShares, End
  <2>2. old # Idle
    BY <2>1, IdleFacts
  <2> QED BY <2>1, <2>2 DEF IInv, TypeOK, Told, Handlers, CalmInv
<1>2. i \in Rows /\ k \in Nat
  BY <1>1 DEF Handler, CallType
<1>3. Alone'
  BY <1>1, AloneStep
<1>4. /\ \A x \in Handlers : x = old \/ x = Idle
      /\ \A x \in Handlers' : x = Idle
      /\ old \in Handlers
  <2>1. \A d \in Calls : d # c => calls[d] = Idle
    BY <1>1 DEF Alone
  <2> QED BY <1>1, <2>1, OneHandler
<1>5. row \in RowType /\ row.sold = rows[i].sold + k
  <2>1. rows[i] \in RowType
    BY <1>1, <1>2 DEF TypeOK, Rows
  <2>2. rows[i].sold + k \in Nat
    BY <1>2, <2>1 DEF RowType
  <2> QED BY <2>1, <2>2 DEF RowType
<1>6. /\ Len(rows') = Len(rows)
      /\ \A j \in Rows : rows'[j] = IF j = i THEN row ELSE rows[j]
  <2>1. rows' = [rows EXCEPT ![i] = row]
    BY <1>1, <1>2, Domains DEF countShares
  <2> QED BY <1>1, <1>2, <1>5, <2>1, ExceptFacts DEF TypeOK, Rows
<1>7. Rows' = Rows /\ \A j : Own(j)' = Own(j)
  BY <1>1, <1>6 DEF Rows, Own
<1>8. \A j \in Rows : Filled(j, rows[j].sold)'
  <2> TAKE j \in Rows
  <2> PICK t : t = row.sold
    OBVIOUS
  <2>1. CASE j = i
    <3>1. Filled(i, t)
      BY <1>1, <1>4, <1>5 DEF Counts
    <3>2. rows'[j].sold = t
      BY <1>2, <1>6, <2>1
    <3> QED BY <1>1, <1>7, <2>1, <3>1, <3>2 DEF Filled
  <2>2. CASE j # i
    <3> PICK u : u = rows[j].sold
      OBVIOUS
    <3>1. Filled(j, u)
      BY <1>1, <1>4, <2>2, IdleFacts DEF Counts
    <3>2. rows'[j].sold = u
      BY <1>6, <2>2
    <3> QED BY <1>1, <1>7, <3>1, <3>2 DEF Filled
  <2> QED BY <2>1, <2>2
<1>9. Counts'
  BY <1>4, <1>7, <1>8, IdleFacts DEF Counts
<1> QED BY <1>3, <1>9

LEMMA CalmStep ==
  ASSUME IInv, CalmInv, [Next]_vars
  PROVE  CalmInv'
<1>1. DOMAIN rows = Rows /\ DOMAIN chain = Rounds
  BY Domains DEF IInv
<1>2. CASE \/ \E i \in creating : mineCreateRound(i) \/ createRoundFails(i)
           \/ \E crop \in Crops : createRoundOutside(crop) \/ createRound(crop)
           \/ \E r \in Rounds :
                (\E k \in 1..Shares : invest(r, k)) \/ unlockCapital(r) \/ distributeOnChain(r)
  BY <1>2, ApartFromCalls
<1>3. ASSUME NEW c \in Calls, NEW i \in Rows,
             (\E k \in 1..Shares : investInRound(c, i, k)) \/ distributeHarvest(c, i)
      PROVE  CalmInv'
  BY <1>3, InvestSharesStep, ApartBegins
<1>4. ASSUME NEW c \in Calls,
             \/ createNfts(c) \/ countShares(c) \/ distributing(c)
             \/ RoundCreated(c) \/ link(c)
             \/ SharesPurchased(c) \/ findPlaceholders(c) \/ assignToken(c)
             \/ CapitalUnlocked(c) \/ HarvestDistributed(c) \/ writeStatus(c)
             \/ throws(c)
      PROVE  CalmInv'
  BY <1>4, CreateNftsSharesStep, CountSharesStep, ApartBegins, ApartGoesOn, ApartFails
<1>5. CASE restart
  BY <1>5, ApartFails
<1>6. CASE UNCHANGED vars
  <2>1. UNCHANGED calls /\ UNCHANGED calm /\ UNCHANGED <<rows, nfts>>
    BY <1>6 DEF vars
  <2> QED BY <2>1, RowsAndNftsAsBefore, ApartStep
<1> QED BY <1>1, <1>2, <1>3, <1>4, <1>5, <1>6 DEF Next

LEMMA AddsUp == IInv /\ CalmInv => SharesAddUp
<1> SUFFICES ASSUME IInv, CalmInv, calm, Quiet, NEW i \in DOMAIN rows
             PROVE  LET own == {n \in DOMAIN nfts : nfts[n].row = i}
                    IN  /\ Cardinality(own) = rows[i].sold
                        /\ {nfts[n].index : n \in own} = 0..(rows[i].sold - 1)
                        /\ rows[i].sold <= Shares
  BY DEF SharesAddUp
<1> PICK k : k = rows[i].sold
  OBVIOUS
<1>1. i \in Rows /\ k \in Nat /\ Len(nfts) \in Nat /\ DOMAIN nfts = 1..Len(nfts)
  <2>1. i \in Rows /\ Len(nfts) \in Nat /\ DOMAIN nfts = 1..Len(nfts)
    BY Domains DEF IInv
  <2>2. rows[i] \in RowType
    BY <2>1 DEF IInv, TypeOK, Rows
  <2> QED BY <2>1, <2>2 DEF RowType
<1>2. Filled(i, k)
  BY <1>1, IdleFacts DEF CalmInv, Counts, Handlers, Quiet
<1>3. {n \in DOMAIN nfts : nfts[n].row = i} = Own(i)
  BY <1>1 DEF Own
<1>4. {nfts[n].index : n \in Own(i)} = 0..(k - 1)
  BY <1>2 DEF Filled
<1>5. Cardinality(Own(i)) = k
  <2>1. IsFiniteSet(Own(i))
    <3>1. IsFiniteSet(1..Len(nfts))
      BY <1>1, FS_Interval
    <3>2. Own(i) \subseteq 1..Len(nfts)
      BY DEF Own
    <3> QED BY <3>1, <3>2, FS_Subset
  <2> PICK f : f = [n \in Own(i) |-> nfts[n].index]
    OBVIOUS
  <2>2. f \in [Own(i) -> 0..(k - 1)]
    BY <1>2 DEF Filled
  <2>3. \A n, m \in Own(i) : f[n] = f[m] => n = m
    BY <1>2 DEF Filled
  <2>4. \A x \in 0..(k - 1) : \E n \in Own(i) : f[n] = x
    BY <1>2 DEF Filled
  <2>5. f \in Bijection(Own(i), 0..(k - 1))
    BY <2>2, <2>3, <2>4 DEF Bijection, Injection, Surjection, IsInjective
  <2>6. Cardinality(0..(k - 1)) = Cardinality(Own(i))
    BY <2>1, <2>5, FS_Bijection DEF ExistsBijection
  <2>7. 0 \in Int /\ k - 1 \in Int /\ (0 > k - 1 => k = 0) /\ (k - 1) - 0 + 1 = k
    BY <1>1
  <2>8. Cardinality(0..(k - 1)) = IF 0 > k - 1 THEN 0 ELSE (k - 1) - 0 + 1
    BY <2>7, FS_Interval
  <2> QED BY <2>6, <2>7, <2>8
<1>6. k <= Shares
  BY <1>2 DEF Filled
<1> QED BY <1>3, <1>4, <1>5, <1>6

\* As long as requests do not overlap or fail, the shares of a row are as many
\* as it counts, are numbered without gaps, and no more than the round has.
THEOREM SharesAreCounted == Spec => []SharesAddUp
<1>1. Init => CalmInv
  <2> SUFFICES ASSUME Init PROVE CalmInv
    OBVIOUS
  <2>1. rows = <<>> /\ calls = [c \in Calls |-> Idle]
    BY DEF Init
  <2>2. Rows = {} /\ \A x \in Handlers : x = Idle
    BY <2>1 DEF Rows, Handlers
  <2>3. Alone
    BY <2>1 DEF Alone
  <2>4. Counts
    BY <2>2, IdleFacts DEF Counts
  <2> QED BY <2>3, <2>4 DEF CalmInv
<1> QED BY <1>1, Start, Step, CalmStep, AddsUp, PTL DEF Spec

-----------------------------------------------------------------------------
(* What is so as long as handlers do not overlap and the rounds of a crop  *)
(* come one after another: what a row lacks is on its way.                 *)
Pending(type, r) ==
  \E n \in 1..Len(events) : events[n].type = type /\ events[n].round = r
Linking(r) == \E call \in Handlers : call.pc = "link" /\ call.round = r
Writing(status, r) ==
  \E call \in Handlers : call.pc = "status" /\ call.status = status /\ call.round = r

Named == \A r \in Rounds : chain[r].for # 0 =>
  rows[chain[r].for].id = r \/ Pending("RoundCreated", r) \/ Linking(r)
Followed == \A r \in Rounds : chain[r].for # 0 =>
  /\ chain[r].status = "ACTIVE" =>
       \/ rows[chain[r].for].status # "OPEN"
       \/ Pending("CapitalUnlocked", r) \/ Writing("ACTIVE", r)
  /\ chain[r].status = "DISTRIBUTING" =>
       \/ rows[chain[r].for].status = "DISTRIBUTING"
       \/ Pending("HarvestDistributed", r) \/ Writing("DISTRIBUTING", r)
\* A round is announced before its progress, and its capital is released first.
StatusEvents == {"CapitalUnlocked", "HarvestDistributed"}
InOrder ==
  /\ \A n, m \in 1..Len(events) :
       (/\ events[m].type = "RoundCreated" /\ events[n].round = events[m].round
        /\ events[n].type \in StatusEvents) => m < n
  /\ \A n \in 1..Len(events) :
       (events[n].type = "CapitalUnlocked" /\ chain[events[n].round].status = "DISTRIBUTING") =>
         \E m \in 1..Len(events) : /\ m > n /\ events[m].type = "HarvestDistributed"
                                   /\ events[m].round = events[n].round
  /\ \A call \in Handlers : call.pc = "status" =>
       /\ ~Pending("RoundCreated", call.round)
       /\ (call.status = "ACTIVE" /\ chain[call.round].status = "DISTRIBUTING") =>
            Pending("HarvestDistributed", call.round)
FollowInv == orderly /\ calm => Named /\ Followed /\ InOrder

\* Steps that neither hear nor say anything.
LEMMA AsideStep ==
  ASSUME IInv, FollowInv, orderly' => orderly, calm' => calm, UNCHANGED events, UNCHANGED chain,
         \A i \in Rows : /\ rows'[i].id = rows[i].id
                         /\ rows[i].status # "OPEN" => rows'[i].status # "OPEN"
                         /\ rows[i].status = "DISTRIBUTING" => rows'[i].status = "DISTRIBUTING",
         calm' => \A x : x.pc \in {"link", "status"} => (x \in Handlers' <=> x \in Handlers)
  PROVE  FollowInv'
<1> SUFFICES ASSUME orderly', calm' PROVE Named' /\ Followed' /\ InOrder'
  BY DEF FollowInv
<1>1. Named /\ Followed /\ InOrder
  BY DEF FollowInv
<1>2. /\ Rounds' = Rounds
      /\ \A type, r : Pending(type, r)' <=> Pending(type, r)
      /\ \A r : Linking(r)' <=> Linking(r)
      /\ \A status, r : Writing(status, r)' <=> Writing(status, r)
      /\ \A x \in Handlers' : x.pc = "status" => x \in Handlers
  <2>1. \A type, r : Pending(type, r)' <=> Pending(type, r)
    BY DEF Pending
  <2>2. \A r : Linking(r)' <=> Linking(r)
    BY DEF Linking
  <2>3. \A status, r : Writing(status, r)' <=> Writing(status, r)
    BY DEF Writing
  <2> QED BY <2>1, <2>2, <2>3 DEF Rounds
<1>3. \A r \in Rounds : chain[r].for # 0 => chain[r].for \in Rows
  BY DEF IInv, Creations
<1>4. Named'
  BY <1>1, <1>2, <1>3 DEF Named
<1>5. Followed'
  BY <1>1, <1>2, <1>3 DEF Followed
<1>6. InOrder'
  BY <1>1, <1>2 DEF InOrder
<1> QED BY <1>4, <1>5, <1>6

\* Steps that say something.
LEMMA SaidStep ==
  ASSUME IInv, FollowInv, orderly' => orderly, calm' => calm, UNCHANGED rows, UNCHANGED calls,
         NEW e \in EventType, events' = Append(events, e),
         Rounds \subseteq Rounds',
         \A r \in Rounds :
           /\ chain'[r].for = chain[r].for
           /\ \/ chain'[r].status = chain[r].status
              \/ chain'[r].status \in {"OPEN", "FUNDED"}
              \/ chain'[r].status = "ACTIVE" /\ e.type = "CapitalUnlocked" /\ e.round = r
              \/ /\ chain'[r].status = "DISTRIBUTING"
                 /\ e.type = "HarvestDistributed" /\ e.round = r,
         \A r \in Rounds' : r \notin Rounds =>
           e.type = "RoundCreated" /\ e.round = r /\ chain'[r].status = "OPEN",
         e.type = "RoundCreated" => e.round \notin Rounds,
         e.type = "CapitalUnlocked" => chain'[e.round].status # "DISTRIBUTING"
  PROVE  FollowInv'
<1> SUFFICES ASSUME orderly', calm' PROVE Named' /\ Followed' /\ InOrder'
  BY DEF FollowInv
<1> PICK last : last = Len(events) + 1
  OBVIOUS
<1>1. Named /\ Followed /\ InOrder
  BY DEF FollowInv
<1>2. /\ Len(events) \in Nat /\ Len(events') = Len(events) + 1 /\ events'[last] = e
      /\ \A n \in 1..Len(events) : events'[n] = events[n]
  BY AppendFacts, Domains DEF IInv, TypeOK
<1>3. /\ 1..Len(events') = (1..Len(events)) \cup {last} /\ last \notin 1..Len(events)
      /\ \A n \in 1..Len(events) : n < last
      /\ Handlers' = Handlers
  BY <1>2 DEF Handlers
<1>4. /\ \A type, r : Pending(type, r)' <=> Pending(type, r) \/ (e.type = type /\ e.round = r)
      /\ \A r : Linking(r)' <=> Linking(r)
      /\ \A status, r : Writing(status, r)' <=> Writing(status, r)
  <2>1. \A type, r : Pending(type, r)' <=> Pending(type, r) \/ (e.type = type /\ e.round = r)
    BY <1>2, <1>3 DEF Pending
  <2>2. \A r : Linking(r)' <=> Linking(r)
    BY <1>3 DEF Linking
  <2>3. \A status, r : Writing(status, r)' <=> Writing(status, r)
    BY <1>3 DEF Writing
  <2> QED BY <2>1, <2>2, <2>3
<1>5. Named'
  BY <1>1, <1>4 DEF Named
<1>6. Followed'
  BY <1>1, <1>4 DEF Followed
<1>7. \A n \in 1..Len(events) : events[n].type \in StatusEvents => events[n].round \in Rounds
  BY DEF IInv, Told, Event, Happened, Emissions, StatusEvents
<1>8. ASSUME NEW n \in 1..Len(events'), NEW m \in 1..Len(events'),
             events'[m].type = "RoundCreated", events'[n].round = events'[m].round,
             events'[n].type \in StatusEvents
      PROVE  m < n
  <2>1. CASE m = last
    <3>1. n # last
      BY <1>2, <1>8, <2>1 DEF StatusEvents
    <3>2. n \in 1..Len(events) /\ events'[n] = events[n]
      BY <1>2, <1>3, <3>1
    <3> QED BY <1>2, <1>7, <1>8, <2>1, <3>2
  <2>2. CASE m # last /\ n # last
    BY <1>1, <1>2, <1>3, <1>8, <2>2 DEF InOrder
  <2>3. CASE m # last /\ n = last
    BY <1>3, <2>3
  <2> QED BY <2>1, <2>2, <2>3
<1>9. ASSUME NEW n \in 1..Len(events'), events'[n].type = "CapitalUnlocked",
             chain'[events'[n].round].status = "DISTRIBUTING"
      PROVE  \E m \in 1..Len(events') : /\ m > n /\ events'[m].type = "HarvestDistributed"
                                        /\ events'[m].round = events'[n].round
  <2>1. n # last
    BY <1>2, <1>9
  <2>2. n \in 1..Len(events) /\ events'[n] = events[n] /\ n < last
    BY <1>2, <1>3, <2>1
  <2> PICK r : r = events[n].round
    OBVIOUS
  <2>3. r \in Rounds /\ chain'[r].status = "DISTRIBUTING"
    BY <1>7, <1>9, <2>2 DEF StatusEvents
  <2>4. CASE chain[r].status = "DISTRIBUTING"
    <3>1. PICK m \in 1..Len(events) : /\ m > n /\ events[m].type = "HarvestDistributed"
                                      /\ events[m].round = events[n].round
      BY <1>1, <1>9, <2>2, <2>4 DEF InOrder
    <3> QED BY <1>2, <1>3, <2>2, <3>1
  <2>5. CASE e.type = "HarvestDistributed" /\ e.round = r
    <3>1. last \in 1..Len(events') /\ last > n
      BY <1>2, <1>3, <2>2
    <3> QED BY <1>2, <2>2, <2>5, <3>1
  <2> QED BY <2>3, <2>4, <2>5
<1>10. ASSUME NEW call \in Handlers', call.pc = "status"
       PROVE  /\ ~Pending("RoundCreated", call.round)'
              /\ (call.status = "ACTIVE" /\ chain'[call.round].status = "DISTRIBUTING") =>
                   Pending("HarvestDistributed", call.round)'
  <2>1. call \in Handlers /\ call.round \in Rounds
    BY <1>3, <1>10 DEF IInv, Told, Handler, Happened
  <2>2. /\ ~Pending("RoundCreated", call.round)
        /\ (call.status = "ACTIVE" /\ chain[call.round].status = "DISTRIBUTING") =>
             Pending("HarvestDistributed", call.round)
    BY <1>1, <1>10, <2>1 DEF InOrder
  <2> QED BY <1>4, <2>1, <2>2
<1>11. InOrder'
  BY <1>8, <1>9, <1>10 DEF InOrder
<1> QED BY <1>5, <1>6, <1>11

\* Steps that hear something.
LEMMA HearingStep ==
  ASSUME IInv, FollowInv, orderly' => orderly, calm' => calm, UNCHANGED rows, UNCHANGED chain,
         events # <<>>, events' = Tail(events), NEW e, e = Head(events),
         calm' => \A x \in Handlers : x.pc \in {"link", "status"} =>
           x \in Handlers' /\ e.type \notin StatusEvents,
         calm' => \A x \in Handlers' : x.pc = "status" =>
           \/ x \in Handlers
           \/ x.round = e.round /\ (\/ e.type = "HarvestDistributed" /\ x.status # "ACTIVE"
                                    \/ e.type = "CapitalUnlocked"),
         orderly' /\ calm' =>
           /\ e.type = "RoundCreated" /\ chain[e.round].for # 0 => Linking(e.round)'
           /\ e.type = "CapitalUnlocked" => Writing("ACTIVE", e.round)'
           /\ e.type = "HarvestDistributed" => Writing("DISTRIBUTING", e.round)'
  PROVE  FollowInv'
<1> SUFFICES ASSUME orderly', calm' PROVE Named' /\ Followed' /\ InOrder'
  BY DEF FollowInv
<1>1. Named /\ Followed /\ InOrder
  BY DEF FollowInv
<1>2. /\ Len(events) \in Nat /\ Len(events) >= 1 /\ Len(events') = Len(events) - 1
      /\ e = events[1] /\ \A n \in 1..Len(events') : events'[n] = events[n + 1]
  BY TailFacts DEF IInv, TypeOK
<1>3. /\ \A n \in 1..Len(events') : n + 1 \in 1..Len(events) /\ n + 1 > 1
      /\ \A n \in 1..Len(events) : n # 1 => n - 1 \in 1..Len(events') /\ (n - 1) + 1 = n
      /\ 1 \in 1..Len(events) /\ Rounds' = Rounds
  BY <1>2 DEF Rounds
<1>4. /\ \A type, r : Pending(type, r)' => Pending(type, r)
      /\ \A type, r : Pending(type, r) => Pending(type, r)' \/ (e.type = type /\ e.round = r)
      /\ \A r : Linking(r) => Linking(r)'
      /\ \A status, r : Writing(status, r) => Writing(status, r)'
  <2>1. \A type, r : Pending(type, r)' => Pending(type, r)
    BY <1>2, <1>3 DEF Pending
  <2>2. ASSUME NEW type, NEW r, Pending(type, r)
        PROVE  Pending(type, r)' \/ (e.type = type /\ e.round = r)
    <3>1. PICK n \in 1..Len(events) : events[n].type = type /\ events[n].round = r
      BY <2>2 DEF Pending
    <3>2. CASE n = 1
      BY <1>2, <3>1, <3>2
    <3>3. CASE n # 1
      <4>1. PICK m \in 1..Len(events') : m + 1 = n
        BY <1>3, <3>3
      <4>2. events'[m] = events[n]
        BY <1>2, <4>1
      <4> QED BY <3>1, <4>2 DEF Pending
    <3> QED BY <3>2, <3>3
  <2>3. \A r : Linking(r) => Linking(r)'
    BY DEF Linking
  <2>4. \A status, r : Writing(status, r) => Writing(status, r)'
    BY DEF Writing
  <2> QED BY <2>1, <2>2, <2>3, <2>4
<1>5. Named'
  BY <1>1, <1>3, <1>4 DEF Named
<1>6. Followed'
  BY <1>1, <1>3, <1>4 DEF Followed
<1>7. ASSUME NEW n \in 1..Len(events'), NEW m \in 1..Len(events'),
             events'[m].type = "RoundCreated", events'[n].round = events'[m].round,
             events'[n].type \in StatusEvents
      PROVE  m < n
  <2>1. m + 1 < n + 1
    BY <1>1, <1>2, <1>3, <1>7 DEF InOrder
  <2> QED BY <2>1
<1>8. ASSUME NEW n \in 1..Len(events'), events'[n].type = "CapitalUnlocked",
             chain'[events'[n].round].status = "DISTRIBUTING"
      PROVE  \E m \in 1..Len(events') : /\ m > n /\ events'[m].type = "HarvestDistributed"
                                        /\ events'[m].round = events'[n].round
  <2>1. PICK k \in 1..Len(events) : /\ k > n + 1 /\ events[k].type = "HarvestDistributed"
                                    /\ events[k].round = events'[n].round
    BY <1>1, <1>2, <1>3, <1>8 DEF InOrder
  <2>2. k # 1 /\ k - 1 > n
    BY <1>3, <2>1
  <2>3. PICK m \in 1..Len(events') : m = k - 1 /\ m + 1 = k
    BY <1>3, <2>2
  <2> QED BY <1>2, <2>1, <2>2, <2>3
<1>9. e.type \in StatusEvents => ~Pending("RoundCreated", e.round)'
  <2> SUFFICES ASSUME e.type \in StatusEvents, Pending("RoundCreated", e.round)'
               PROVE  FALSE
    OBVIOUS
  <2>1. PICK m \in 1..Len(events') : events'[m].type = "RoundCreated" /\ events'[m].round = e.round
    BY DEF Pending
  <2>2. m + 1 < 1
    BY <1>1, <1>2, <1>3, <2>1 DEF InOrder
  <2> QED BY <2>2
<1>10. (e.type = "CapitalUnlocked" /\ chain[e.round].status = "DISTRIBUTING") =>
         Pending("HarvestDistributed", e.round)'
  <2> SUFFICES ASSUME e.type = "CapitalUnlocked", chain[e.round].status = "DISTRIBUTING"
               PROVE  Pending("HarvestDistributed", e.round)'
    OBVIOUS
  <2>1. PICK k \in 1..Len(events) : /\ k > 1 /\ events[k].type = "HarvestDistributed"
                                    /\ events[k].round = e.round
    BY <1>1, <1>2, <1>3 DEF InOrder
  <2>2. PICK m \in 1..Len(events') : m + 1 = k
    BY <1>3, <2>1
  <2>3. events'[m] = events[k]
    BY <1>2, <2>2
  <2> QED BY <2>1, <2>3 DEF Pending
<1>11. ASSUME NEW call \in Handlers', call.pc = "status"
       PROVE  /\ ~Pending("RoundCreated", call.round)'
              /\ (call.status = "ACTIVE" /\ chain'[call.round].status = "DISTRIBUTING") =>
                   Pending("HarvestDistributed", call.round)'
  <2>1. CASE call \in Handlers
    <3>1. /\ ~Pending("RoundCreated", call.round)
          /\ (call.status = "ACTIVE" /\ chain[call.round].status = "DISTRIBUTING") =>
               Pending("HarvestDistributed", call.round)
      BY <1>1, <1>11, <2>1 DEF InOrder
    <3>2. e.type # "HarvestDistributed"
      BY <1>11, <2>1 DEF StatusEvents
    <3> QED BY <1>4, <3>1, <3>2
  <2>2. CASE call.round = e.round /\ e.type = "HarvestDistributed" /\ call.status # "ACTIVE"
    BY <1>9, <2>2 DEF StatusEvents
  <2>3. CASE call.round = e.round /\ e.type = "CapitalUnlocked"
    BY <1>9, <1>10, <2>3 DEF StatusEvents
  <2> QED BY <1>11, <2>1, <2>2, <2>3
<1>12. InOrder'
  BY <1>7, <1>8, <1>11 DEF InOrder
<1> QED BY <1>5, <1>6, <1>12

LEMMA FollowCreated ==
  ASSUME IInv, FollowInv, NEW crop \in Crops, NEW row, Created(crop, row),
         UNCHANGED <<rows, calls, calm>>, orderly' => orderly
  PROVE  FollowInv'
<1> PICK r : r = Len(chain) + 1
  OBVIOUS
<1> PICK e : e = [type |-> "RoundCreated", round |-> r, crop |-> crop, first |-> 0, last |-> 0]
  OBVIOUS
<1> PICK round : round = [crop |-> crop, for |-> row, sold |-> 0, status |-> "OPEN"]
  OBVIOUS
<1>1. Len(chain) \in Nat /\ chain' = Append(chain, round) /\ events' = Append(events, e)
  BY Domains DEF IInv, Created, Emitted
<1>2. e \in EventType /\ e.type = "RoundCreated" /\ e.round = r
  BY <1>1 DEF EventType
<1>3. /\ Len(chain') = r /\ \A q \in Rounds : chain'[q] = chain[q]
      /\ chain'[r].status = "OPEN"
  <2>1. /\ DOMAIN chain = 1..Len(chain)
        /\ chain' = [q \in 1..(Len(chain) + 1) |-> IF q = Len(chain) + 1 THEN round ELSE chain[q]]
    BY <1>1 DEF IInv, TypeOK
  <2>2. Len(chain') = r
    BY <1>1, <2>1
  <2>3. \A q \in Rounds : chain'[q] = chain[q]
    BY <1>1, <2>1 DEF Rounds
  <2>4. chain'[r] = round
    BY <1>1, <2>1
  <2> QED BY <2>2, <2>3, <2>4
<1>4. Rounds' = Rounds \cup {r} /\ r \notin Rounds
  BY <1>1, <1>3 DEF Rounds
<1>5. UNCHANGED rows /\ UNCHANGED calls /\ (calm' => calm)
  OBVIOUS
<1> QED BY <1>1, <1>2, <1>3, <1>4, <1>5, SaidStep

LEMMA FollowContract ==
  ASSUME IInv, FollowInv,
         \/ \E i \in creating : mineCreateRound(i)
         \/ \E crop \in Crops : createRoundOutside(crop)
         \/ \E r \in Rounds :
              (\E k \in 1..Shares : invest(r, k)) \/ unlockCapital(r) \/ distributeOnChain(r)
  PROVE  FollowInv'
<1>1. ASSUME NEW i \in creating, mineCreateRound(i)
      PROVE  FollowInv'
  <2>1. rows[i].crop \in Crops
    <3>1. i \in 1..Len(rows) /\ rows \in Seq(RowType)
      BY DEF IInv, TypeOK
    <3>2. rows[i] \in RowType
      BY <3>1
    <3> QED BY <3>2 DEF RowType
  <2>2. PICK crop \in Crops : crop = rows[i].crop
    BY <2>1
  <2>3. Created(crop, i) /\ UNCHANGED <<rows, calls, calm>> /\ (orderly' => orderly)
    BY <1>1, <2>2 DEF mineCreateRound
  <2> QED BY <2>3, FollowCreated
<1>2. ASSUME NEW crop \in Crops, createRoundOutside(crop)
      PROVE  FollowInv'
  <2>1. Created(crop, 0) /\ UNCHANGED <<rows, calls, calm>> /\ (orderly' => orderly)
    BY <1>2 DEF createRoundOutside
  <2> QED BY <2>1, FollowCreated
<1>3. ASSUME NEW r \in Rounds, NEW e, NEW status \in {"OPEN", "FUNDED", "ACTIVE", "DISTRIBUTING"},
             e \in EventType, events' = Append(events, e), e.round = r, e.type # "RoundCreated",
             status = "ACTIVE" => e.type = "CapitalUnlocked",
             status = "DISTRIBUTING" => e.type = "HarvestDistributed",
             Len(chain') = Len(chain), chain'[r].for = chain[r].for, chain'[r].status = status,
             \A q \in Rounds : q # r => chain'[q] = chain[q],
             UNCHANGED <<rows, calls, calm, orderly>>
      PROVE  FollowInv'
  <2>1. Rounds' = Rounds
    BY <1>3 DEF Rounds
  <2>2. e.type = "CapitalUnlocked" => chain'[e.round].status # "DISTRIBUTING"
    BY <1>3
  <2>3. UNCHANGED rows /\ UNCHANGED calls /\ (calm' => calm) /\ (orderly' => orderly)
    BY <1>3
  <2>4. \A q \in Rounds :
          /\ chain'[q].for = chain[q].for
          /\ \/ chain'[q].status = chain[q].status
             \/ chain'[q].status \in {"OPEN", "FUNDED"}
             \/ chain'[q].status = "ACTIVE" /\ e.type = "CapitalUnlocked" /\ e.round = q
             \/ /\ chain'[q].status = "DISTRIBUTING"
                /\ e.type = "HarvestDistributed" /\ e.round = q
    <3> TAKE q \in Rounds
    <3>1. CASE q = r
      BY <1>3, <3>1
    <3>2. CASE q # r
      BY <1>3, <3>2
    <3> QED BY <3>1, <3>2
  <2>5. e.type = "RoundCreated" => e.round \notin Rounds
    BY <1>3
  <2> QED BY <1>3, <2>1, <2>2, <2>3, <2>4, <2>5, SaidStep
<1>4. \A r \in Rounds : chain[r] \in RoundType /\ r \in Nat
  BY Domains DEF IInv, TypeOK, Rounds
<1>5. DOMAIN chain = Rounds /\ Len(chain) \in Nat /\ Len(minted) \in Nat /\ chain \in Seq(RoundType)
  BY Domains DEF IInv, TypeOK
<1>6. ASSUME NEW r \in Rounds, NEW k \in 1..Shares, invest(r, k)
      PROVE  FollowInv'
  <2> PICK e : e = [type |-> "SharesPurchased", round |-> r, crop |-> "any",
                    first |-> Len(minted) + 1, last |-> Len(minted) + k]
    OBVIOUS
  <2> PICK status \in {"OPEN", "FUNDED"} :
        status = IF chain[r].sold + k = Shares THEN "FUNDED" ELSE "OPEN"
    OBVIOUS
  <2>1. e \in EventType /\ e.round = r /\ e.type = "SharesPurchased"
    <3>1. Len(minted) + 1 \in Nat /\ Len(minted) + k \in Nat
      BY <1>5, BoundAssumption
    <3> QED BY <1>4, <3>1 DEF EventType
  <2>2. events' = Append(events, e) /\ UNCHANGED <<rows, calls, calm, orderly>>
    BY <1>6 DEF invest, Emitted
  <2>3. chain' = [chain EXCEPT ![r].sold = @ + k,
                    ![r].status = IF chain[r].sold + k = Shares THEN "FUNDED" ELSE @]
        /\ chain[r].status = "OPEN"
    BY <1>6 DEF invest
  <2>4. chain' = [chain EXCEPT ![r] = [chain[r] EXCEPT !.sold = chain[r].sold + k,
                                                      !.status = status]]
    BY <1>5, <2>3
  <2>5. /\ [chain[r] EXCEPT !.sold = chain[r].sold + k, !.status = status].for = chain[r].for
        /\ [chain[r] EXCEPT !.sold = chain[r].sold + k, !.status = status].status = status
    BY <1>4 DEF RoundType
  <2>6. /\ DOMAIN chain' = DOMAIN chain /\ \A q \in Rounds : q # r => chain'[q] = chain[q]
        /\ chain'[r] = [chain[r] EXCEPT !.sold = chain[r].sold + k, !.status = status]
    BY <1>5, <2>4
  <2>7. Len(chain') = Len(chain)
    BY <1>5, <2>4
  <2> QED BY <1>3, <2>1, <2>2, <2>5, <2>6, <2>7
<1>7. ASSUME NEW r \in Rounds, NEW status \in {"ACTIVE", "DISTRIBUTING"}, NEW type,
             \/ status = "ACTIVE" /\ type = "CapitalUnlocked"
             \/ status = "DISTRIBUTING" /\ type = "HarvestDistributed",
             chain' = [chain EXCEPT ![r].status = status], Emitted(type, r, "any", 0, 0),
             UNCHANGED <<rows, calls, calm, orderly>>
      PROVE  FollowInv'
  <2> PICK e : e = [type |-> type, round |-> r, crop |-> "any", first |-> 0, last |-> 0]
    OBVIOUS
  <2>1. e \in EventType /\ e.round = r /\ e.type = type
    BY <1>4, <1>7 DEF EventType
  <2>2. events' = Append(events, e)
    BY <1>7 DEF Emitted
  <2>3. /\ [chain[r] EXCEPT !.status = status].for = chain[r].for
        /\ [chain[r] EXCEPT !.status = status].status = status
    BY <1>4 DEF RoundType
  <2>4. /\ \A q \in Rounds : q # r => chain'[q] = chain[q]
        /\ chain'[r] = [chain[r] EXCEPT !.status = status]
        /\ Len(chain') = Len(chain)
    BY <1>5, <1>7
  <2> QED BY <1>3, <1>7, <2>1, <2>2, <2>3, <2>4
<1>8. ASSUME NEW r \in Rounds, unlockCapital(r)
      PROVE  FollowInv'
  BY <1>7, <1>8 DEF unlockCapital
<1>9. ASSUME NEW r \in Rounds, distributeOnChain(r)
      PROVE  FollowInv'
  BY <1>7, <1>9 DEF distributeOnChain
<1> QED BY <1>1, <1>2, <1>6, <1>8, <1>9

\* The row that a round was created for waits until it has been heard of.
LEMMA Awaited ==
  ASSUME IInv, orderly, NEW e, e = Head(events), Heard("RoundCreated"),
         chain[e.round].for # 0
  PROVE  chain[e.round].for \in Waiting(e.crop)
<1> PICK f : f = chain[e.round].for
  OBVIOUS
<1>1. Event(e) /\ e.type = "RoundCreated" /\ e = events[1] /\ 1 \in 1..Len(events)
  BY HeardFacts
<1>2. e.round \in Rounds /\ chain[e.round].crop = e.crop /\ Announces(1, e.round)
  BY <1>1 DEF Event, Announces
<1>3. f \in Rows /\ rows[f].crop = e.crop
  BY <1>2 DEF IInv, Creations
<1>4. rows[f].id = 0
  <2> SUFFICES ASSUME rows[f].id # 0 PROVE FALSE
    OBVIOUS
  <2>1. rows[f].id \in Rounds
    BY <1>3, Domains DEF IInv, Numbered, Rounds
  <2>2. chain[rows[f].id].for = f
    BY <1>3 DEF IInv, Expected
  <2>3. rows[f].id = e.round
    BY <1>2, <2>1, <2>2 DEF IInv, Creations
  <2> QED BY <1>1, <1>2, <1>3, <2>3 DEF IInv, Numbered
<1>5. rows[f].status = "OPEN"
  BY <1>3, <1>4 DEF IInv, Numbered
<1> QED BY <1>3, <1>4, <1>5, Domains DEF IInv, Waiting

LEMMA HearingBegins ==
  ASSUME IInv, FollowInv, UNCHANGED <<rows, chain, orderly>>,
         events # <<>>, events' = Tail(events), NEW e, e = Head(events),
         NEW c \in Calls, NEW call, Begin(c, call),
         call.pc = "status" =>
           /\ call.round = e.round
           /\ \/ e.type = "HarvestDistributed" /\ call.status # "ACTIVE"
              \/ e.type = "CapitalUnlocked",
         (e.type = "RoundCreated" /\ chain[e.round].for # 0) =>
           call.pc = "link" /\ call.round = e.round,
         e.type = "CapitalUnlocked" =>
           call.pc = "status" /\ call.round = e.round /\ call.status = "ACTIVE",
         e.type = "HarvestDistributed" =>
           call.pc = "status" /\ call.round = e.round /\ call.status = "DISTRIBUTING"
  PROVE  FollowInv'
<1>1. calls' = [calls EXCEPT ![c] = call] /\ (calm' => Quiet) /\ (calm' => calm)
  BY DEF Begin
<1>2. call \in Handlers' /\ \A x \in Handlers' : x = call \/ x \in Handlers
  BY <1>1 DEF IInv, TypeOK, Handlers
<1>3. calm' => \A x \in Handlers : x.pc = "idle"
  BY <1>1, IdleFacts DEF Quiet, Handlers
<1>4. UNCHANGED rows /\ UNCHANGED chain /\ (orderly' => orderly)
  OBVIOUS
<1>5. /\ call.pc = "link" => Linking(call.round)'
      /\ call.pc = "status" => Writing(call.status, call.round)'
  BY <1>2 DEF Linking, Writing
<1>6. orderly' /\ calm' =>
           /\ e.type = "RoundCreated" /\ chain[e.round].for # 0 => Linking(e.round)'
           /\ e.type = "CapitalUnlocked" => Writing("ACTIVE", e.round)'
           /\ e.type = "HarvestDistributed" => Writing("DISTRIBUTING", e.round)'
  BY <1>5
<1>7. calm' => \A x \in Handlers : x.pc \in {"link", "status"} =>
           x \in Handlers' /\ e.type \notin StatusEvents
  BY <1>3
<1>8. calm' => \A x \in Handlers' : x.pc = "status" =>
           \/ x \in Handlers
           \/ x.round = e.round /\ (\/ e.type = "HarvestDistributed" /\ x.status # "ACTIVE"
                                    \/ e.type = "CapitalUnlocked")
  BY <1>2
<1> QED BY <1>1, <1>4, <1>6, <1>7, <1>8, HearingStep

LEMMA FollowHeard ==
  ASSUME IInv, FollowInv, NEW c \in Calls,
         \/ RoundCreated(c) \/ SharesPurchased(c) \/ CapitalUnlocked(c) \/ HarvestDistributed(c)
  PROVE  FollowInv'
<1> PICK e : e = Head(events)
  OBVIOUS
<1>1. UNCHANGED <<rows, chain, orderly>>
  BY DEF RoundCreated, SharesPurchased, CapitalUnlocked, HarvestDistributed, contract
\* Nothing begins, and nothing was to.
<1>2. ASSUME UNCHANGED <<calls, calm>>, events # <<>>, events' = Tail(events),
             e.type \notin StatusEvents,
             orderly => ~(e.type = "RoundCreated" /\ chain[e.round].for # 0)
      PROVE  FollowInv'
  <2>1. UNCHANGED rows /\ UNCHANGED chain /\ (orderly' => orderly) /\ (calm' => calm)
    BY <1>1, <1>2
  <2>2. Handlers' = Handlers
    BY <1>2 DEF Handlers
  <2>3. e.type # "CapitalUnlocked" /\ e.type # "HarvestDistributed"
    BY <1>2 DEF StatusEvents
  <2>4. orderly' /\ calm' =>
           /\ e.type = "RoundCreated" /\ chain[e.round].for # 0 => Linking(e.round)'
           /\ e.type = "CapitalUnlocked" => Writing("ACTIVE", e.round)'
           /\ e.type = "HarvestDistributed" => Writing("DISTRIBUTING", e.round)'
    BY <1>2, <2>1, <2>3
  <2>5. calm' => \A x \in Handlers' : x.pc = "status" =>
           \/ x \in Handlers
           \/ x.round = e.round /\ (\/ e.type = "HarvestDistributed" /\ x.status # "ACTIVE"
                                    \/ e.type = "CapitalUnlocked")
    BY <2>2
  <2>6. calm' => \A x \in Handlers : x.pc \in {"link", "status"} =>
           x \in Handlers' /\ e.type \notin StatusEvents
    BY <1>2, <2>2
  <2> QED BY <1>2, <2>1, <2>4, <2>5, <2>6, HearingStep
<1>3. CASE RoundCreated(c)
  <2>1. Heard("RoundCreated") /\ e.type = "RoundCreated"
        /\ events # <<>> /\ events' = Tail(events)
    BY <1>3 DEF RoundCreated, Heard
  <2>2. CASE Waiting(e.crop) = {}
    <3>1. UNCHANGED <<calls, calm>>
      BY <1>3, <2>2 DEF RoundCreated
    <3>2. orderly => ~(e.type = "RoundCreated" /\ chain[e.round].for # 0)
      BY <2>1, <2>2, Awaited
    <3> QED BY <1>2, <2>1, <3>1, <3>2 DEF StatusEvents
  <2>3. CASE Waiting(e.crop) # {}
    <3> PICK call : call = [Idle EXCEPT !.pc = "link", !.round = e.round,
                                        !.row = Placeholder(e.crop)]
      OBVIOUS
    <3>1. Begin(c, call)
      BY <1>3, <2>3 DEF RoundCreated
    <3>2. call.pc = "link" /\ call.round = e.round
      BY DEF Idle
    <3> QED BY <1>1, <2>1, <3>1, <3>2, HearingBegins
  <2> QED BY <2>2, <2>3
<1>4. CASE SharesPurchased(c)
  <2>1. e.type = "SharesPurchased" /\ events # <<>> /\ events' = Tail(events)
    BY <1>4 DEF SharesPurchased, Heard
  <2>2. CASE Of(e.round) = {}
    <3>1. UNCHANGED <<calls, calm>>
      BY <1>4, <2>2 DEF SharesPurchased
    <3> QED BY <1>2, <2>1, <3>1 DEF StatusEvents
  <2>3. CASE Of(e.round) # {}
    <3>1. PICK i \in Of(e.round) :
            Begin(c, [Idle EXCEPT !.pc = "shares", !.row = i, !.round = e.first,
                                  !.count = e.last - e.first + 1])
      BY <1>4, <2>3 DEF SharesPurchased
    <3> PICK call : call = [Idle EXCEPT !.pc = "shares", !.row = i, !.round = e.first,
                                        !.count = e.last - e.first + 1]
      OBVIOUS
    <3>2. call.pc = "shares"
      BY DEF Idle
    <3> QED BY <1>1, <2>1, <3>1, <3>2, HearingBegins
  <2> QED BY <2>2, <2>3
<1>5. CASE CapitalUnlocked(c)
  <2>1. e.type = "CapitalUnlocked" /\ events # <<>> /\ events' = Tail(events)
    BY <1>5 DEF CapitalUnlocked, Heard
  <2> PICK call : call = [Idle EXCEPT !.pc = "status", !.round = e.round, !.status = "ACTIVE"]
    OBVIOUS
  <2>2. Begin(c, call)
    BY <1>5 DEF CapitalUnlocked
  <2>3. call.pc = "status" /\ call.round = e.round /\ call.status = "ACTIVE"
    BY DEF Idle
  <2> QED BY <1>1, <2>1, <2>2, <2>3, HearingBegins
<1>6. CASE HarvestDistributed(c)
  <2>1. e.type = "HarvestDistributed" /\ events # <<>> /\ events' = Tail(events)
    BY <1>6 DEF HarvestDistributed, Heard
  <2> PICK call : call = [Idle EXCEPT !.pc = "status", !.round = e.round,
                                      !.status = "DISTRIBUTING"]
    OBVIOUS
  <2>2. Begin(c, call)
    BY <1>6 DEF HarvestDistributed
  <2>3. call.pc = "status" /\ call.round = e.round /\ call.status = "DISTRIBUTING"
    BY DEF Idle
  <2> QED BY <1>1, <2>1, <2>2, <2>3, HearingBegins
<1> QED BY <1>3, <1>4, <1>5, <1>6

\* The steps in which the listener has no part.
LEMMA FollowAside ==
  ASSUME IInv, FollowInv,
         \/ \E i \in creating : createRoundFails(i)
         \/ \E crop \in Crops : createRound(crop)
         \/ \E c \in Calls :
              \/ \E i \in Rows :
                   (\E k \in 1..Shares : investInRound(c, i, k)) \/ distributeHarvest(c, i)
              \/ createNfts(c) \/ countShares(c) \/ distributing(c)
              \/ findPlaceholders(c) \/ assignToken(c) \/ throws(c)
         \/ restart \/ UNCHANGED vars
  PROVE  FollowInv'
<1>0. /\ Len(rows) \in Nat /\ rows \in Seq(RowType) /\ DOMAIN rows = Rows
      /\ \A i \in Rows : rows[i] \in RowType
  BY Domains DEF IInv, TypeOK, Rows
<1>1. ASSUME orderly' => orderly, calm' => calm, UNCHANGED events, UNCHANGED chain, UNCHANGED calls,
             \A i \in Rows : rows'[i] = rows[i]
      PROVE  FollowInv'
  <2>1. calm' => \A x : x.pc \in {"link", "status"} => (x \in Handlers' <=> x \in Handlers)
    BY <1>1 DEF Handlers
  <2> QED BY <1>1, <2>1, AsideStep
<1>2. ASSUME UNCHANGED <<events, chain, orderly>>, calm' => calm,
             NEW c \in Calls, NEW call, calls' = [calls EXCEPT ![c] = call],
             calm' => calls[c].pc \notin {"link", "status"} /\ call.pc \notin {"link", "status"},
             \A i \in Rows : /\ rows'[i].id = rows[i].id
                             /\ rows[i].status # "OPEN" => rows'[i].status # "OPEN"
                             /\ rows[i].status = "DISTRIBUTING" => rows'[i].status = "DISTRIBUTING"
      PROVE  FollowInv'
  <2>1. calls'[c] = call /\ \A d \in Calls : d # c => calls'[d] = calls[d]
    BY <1>2 DEF IInv, TypeOK
  <2>2. calm' => \A x : x.pc \in {"link", "status"} => (x \in Handlers' <=> x \in Handlers)
    BY <1>2, <2>1 DEF Handlers
  <2>3. UNCHANGED events /\ UNCHANGED chain /\ (orderly' => orderly)
    BY <1>2
  <2> QED BY <1>2, <2>2, <2>3, AsideStep
<1>3. ASSUME NEW i \in creating, createRoundFails(i)
      PROVE  FollowInv'
  BY <1>1, <1>3 DEF createRoundFails, contract
<1>4. ASSUME NEW crop \in Crops, createRound(crop)
      PROVE  FollowInv'
  <2> PICK row : row = [id |-> 0, crop |-> crop, sold |-> 0, status |-> "OPEN",
                   asked |-> FALSE]
    OBVIOUS
  <2>1. row \in RowType
    BY DEF RowType, Status
  <2>2. rows' = Append(rows, row)
    BY <1>4 DEF createRound
  <2>3. \A i \in Rows : rows'[i] = rows[i]
    BY <1>0, <2>1, <2>2, AppendFacts DEF Rows
  <2> QED BY <1>1, <1>4, <2>3 DEF createRound, contract
<1>5. ASSUME NEW c \in Calls, NEW i \in Rows,
             (\E k \in 1..Shares : investInRound(c, i, k)) \/ distributeHarvest(c, i)
      PROVE  FollowInv'
  <2>1. UNCHANGED <<events, chain, orderly>> /\ UNCHANGED rows
    BY <1>5 DEF investInRound, distributeHarvest, contract
  <2>2. \E call : Begin(c, call) /\ call.pc \notin {"link", "status"}
    <3>1. ASSUME NEW k \in 1..Shares, investInRound(c, i, k)
          PROVE  \E call : Begin(c, call) /\ call.pc \notin {"link", "status"}
      <4> PICK call : call = [Idle EXCEPT !.pc = "nfts", !.row = i, !.count = k,
                                          !.sold = rows[i].sold]
        OBVIOUS
      <4>1. call.pc = "nfts"
        BY DEF Idle
      <4> QED BY <3>1, <4>1 DEF investInRound
    <3>2. ASSUME distributeHarvest(c, i)
          PROVE  \E call : Begin(c, call) /\ call.pc \notin {"link", "status"}
      <4> PICK call : call = [Idle EXCEPT !.pc = "distribute", !.row = i]
        OBVIOUS
      <4>1. call.pc = "distribute"
        BY DEF Idle
      <4> QED BY <3>2, <4>1 DEF distributeHarvest
    <3> QED BY <1>5, <3>1, <3>2
  <2>3. PICK call : Begin(c, call) /\ call.pc \notin {"link", "status"}
    BY <2>2
  <2>4. calls[c].pc = "idle" /\ (calm' => calm) /\ calls' = [calls EXCEPT ![c] = call]
    BY <2>3, IdleFacts DEF Begin
  <2> QED BY <1>2, <2>1, <2>3, <2>4
<1>6. ASSUME NEW c \in Calls,
             createNfts(c) \/ countShares(c) \/ distributing(c)
               \/ findPlaceholders(c) \/ assignToken(c)
      PROVE  FollowInv'
  <2>1. UNCHANGED <<events, chain, orderly>> /\ (calm' => calm)
    BY <1>6 DEF createNfts, countShares, distributing, findPlaceholders, assignToken,
                contract, End
  <2>2. calls[c].pc \in {"nfts", "sold", "distribute", "shares", "tokens"}
        /\ calls[c] \in CallType /\ Handler(calls[c])
    BY <1>6 DEF createNfts, countShares, distributing, findPlaceholders, assignToken,
                IInv, TypeOK, Told, Handlers
  <2>3. \E call : calls' = [calls EXCEPT ![c] = call] /\ call.pc \notin {"link", "status"}
    <3>1. CASE End(c)
      BY <3>1, IdleFacts DEF End
    <3>2. CASE createNfts(c)
      <4> PICK call : call = [calls[c] EXCEPT !.pc = "sold"]
        OBVIOUS
      <4>1. calls' = [calls EXCEPT ![c] = call] /\ call.pc = "sold"
        BY <2>2, <3>2 DEF createNfts, CallType
      <4> QED BY <4>1
    <3>3. CASE findPlaceholders(c) /\ ~End(c)
      <4> PICK pairs : pairs = Assigned(calls[c].row, calls[c].round, calls[c].count)
        OBVIOUS
      <4> PICK call : call = [calls[c] EXCEPT !.pc = "tokens", !.pairs = pairs]
        OBVIOUS
      <4>1. calls' = [calls EXCEPT ![c].pc = "tokens", ![c].pairs = pairs]
        BY <3>3 DEF findPlaceholders
      <4>2. calls \in [Calls -> CallType]
        BY DEF IInv, TypeOK
      <4>3. calls' = [calls EXCEPT ![c] = call] /\ call.pc = "tokens"
        BY <2>2, <4>1, <4>2 DEF CallType
      <4> QED BY <4>3
    <3>4. CASE assignToken(c) /\ ~End(c)
      <4>1. PICK p \in calls[c].pairs : calls' = [calls EXCEPT ![c].pairs = @ \ {p}]
        BY <3>4 DEF assignToken
      <4> PICK call : call = [calls[c] EXCEPT !.pairs = @ \ {p}]
        OBVIOUS
      <4>2. calls' = [calls EXCEPT ![c] = call] /\ call.pc = "tokens"
        BY <2>2, <3>4, <4>1 DEF assignToken, CallType
      <4> QED BY <4>2
    <3> QED BY <1>6, <3>1, <3>2, <3>3, <3>4 DEF countShares, distributing
  <2>4. PICK call : calls' = [calls EXCEPT ![c] = call] /\ call.pc \notin {"link", "status"}
    BY <2>3
  <2>5. \A i \in Rows : /\ rows'[i].id = rows[i].id
                        /\ rows[i].status # "OPEN" => rows'[i].status # "OPEN"
                        /\ rows[i].status = "DISTRIBUTING" => rows'[i].status = "DISTRIBUTING"
    <3>1. CASE UNCHANGED rows
      BY <3>1
    <3> PICK j : j = calls[c].row
      OBVIOUS
    <3> TAKE i \in Rows
    <3>2. CASE countShares(c)
      <4>1. rows' = [rows EXCEPT ![j].sold = @ + calls[c].count]
        BY <3>2 DEF countShares
      <4> QED BY <1>0, <4>1 DEF RowType
    <3>3. CASE distributing(c)
      <4>1. rows' = [rows EXCEPT ![j].status = "DISTRIBUTING", ![j].asked = TRUE]
        BY <3>3 DEF distributing
      <4> QED BY <1>0, <4>1 DEF RowType
    <3> QED BY <1>6, <3>1, <3>2, <3>3 DEF createNfts, findPlaceholders, assignToken
  <2> QED BY <1>2, <2>1, <2>2, <2>4, <2>5
<1>7. ASSUME NEW c \in Calls, throws(c)
      PROVE  FollowInv'
  BY <1>7 DEF throws, FollowInv
<1>8. CASE restart
  <2> SUFFICES ASSUME calm' PROVE FollowInv'
    BY DEF FollowInv
  <2>1. UNCHANGED <<rows, chain, orderly>> /\ calm /\ Quiet /\ events = <<>> /\ events' = <<>>
        /\ calls' = [c \in Calls |-> Idle]
    BY <1>8 DEF restart, contract
  <2>2. calls' = calls
    BY <2>1 DEF Quiet, IInv, TypeOK
  <2> QED BY <1>1, <2>1, <2>2
<1>9. CASE UNCHANGED vars
  BY <1>1, <1>9 DEF vars
<1> QED BY <1>3, <1>4, <1>5, <1>6, <1>7, <1>8, <1>9

\* The steps with which a handler of the listener ends.
LEMMA FollowWritten ==
  ASSUME IInv, CalmInv, FollowInv, NEW c \in Calls, link(c) \/ writeStatus(c)
  PROVE  FollowInv'
<1> PICK call : call = calls[c]
  OBVIOUS
<1>1. /\ UNCHANGED events /\ UNCHANGED chain /\ UNCHANGED orderly /\ UNCHANGED calm
      /\ calls' = [calls EXCEPT ![c] = Idle] /\ call.pc \in {"link", "status"}
  BY DEF link, writeStatus, End, contract
<1> SUFFICES ASSUME orderly, calm PROVE Named' /\ Followed' /\ InOrder'
  BY <1>1 DEF FollowInv
<1>2. Named /\ Followed /\ InOrder
  BY DEF FollowInv
<1>3. /\ \A x \in Handlers : x = call \/ x = Idle
      /\ \A x \in Handlers' : x = Idle
      /\ call \in Handlers
  <2>1. call # Idle
    BY <1>1, IdleFacts
  <2>2. \A d \in Calls : d # c => calls[d] = Idle
    BY <2>1 DEF CalmInv, Alone
  <2> QED BY <1>1, <2>2, OneHandler
<1>4. /\ \A type, r : Pending(type, r)' <=> Pending(type, r)
      /\ Rounds' = Rounds
      /\ \A x \in Handlers' : x.pc = "idle"
  BY <1>1, <1>3, IdleFacts DEF Pending, Rounds
<1>5. \A r \in Rounds : chain[r].for # 0 => chain[r].for \in Rows
  BY DEF IInv, Creations
<1>6. InOrder'
  BY <1>1, <1>2, <1>4 DEF InOrder
<1>7. DOMAIN rows = Rows /\ rows \in Seq(RowType) /\ \A i \in Rows : rows[i] \in RowType
  BY Domains DEF IInv, TypeOK, Rows
<1>8. CASE link(c)
  <2> PICK i : i = call.row
    OBVIOUS
  <2> PICK r : r = call.round
    OBVIOUS
  <2>1. rows' = [rows EXCEPT ![i].id = r] /\ call.pc = "link"
    BY <1>8 DEF link
  <2>2. i \in Rows /\ r \in Rounds /\ chain[r].for = i
    BY <1>3, <2>1 DEF IInv, Told, Handler, Expected
  <2>3. /\ rows'[i].id = r
        /\ \A j \in Rows : rows'[j].status = rows[j].status
        /\ \A j \in Rows : j # i => rows'[j] = rows[j]
    BY <1>7, <2>1, <2>2 DEF RowType
  <2>4. ASSUME NEW q \in Rounds, chain[q].for # 0
        PROVE  rows'[chain[q].for].id = q \/ Pending("RoundCreated", q)
    <3>1. CASE q = r
      BY <2>2, <2>3, <3>1
    <3>2. CASE q # r
      <4>1. chain[q].for # i
        BY <2>2, <2>4, <3>2 DEF IInv, Creations
      <4>2. ~Linking(q)
        BY <1>3, <3>2, IdleFacts DEF Linking
      <4>3. rows[chain[q].for].id = q \/ Pending("RoundCreated", q)
        BY <1>2, <2>4, <4>2 DEF Named
      <4> QED BY <1>5, <2>3, <2>4, <4>1, <4>3
    <3> QED BY <3>1, <3>2
  <2>5. Named'
    BY <1>1, <1>4, <2>4 DEF Named
  <2>6. \A status, q : ~Writing(status, q)
    BY <1>3, <2>1, IdleFacts DEF Writing
  <2>7. Followed'
    BY <1>1, <1>2, <1>4, <1>5, <2>3, <2>6 DEF Followed
  <2> QED BY <1>6, <2>5, <2>7
<1>9. CASE writeStatus(c)
  <2> PICK r : r = call.round
    OBVIOUS
  <2> PICK status : status = call.status
    OBVIOUS
  <2>1. /\ call.pc = "status"
        /\ rows' = [i \in Rows |-> IF rows[i].id = r
                                   THEN [rows[i] EXCEPT !.status = status, !.asked = FALSE]
                                   ELSE rows[i]]
    BY <1>7, <1>9 DEF writeStatus
  <2>2. r \in Rounds /\ status \in {"ACTIVE", "DISTRIBUTING"}
    <3>1. call \in CallType
      BY DEF IInv, TypeOK
    <3>2. status \in {"OPEN", "ACTIVE", "DISTRIBUTING"} /\ r \in Rounds /\ status # "OPEN"
      BY <1>3, <2>1, <3>1 DEF CallType, Status, IInv, Told, Handler, Happened
    <3> QED BY <3>2
  <2>3. \A i \in Rows :
          /\ rows'[i].id = rows[i].id
          /\ rows[i].id = r => rows'[i].status = status
          /\ rows[i].id # r => rows'[i].status = rows[i].status
    BY <1>7, <2>1 DEF RowType
  <2>4. /\ \A q : ~Linking(q)
        /\ \A s, q : Writing(s, q) => s = status /\ q = r
    BY <1>3, <2>1, IdleFacts DEF Linking, Writing
  <2>5. Named'
    BY <1>1, <1>2, <1>4, <1>5, <2>3, <2>4 DEF Named
  <2>6. /\ ~Pending("RoundCreated", r)
        /\ (status = "ACTIVE" /\ chain[r].status = "DISTRIBUTING") =>
             Pending("HarvestDistributed", r)
    BY <1>2, <1>3, <2>1 DEF InOrder
  <2>7. chain[r].for # 0 => rows[chain[r].for].id = r
    BY <1>2, <2>2, <2>4, <2>6 DEF Named
  <2>8. ASSUME NEW q \in Rounds, chain[q].for # 0
        PROVE  /\ chain[q].status = "ACTIVE" =>
                    \/ rows'[chain[q].for].status # "OPEN"
                    \/ Pending("CapitalUnlocked", q)
               /\ chain[q].status = "DISTRIBUTING" =>
                    \/ rows'[chain[q].for].status = "DISTRIBUTING"
                    \/ Pending("HarvestDistributed", q)
    <3> PICK i : i = chain[q].for
      OBVIOUS
    <3>1. i \in Rows /\ i # 0
      BY <1>5, <2>8
    <3>2. rows[i].id = r => q = r
      <4> SUFFICES ASSUME rows[i].id = r PROVE q = r
        OBVIOUS
      <4>1. r # 0
        BY <2>2 DEF Rounds
      <4>2. chain[r].for = i
        BY <3>1, <4>1 DEF IInv, Expected
      <4> QED BY <2>2, <2>8, <4>2 DEF IInv, Creations
    <3>3. CASE q = r
      <4>1. rows'[i].status = status
        BY <2>3, <2>7, <2>8, <3>1, <3>3
      <4> QED BY <2>2, <2>6, <3>3, <4>1
    <3>4. CASE q # r
      <4>1. rows'[i].status = rows[i].status
        BY <2>3, <3>1, <3>2, <3>4
      <4>2. \A s : ~Writing(s, q)
        BY <2>4, <3>4
      <4> QED BY <1>2, <2>8, <4>1, <4>2 DEF Followed
    <3> QED BY <3>3, <3>4
  <2>9. Followed'
    BY <1>1, <1>4, <2>8 DEF Followed
  <2> QED BY <1>6, <2>5, <2>9
<1> QED BY <1>8, <1>9

LEMMA FollowStep ==
  ASSUME IInv, CalmInv, FollowInv, [Next]_vars
  PROVE  FollowInv'
<1>1. DOMAIN rows = Rows /\ DOMAIN chain = Rounds
  BY Domains DEF IInv
<1>2. CASE \/ \E i \in creating : mineCreateRound(i) \/ createRoundFails(i)
           \/ \E crop \in Crops : createRoundOutside(crop) \/ createRound(crop)
           \/ \E r \in Rounds :
                (\E k \in 1..Shares : invest(r, k)) \/ unlockCapital(r) \/ distributeOnChain(r)
  BY <1>2, FollowContract, FollowAside
<1>3. ASSUME NEW c \in Calls, NEW i \in Rows,
             (\E k \in 1..Shares : investInRound(c, i, k)) \/ distributeHarvest(c, i)
      PROVE  FollowInv'
  BY <1>3, FollowAside
<1>4. ASSUME NEW c \in Calls,
             \/ createNfts(c) \/ countShares(c) \/ distributing(c)
             \/ RoundCreated(c) \/ link(c)
             \/ SharesPurchased(c) \/ findPlaceholders(c) \/ assignToken(c)
             \/ CapitalUnlocked(c) \/ HarvestDistributed(c) \/ writeStatus(c)
             \/ throws(c)
      PROVE  FollowInv'
  <2>1. CASE RoundCreated(c) \/ SharesPurchased(c) \/ CapitalUnlocked(c) \/ HarvestDistributed(c)
    BY <2>1, FollowHeard
  <2>2. CASE link(c) \/ writeStatus(c)
    BY <2>2, FollowWritten
  <2>3. CASE \/ createNfts(c) \/ countShares(c) \/ distributing(c)
             \/ findPlaceholders(c) \/ assignToken(c) \/ throws(c)
    BY <2>3, FollowAside
  <2> QED BY <1>4, <2>1, <2>2, <2>3
<1>5. CASE restart \/ UNCHANGED vars
  BY <1>5, FollowAside
<1> QED BY <1>1, <1>2, <1>3, <1>4, <1>5 DEF Next

LEMMA Agrees == IInv /\ FollowInv => MirrorAgrees
<1> SUFFICES ASSUME IInv, FollowInv, orderly, calm, Quiet, events = <<>>,
                    NEW r \in DOMAIN chain, chain[r].for # 0, NEW row, row = rows[chain[r].for]
             PROVE  /\ row.id = r
                    /\ chain[r].status \in {"OPEN", "FUNDED"} => row.status = "OPEN"
                    /\ chain[r].status = "ACTIVE" => row.status = "ACTIVE" \/ row.asked
                    /\ chain[r].status = "DISTRIBUTING" => row.status = "DISTRIBUTING"
  BY DEF MirrorAgrees
<1>1. Named /\ Followed /\ r \in Rounds /\ r # 0
  BY Domains DEF IInv, FollowInv, Rounds
<1>2. \A type : ~Pending(type, r)
  BY DEF Pending
<1>3. ~Linking(r) /\ \A status : ~Writing(status, r)
  BY IdleFacts DEF Quiet, Handlers, Linking, Writing
<1>4. row.id = r
  BY <1>1, <1>2, <1>3 DEF Named
<1>5. /\ chain[r].status = "ACTIVE" => row.status # "OPEN"
      /\ chain[r].status = "DISTRIBUTING" => row.status = "DISTRIBUTING"
  BY <1>1, <1>2, <1>3 DEF Followed
<1>6. row.status \in Status /\ chain[r].status \in Reached(Claimed(row))
  <2>1. chain[r].for \in Rows
    BY <1>1 DEF IInv, Creations
  <2>2. row \in RowType
    BY <2>1 DEF IInv, TypeOK, Rows
  <2> QED BY <1>1, <1>4, <2>1, <2>2 DEF IInv, Expected, RowType
<1>7. /\ chain[r].status \in {"OPEN", "FUNDED"} => row.status = "OPEN"
      /\ chain[r].status = "ACTIVE" => row.status = "ACTIVE" \/ row.asked
  <2>1. CASE row.asked
    BY <1>6, <2>1 DEF Reached, Claimed
  <2>2. CASE ~row.asked
    BY <1>5, <1>6, <2>2 DEF Reached, Claimed, Status
  <2> QED BY <2>1, <2>2
<1> QED BY <1>4, <1>5, <1>7

\* As long as the rounds of a crop come one after another, handlers do not
\* overlap and no event is lost, a row has followed the contract once every
\* event has been heard.
THEOREM MirrorFollows == Spec => []MirrorAgrees
<1>1. Init => CalmInv /\ FollowInv
  <2> SUFFICES ASSUME Init PROVE CalmInv /\ FollowInv
    OBVIOUS
  <2>1. rows = <<>> /\ chain = <<>> /\ events = <<>> /\ calls = [c \in Calls |-> Idle]
    BY DEF Init
  <2>2. Rows = {} /\ Rounds = {} /\ 1..Len(events) = {} /\ \A x \in Handlers : x = Idle
    BY <2>1 DEF Rows, Rounds, Handlers
  <2>3. CalmInv
    BY <2>1, <2>2, IdleFacts DEF CalmInv, Alone, Counts
  <2>4. FollowInv
    BY <2>2, IdleFacts DEF FollowInv, Named, Followed, InOrder
  <2> QED BY <2>3, <2>4
<1> QED BY <1>1, Start, Step, CalmStep, FollowStep, Agrees, PTL DEF Spec
=============================================================================
