---------------------------- MODULE OutboxProofs ----------------------------
(***************************************************************************)
(* Proofs, for any receipts, workers, batch and number of faults, that a   *)
(* confirmed receipt is the one the contract recorded, that only a fault   *)
(* makes the worker send again, and that the outbox keeps the promise of   *)
(* ReceiptPublication.  They rest on the inductive invariant IInv.         *)
(***************************************************************************)
EXTENDS Outbox, FiniteSetTheorems, TLAPS

\* Two workers with loaded receipts are one: the advisory lock.
LEMMA OneHolder ==
    ASSUME TypeOK, NEW v \in Workers, NEW w \in Workers, todo[v] # {}, todo[w] # {}
    PROVE  v = w
  BY DEF TypeOK

\* A worker at a receipt has loaded it.
LEMMA AtLoaded ==
    ASSUME TypeOK, NEW w \in Workers, at[w] # Nobody
    PROVE  /\ at[w] \in Receipts
           /\ at[w] \in todo[w]
           /\ at[w] \in DOMAIN rows
           /\ rows[at[w]] \in Row
           /\ mine[w] \in Row
           /\ holder = w
  BY DEF TypeOK

-----------------------------------------------------------------------------
(***************************************************************************)
(* The end of a receipt's turn.                                            *)
(***************************************************************************)
\* What is saved keeps the shape of the table and of the session.
LEMMA SaveType ==
    ASSUME TypeOK, NEW w \in Workers, NEW row \in Row, at[w] # Nobody, Save(w, row)
    PROVE  /\ DOMAIN rows' = DOMAIN rows
           /\ rows' \in [DOMAIN rows -> Row]
           /\ holder' \in Workers \cup {Nobody}
           /\ todo' \in [Workers -> SUBSET DOMAIN rows]
           /\ at' \in [Workers -> Receipts \cup {Nobody}]
           /\ pc' \in [Workers -> {"read", "logs", "send", "receipt"}]
           /\ mine' \in [Workers -> Row]
           /\ \A v \in Workers : /\ todo'[v] # {} => holder' = v
                                 /\ at'[v] # Nobody => at'[v] \in todo'[v]
                                 /\ pc'[v] # "read" => at'[v] # Nobody
  <1>1. DOMAIN rows' = DOMAIN rows /\ rows' \in [DOMAIN rows -> Row]
    BY DEF TypeOK, Save
  <1>2. holder' \in Workers \cup {Nobody}
    BY DEF TypeOK, Save
  <1>3. /\ todo' \in [Workers -> SUBSET DOMAIN rows]
        /\ at' \in [Workers -> Receipts \cup {Nobody}]
        /\ pc' \in [Workers -> {"read", "logs", "send", "receipt"}]
    BY DEF TypeOK, Save
  <1>4. mine' \in [Workers -> Row]
    <2>1. NewRow \in Row
      BY DEF NewRow, Row, Status
    <2>2. QED
      BY <2>1 DEF TypeOK, Save
  <1>5. ASSUME NEW v \in Workers
        PROVE  /\ todo'[v] # {} => holder' = v
               /\ at'[v] # Nobody => at'[v] \in todo'[v]
               /\ pc'[v] # "read" => at'[v] # Nobody
    <2>1. CASE v = w
      <3>1. todo'[w] = todo[w] \ {at[w]} /\ at'[w] = Nobody /\ pc'[w] = "read"
        BY DEF TypeOK, Save
      <3>2. at[w] \in todo[w] /\ holder = w
        BY AtLoaded
      <3>3. todo'[w] # {} => holder' = w
        BY <3>1, <3>2 DEF Save
      <3>4. QED
        BY <2>1, <3>1, <3>3
    <2>2. CASE v # w
      <3>1. todo'[v] = todo[v] /\ at'[v] = at[v] /\ pc'[v] = pc[v]
        BY <2>2 DEF TypeOK, Save
      <3>2. todo[v] = {}
        BY <2>2, AtLoaded, OneHolder
      <3>3. QED
        BY <3>1, <3>2 DEF TypeOK
    <2>3. QED
      BY <2>1, <2>2
  <1>6. QED
    BY <1>1, <1>2, <1>3, <1>4, <1>5

\* The other receipts that are loaded stay unconfirmed, and no other worker is at one.
LEMMA SavePlace ==
    ASSUME TypeOK, PlaceSound, NEW w \in Workers, NEW row \in Row, at[w] # Nobody, Save(w, row)
    PROVE  PlaceSound'
  <1> SUFFICES ASSUME NEW v \in Workers
               PROVE  /\ \A r \in todo'[v] : rows'[r].status # "confirmed"
                      /\ at'[v] = Nobody
    BY DEF PlaceSound
  <1>1. CASE v = w
    <2>1. todo'[w] = todo[w] \ {at[w]} /\ at'[w] = Nobody
      BY DEF TypeOK, Save
    <2>2. \A r \in todo[w] \ {at[w]} : rows'[r] = rows[r]
      BY DEF TypeOK, Save
    <2>3. QED
      BY <1>1, <2>1, <2>2 DEF PlaceSound
  <1>2. CASE v # w
    <2>1. todo'[v] = todo[v] /\ at'[v] = at[v]
      BY <1>2 DEF TypeOK, Save
    <2>2. todo[v] = {}
      BY <1>2, AtLoaded, OneHolder
    <2>3. QED
      BY <2>1, <2>2 DEF TypeOK
  <1>3. QED
    BY <1>1, <1>2

\* What was known of a receipt's transactions is still known once it is saved.
LEMMA SaveKnown ==
    ASSUME TypeOK, PlaceSound, NEW w \in Workers, NEW row \in Row, at[w] # Nobody, Save(w, row),
           row.tx = mine[w].tx,
           NEW r \in Receipts, Known(r)
    PROVE  Known(r)'
  <1>1. DOMAIN rows' = DOMAIN rows /\ rows'[at[w]] = row /\ at[w] \in DOMAIN rows
    BY AtLoaded DEF TypeOK, Save
  <1>2. CASE r \in DOMAIN rows /\ rows[r].tx # 0
    <2>1. CASE r = at[w]
      BY <1>1, <1>2, <2>1 DEF Known, PlaceSound
    <2>2. CASE r # at[w]
      <3>1. rows'[r] = rows[r]
        BY <1>2, <2>2 DEF TypeOK, Save
      <3>2. QED
        BY <1>1, <1>2, <3>1 DEF Known
    <2>3. QED
      BY <2>1, <2>2
  <1>3. CASE \E v \in Workers : at[v] = r /\ mine[v].tx # 0
    <2>1. PICK v \in Workers : at[v] = r /\ mine[v].tx # 0
      BY <1>3
    <2>2. v = w
      BY <2>1, AtLoaded, OneHolder, OutboxAssumption
    <2>3. QED
      BY <1>1, <2>1, <2>2 DEF Known
  <1>4. QED
    BY <1>2, <1>3 DEF Known

-----------------------------------------------------------------------------
(***************************************************************************)
(* The chain.                                                              *)
(***************************************************************************)
\* A transaction sent is one more of its key's.
LEMMA AppendTransactions ==
    ASSUME sent \in Seq(Receipts), NEW key \in Receipts, sent' = Append(sent, key),
           NEW r \in Receipts
    PROVE  /\ Len(sent') = Len(sent) + 1
           /\ \A n \in 1 .. Len(sent) : sent'[n] = sent[n]
           /\ sent'[Len(sent) + 1] = key
           /\ Transactions(r)' = IF r = key THEN Transactions(r) \cup {Len(sent) + 1}
                                            ELSE Transactions(r)
  <1>1. /\ Len(sent') = Len(sent) + 1
        /\ \A n \in 1 .. Len(sent) : sent'[n] = sent[n]
        /\ sent'[Len(sent) + 1] = key
    OBVIOUS
  <1>2. Len(sent) \in Nat
    OBVIOUS
  <1>3. 1 .. Len(sent') = 1 .. Len(sent) \cup {Len(sent) + 1}
    BY <1>1, <1>2
  <1>4. QED
    BY <1>1, <1>3 DEF Transactions

\* A key has finitely many transactions.
LEMMA TransactionsFinite ==
    ASSUME sent \in Seq(Receipts), NEW r \in Receipts
    PROVE  IsFiniteSet(Transactions(r)) /\ Cardinality(Transactions(r)) \in Nat
  <1>1. IsFiniteSet(1 .. Len(sent))
    <2>1. Len(sent) \in Nat
      OBVIOUS
    <2>2. QED
      BY <2>1, FS_Interval
  <1>2. Transactions(r) \subseteq 1 .. Len(sent)
    BY DEF Transactions
  <1>3. IsFiniteSet(Transactions(r))
    BY <1>1, <1>2, FS_Subset
  <1>4. QED
    BY <1>3, FS_CardinalityType

\* One more transaction of a key is one more to account for.
LEMMA AppendCounted ==
    ASSUME sent \in Seq(Receipts), NEW key \in Receipts, sent' = Append(sent, key),
           NEW r \in Receipts
    PROVE  /\ Cardinality(Transactions(r)) \in Nat
           /\ r = key => Cardinality(Transactions(r)') = Cardinality(Transactions(r)) + 1
           /\ r # key => Cardinality(Transactions(r)') = Cardinality(Transactions(r))
  <1>1. Len(sent) + 1 \notin Transactions(r)
    <2>1. Len(sent) \in Nat
      OBVIOUS
    <2>2. QED
      BY <2>1 DEF Transactions
  <1>2. IsFiniteSet(Transactions(r)) /\ Cardinality(Transactions(r)) \in Nat
    BY TransactionsFinite
  <1>3. ASSUME r = key
        PROVE  Cardinality(Transactions(r)') = Cardinality(Transactions(r)) + 1
    <2>1. Transactions(r)' = Transactions(r) \cup {Len(sent) + 1}
      BY <1>3, AppendTransactions
    <2>2. Cardinality(Transactions(r) \cup {Len(sent) + 1}) = Cardinality(Transactions(r)) + 1
      BY <1>1, <1>2, FS_AddElement
    <2>3. QED
      BY <2>1, <2>2
  <1>4. ASSUME r # key
        PROVE  Cardinality(Transactions(r)') = Cardinality(Transactions(r))
    <2>1. Transactions(r)' = Transactions(r)
      BY <1>4, AppendTransactions
    <2>2. QED
      BY <2>1
  <1>5. QED
    BY <1>2, <1>3, <1>4

\* What holds of the chain when nothing is sent or mined.
LEMMA SameChain ==
    ASSUME ChainSound, UNCHANGED chain, DOMAIN rows \subseteq DOMAIN rows'
    PROVE  ChainSound' /\ \A r \in Receipts : Transactions(r)' = Transactions(r)
  <1>1. \A r \in Receipts : Transactions(r)' = Transactions(r)
    BY DEF chain, Transactions
  <1>2. QED
    BY <1>1 DEF chain, ChainSound

\* What holds of the chain when the worker sends a transaction of an issued receipt.
LEMMA LongerChain ==
    ASSUME TypeOK, ChainSound, NEW key \in DOMAIN rows, sent' = Append(sent, key),
           UNCHANGED <<height, store>>, DOMAIN rows' = DOMAIN rows
    PROVE  /\ ChainSound'
           /\ sent' \in Seq(Receipts) /\ height' \in 0 .. Len(sent')
           /\ \A r \in Receipts : Transactions(r) \subseteq Transactions(r)'
  <1>1. sent \in Seq(Receipts) /\ key \in Receipts /\ Len(sent) \in Nat
    BY DEF TypeOK
  <1>2. /\ Len(sent') = Len(sent) + 1
        /\ \A n \in 1 .. Len(sent) : sent'[n] = sent[n]
        /\ sent'[Len(sent) + 1] = key
    BY <1>1, AppendTransactions
  <1>3. \A r \in Receipts : Transactions(r) \subseteq Transactions(r)'
    BY <1>1, AppendTransactions
  <1>4. \A n \in 1 .. Len(sent') : sent'[n] \in DOMAIN rows'
    BY <1>1, <1>2 DEF ChainSound
  <1>5. \A r \in Receipts : store'[r] # 0 => store'[r] \in Transactions(r)' /\ store'[r] <= height'
    BY <1>3 DEF ChainSound
  <1>6. sent' \in Seq(Receipts) /\ height' \in 0 .. Len(sent')
    BY <1>1, <1>2 DEF TypeOK
  <1>7. QED
    BY <1>3, <1>4, <1>5, <1>6 DEF ChainSound

\* Confirmed receipts stay as they were when no receipt is confirmed.
LEMMA ConfirmedKept ==
    ASSUME ConfirmedIsRecorded, UNCHANGED <<height, store>>,
           \A r \in Receipts : Transactions(r) \subseteq Transactions(r)',
           \A r \in Receipts : IsConfirmed(r)' => IsConfirmed(r) /\ rows'[r] = rows[r]
    PROVE  ConfirmedIsRecorded'
  BY DEF ConfirmedIsRecorded

\* The count of a receipt's transactions when none is sent.
LEMMA CountKept ==
    ASSUME TypeOK, SendsCounted, \A r \in Receipts : Transactions(r)' = Transactions(r),
           UNCHANGED faults, \A r \in Receipts : Known(r) => Known(r)'
    PROVE  SendsCounted'
  <1>1. \A r \in Receipts : Cardinality(Transactions(r)) \in Nat
    BY TransactionsFinite DEF TypeOK
  <1>2. faults \in Nat
    BY OutboxAssumption DEF TypeOK
  <1>3. QED
    BY <1>1, <1>2 DEF SendsCounted

\* A step that issues, records and confirms nothing is a stutter of ReceiptPublication.
LEMMA SamePublication ==
    ASSUME DOMAIN rows' = DOMAIN rows, UNCHANGED store,
           \A r \in Receipts : IsConfirmed(r)' <=> IsConfirmed(r)
    PROVE  UNCHANGED P!vars
  BY DEF P!vars

-----------------------------------------------------------------------------
(***************************************************************************)
(* Steps that change neither the table nor the chain.                      *)
(***************************************************************************)
\* The invariant's parts that speak of the table and the chain.
LEMMA SessionStep ==
    ASSUME IInv, UNCHANGED <<rows, chain, faults>>, TypeOK', PlaceSound',
           \A r \in Receipts : Known(r) => Known(r)'
    PROVE  IInv' /\ UNCHANGED P!vars
  <1>1. TypeOK /\ ChainSound /\ SendsCounted /\ ConfirmedIsRecorded
    BY DEF IInv
  <1>2. ChainSound' /\ \A r \in Receipts : Transactions(r)' = Transactions(r)
    BY <1>1, SameChain
  <1>3. \A r \in Receipts : IsConfirmed(r)' <=> IsConfirmed(r)
    BY DEF IsConfirmed
  <1>4. UNCHANGED <<height, store, sent>>
    BY DEF chain
  <1>5. ConfirmedIsRecorded'
    BY <1>1, <1>2, <1>3, <1>4, ConfirmedKept
  <1>6. SendsCounted'
    BY <1>1, <1>2, CountKept
  <1>7. UNCHANGED P!vars
    BY <1>3, <1>4, SamePublication
  <1>8. QED
    BY <1>2, <1>5, <1>6, <1>7 DEF IInv

\* Taking the lock and loading the receipts keeps the invariant.
LEMMA StartCycleInv ==
    ASSUME IInv, NEW w \in Workers, StartCycle(w)
    PROVE  IInv' /\ UNCHANGED P!vars
  <1>1. TypeOK /\ PlaceSound
    BY DEF IInv
  <1>2. PICK batch \in SUBSET Unconfirmed : todo' = [todo EXCEPT ![w] = batch]
    BY DEF StartCycle
  <1>3. holder = Nobody /\ holder' = w /\ UNCHANGED <<rows, at, pc, mine, chain, up, faults>>
    BY DEF StartCycle, Elected
  <1>4. \A v \in Workers : todo[v] = {} /\ at[v] = Nobody /\ pc[v] = "read"
    BY <1>1, <1>3, OutboxAssumption DEF TypeOK
  <1>5. todo' \in [Workers -> SUBSET DOMAIN rows] /\ \A r \in batch : rows[r].status # "confirmed"
    BY <1>1, <1>2 DEF TypeOK, Unconfirmed
  <1>6. \A v \in Workers : todo'[v] = IF v = w THEN batch ELSE {}
    BY <1>1, <1>2, <1>4 DEF TypeOK
  <1>7. TypeOK'
    BY <1>1, <1>3, <1>4, <1>5, <1>6 DEF TypeOK, chain
  <1>8. PlaceSound'
    BY <1>3, <1>4, <1>5, <1>6 DEF PlaceSound
  <1>9. \A r \in Receipts : Known(r) => Known(r)'
    BY <1>3 DEF Known
  <1>10. QED
    BY <1>3, <1>7, <1>8, <1>9, SessionStep

\* Turning to the next loaded receipt keeps the invariant.
LEMMA TakeInv ==
    ASSUME IInv, NEW w \in Workers, NEW r \in Receipts, Take(w, r)
    PROVE  IInv' /\ UNCHANGED P!vars
  <1>1. TypeOK /\ PlaceSound
    BY DEF IInv
  <1>2. /\ r \in todo[w] /\ at[w] = Nobody
        /\ at' = [at EXCEPT ![w] = r] /\ mine' = [mine EXCEPT ![w] = rows[r]]
        /\ UNCHANGED <<rows, holder, todo, pc, chain, up, faults>>
    BY DEF Take
  <1>3. r \in DOMAIN rows /\ rows[r] \in Row /\ pc[w] = "read"
    BY <1>1, <1>2 DEF TypeOK
  <1>4. /\ at'[w] = r /\ mine'[w] = rows[r]
        /\ \A v \in Workers \ {w} : at'[v] = at[v] /\ mine'[v] = mine[v]
    BY <1>1, <1>2 DEF TypeOK
  <1>5. TypeOK'
    <2>1. at' \in [Workers -> Receipts \cup {Nobody}] /\ mine' \in [Workers -> Row]
      BY <1>1, <1>2, <1>3 DEF TypeOK
    <2>2. \A v \in Workers : /\ todo'[v] # {} => holder' = v
                             /\ at'[v] # Nobody => at'[v] \in todo'[v]
                             /\ pc'[v] # "read" => at'[v] # Nobody
      BY <1>1, <1>2, <1>3, <1>4 DEF TypeOK
    <2>3. QED
      BY <1>1, <1>2, <2>1, <2>2 DEF TypeOK, chain
  <1>6. PlaceSound'
    BY <1>1, <1>2, <1>3, <1>4 DEF PlaceSound, chain
  <1>7. \A x \in Receipts : Known(x) => Known(x)'
    <2>1. \A v \in Workers : at[v] # Nobody => at'[v] = at[v] /\ mine'[v] = mine[v]
      BY <1>2, <1>4
    <2>2. QED
      BY <1>2, <2>1, OutboxAssumption DEF Known
  <1>8. QED
    BY <1>2, <1>5, <1>6, <1>7, SessionStep

\* Reading the contract's commitment keeps the invariant.
LEMMA ReadInv ==
    ASSUME IInv, NEW w \in Workers, Read(w)
    PROVE  IInv' /\ UNCHANGED P!vars
  <1>1. TypeOK /\ PlaceSound
    BY DEF IInv
  <1>2. /\ at[w] # Nobody
        /\ pc' = [pc EXCEPT ![w] = IF mine[w].tx # 0 THEN "receipt"
                                   ELSE IF store[at[w]] # 0 THEN "logs" ELSE "send"]
        /\ UNCHANGED <<rows, holder, todo, at, mine, chain, up, faults>>
    BY DEF Read
  <1>3. /\ pc'[w] = IF mine[w].tx # 0 THEN "receipt"
                    ELSE IF store[at[w]] # 0 THEN "logs" ELSE "send"
        /\ \A v \in Workers \ {w} : pc'[v] = pc[v]
    BY <1>1, <1>2 DEF TypeOK
  <1>4. pc' \in [Workers -> {"read", "logs", "send", "receipt"}]
    BY <1>1, <1>2 DEF TypeOK
  <1>5. TypeOK'
    <2>1. \A v \in Workers : pc'[v] # "read" => at'[v] # Nobody
      BY <1>1, <1>2, <1>3 DEF TypeOK
    <2>2. QED
      BY <1>1, <1>2, <1>4, <2>1 DEF TypeOK, chain
  <1>6. PlaceSound'
    BY <1>1, <1>2, <1>3 DEF PlaceSound, chain
  <1>7. \A r \in Receipts : Known(r) => Known(r)'
    BY <1>2 DEF Known
  <1>8. QED
    BY <1>2, <1>5, <1>6, <1>7, SessionStep

\* Reading the contract's logs keeps the invariant.
LEMMA ReadLogsInv ==
    ASSUME IInv, NEW w \in Workers, ReadLogs(w)
    PROVE  IInv' /\ UNCHANGED P!vars
  <1>1. TypeOK /\ PlaceSound
    BY DEF IInv
  <1>2. /\ pc[w] = "logs"
        /\ mine' = [mine EXCEPT ![w].tx = store[at[w]]]
        /\ pc' = [pc EXCEPT ![w] = "receipt"]
        /\ UNCHANGED <<rows, holder, todo, at, chain, up, faults>>
    BY DEF ReadLogs
  <1>3. at[w] # Nobody /\ at[w] \in Receipts /\ store[at[w]] \in Nat \ {0}
    BY <1>1, <1>2 DEF TypeOK, PlaceSound
  <1>4. /\ mine'[w] = [mine[w] EXCEPT !.tx = store[at[w]]] /\ pc'[w] = "receipt"
        /\ \A v \in Workers \ {w} : mine'[v] = mine[v] /\ pc'[v] = pc[v]
    BY <1>1, <1>2 DEF TypeOK
  <1>5. mine[w] \in Row /\ mine'[w] \in Row /\ mine'[w].tx # 0 /\ mine'[w].status = mine[w].status
    <2>1. mine[w] \in Row
      BY <1>1 DEF TypeOK
    <2>2. QED
      BY <1>3, <1>4, <2>1 DEF Row
  <1>6. TypeOK'
    <2>1. mine' \in [Workers -> Row] /\ pc' \in [Workers -> {"read", "logs", "send", "receipt"}]
      BY <1>1, <1>2, <1>4, <1>5 DEF TypeOK
    <2>2. \A v \in Workers : pc'[v] # "read" => at'[v] # Nobody
      BY <1>1, <1>2, <1>3, <1>4 DEF TypeOK
    <2>3. QED
      BY <1>1, <1>2, <2>1, <2>2 DEF TypeOK, chain
  <1>7. PlaceSound'
    BY <1>1, <1>2, <1>3, <1>4, <1>5 DEF PlaceSound, chain
  <1>8. \A r \in Receipts : Known(r) => Known(r)'
    <2>1. \A v \in Workers : mine[v].tx # 0 => mine'[v].tx # 0
      BY <1>4, <1>5
    <2>2. QED
      BY <1>2, <2>1 DEF Known
  <1>9. QED
    BY <1>2, <1>6, <1>7, <1>8, SessionStep

-----------------------------------------------------------------------------
(***************************************************************************)
(* Steps that send.                                                        *)
(***************************************************************************)
LEMMA SendInv ==
    ASSUME IInv, NEW w \in Workers, Send(w)
    PROVE  IInv' /\ UNCHANGED P!vars
  <1>1. TypeOK /\ PlaceSound /\ ChainSound /\ SendsCounted /\ ConfirmedIsRecorded
    BY DEF IInv
  <1>2. /\ pc[w] = "send"
        /\ sent' = Append(sent, at[w])
        /\ mine' = [mine EXCEPT ![w].tx = Len(sent) + 1]
        /\ pc' = [pc EXCEPT ![w] = "receipt"]
        /\ UNCHANGED <<rows, holder, todo, at, height, store, up, faults>>
    BY DEF Send
  <1>3. at[w] # Nobody /\ at[w] \in DOMAIN rows /\ at[w] \in Receipts /\ mine[w].tx = 0
    BY <1>1, <1>2, AtLoaded DEF TypeOK, PlaceSound
  <1>4. sent \in Seq(Receipts) /\ Len(sent) + 1 \in Nat \ {0}
    BY <1>1 DEF TypeOK
  <1>5. /\ mine'[w] = [mine[w] EXCEPT !.tx = Len(sent) + 1] /\ pc'[w] = "receipt"
        /\ \A v \in Workers \ {w} : mine'[v] = mine[v] /\ pc'[v] = pc[v]
    BY <1>1, <1>2 DEF TypeOK
  <1>6. mine'[w] \in Row /\ mine'[w].tx # 0 /\ mine'[w].status = mine[w].status
    <2>1. mine[w] \in Row
      BY <1>1 DEF TypeOK
    <2>2. QED
      BY <1>4, <1>5, <2>1 DEF Row
  <1>7. /\ ChainSound'
        /\ sent' \in Seq(Receipts) /\ height' \in 0 .. Len(sent')
        /\ \A r \in Receipts : Transactions(r) \subseteq Transactions(r)'
    BY <1>1, <1>2, <1>3, LongerChain
  <1>8. TypeOK'
    <2>1. mine' \in [Workers -> Row] /\ pc' \in [Workers -> {"read", "logs", "send", "receipt"}]
      BY <1>1, <1>2, <1>5, <1>6 DEF TypeOK
    <2>2. \A v \in Workers : pc'[v] # "read" => at'[v] # Nobody
      BY <1>1, <1>2, <1>3, <1>5 DEF TypeOK
    <2>3. QED
      BY <1>1, <1>2, <1>7, <2>1, <2>2 DEF TypeOK
  <1>9. PlaceSound'
    BY <1>1, <1>2, <1>3, <1>5, <1>6 DEF PlaceSound
  <1>10. ~Known(at[w]) /\ Known(at[w])'
    <2>1. rows[at[w]].tx = 0
      BY <1>1, <1>3 DEF PlaceSound
    <2>2. \A v \in Workers : at[v] = at[w] => v = w
      BY <1>1, <1>3, AtLoaded, OneHolder
    <2>3. QED
      BY <1>2, <1>3, <1>6, <2>1, <2>2 DEF Known
  <1>11. \A r \in Receipts : Known(r) => Known(r)'
    <2>1. \A v \in Workers : mine[v].tx # 0 => mine'[v].tx # 0
      BY <1>5, <1>6
    <2>2. QED
      BY <1>2, <2>1 DEF Known
  <1>12. SendsCounted'
    <2> SUFFICES ASSUME NEW r \in Receipts
                 PROVE  Cardinality(Transactions(r)') <= faults' + (IF Known(r)' THEN 1 ELSE 0)
      BY DEF SendsCounted
    <2>1. /\ Cardinality(Transactions(r)) \in Nat
          /\ r = at[w] => Cardinality(Transactions(r)') = Cardinality(Transactions(r)) + 1
          /\ r # at[w] => Cardinality(Transactions(r)') = Cardinality(Transactions(r))
      BY <1>2, <1>3, <1>4, AppendCounted
    <2>2. faults \in Nat /\ faults' = faults
      BY <1>1, <1>2, OutboxAssumption DEF TypeOK
    <2>3. Cardinality(Transactions(r)) <= faults + (IF Known(r) THEN 1 ELSE 0)
      BY <1>1 DEF SendsCounted
    <2>4. CASE r = at[w]
      <3>1. ~Known(r) /\ Known(r)'
        BY <1>2, <1>10, <2>4
      <3>2. QED
        BY <2>1, <2>2, <2>3, <2>4, <3>1
    <2>5. CASE r # at[w]
      BY <1>11, <2>1, <2>2, <2>3, <2>5
    <2>6. QED
      BY <2>4, <2>5
  <1>13. \A r \in Receipts : (IsConfirmed(r)' <=> IsConfirmed(r)) /\ rows'[r] = rows[r]
    BY <1>2 DEF IsConfirmed
  <1>14. ConfirmedIsRecorded'
    BY <1>1, <1>2, <1>7, <1>13, ConfirmedKept
  <1>15. UNCHANGED P!vars
    BY <1>2, <1>13, SamePublication
  <1>16. QED
    BY <1>7, <1>8, <1>9, <1>12, <1>14, <1>15 DEF IInv

\* Saving a row that is not confirmed leaves the confirmed receipts alone.
LEMMA SaveUnconfirmed ==
    ASSUME TypeOK, PlaceSound, NEW w \in Workers, NEW row \in Row, at[w] # Nobody, Save(w, row),
           row.status # "confirmed"
    PROVE  \A r \in Receipts : /\ IsConfirmed(r)' <=> IsConfirmed(r)
                               /\ IsConfirmed(r)' => rows'[r] = rows[r]
  <1>1. at[w] \in DOMAIN rows /\ rows[at[w]].status # "confirmed"
    BY AtLoaded DEF PlaceSound
  <1>2. /\ DOMAIN rows' = DOMAIN rows /\ rows'[at[w]] = row
        /\ \A r \in DOMAIN rows \ {at[w]} : rows'[r] = rows[r]
    BY <1>1 DEF TypeOK, Save
  <1>3. QED
    BY <1>1, <1>2 DEF IsConfirmed

\* A transaction sent whose answer is lost keeps the invariant.
LEMMA SendTimesOutInv ==
    ASSUME IInv, NEW w \in Workers, SendTimesOut(w)
    PROVE  IInv' /\ UNCHANGED P!vars
  <1> DEFINE row == [mine[w] EXCEPT !.status = "pending"]
  <1>1. TypeOK /\ PlaceSound /\ ChainSound /\ SendsCounted /\ ConfirmedIsRecorded
    BY DEF IInv
  <1>2. /\ pc[w] = "send" /\ faults < MaxFaults /\ faults' = faults + 1
        /\ sent' = Append(sent, at[w]) /\ Save(w, row)
        /\ UNCHANGED <<height, store, up>>
    BY DEF SendTimesOut
  <1>3. at[w] # Nobody /\ at[w] \in DOMAIN rows /\ at[w] \in Receipts /\ mine[w] \in Row
    BY <1>1, <1>2, AtLoaded DEF TypeOK
  <1>4. row \in Row /\ row.tx = mine[w].tx /\ row.status # "confirmed"
    BY <1>3 DEF Row, Status
  <1>5. faults \in Nat /\ faults' \in 0 .. MaxFaults
    BY <1>1, <1>2, OutboxAssumption DEF TypeOK
  <1>6. DOMAIN rows' = DOMAIN rows
    BY <1>1, <1>2, <1>3, <1>4, SaveType
  <1>7. /\ ChainSound'
        /\ sent' \in Seq(Receipts) /\ height' \in 0 .. Len(sent')
        /\ \A r \in Receipts : Transactions(r) \subseteq Transactions(r)'
    BY <1>1, <1>2, <1>3, <1>6, LongerChain
  <1>8. TypeOK'
    <2> HIDE DEF row
    <2>1. store' \in [Receipts -> Nat] /\ up' \in BOOLEAN /\ DOMAIN rows' \subseteq Receipts
      BY <1>1, <1>2, <1>6 DEF TypeOK
    <2>2. QED
      BY <1>1, <1>2, <1>3, <1>4, <1>5, <1>6, <1>7, <2>1, SaveType DEF TypeOK
  <1>9. PlaceSound'
    BY <1>1, <1>2, <1>3, <1>4, SavePlace
  <1>10. \A r \in Receipts : Known(r) => Known(r)'
    BY <1>1, <1>2, <1>3, <1>4, SaveKnown
  <1>11. SendsCounted'
    <2> SUFFICES ASSUME NEW r \in Receipts
                 PROVE  Cardinality(Transactions(r)') <= faults' + (IF Known(r)' THEN 1 ELSE 0)
      BY DEF SendsCounted
    <2>1. sent \in Seq(Receipts)
      BY <1>1 DEF TypeOK
    <2>2. /\ Cardinality(Transactions(r)) \in Nat
          /\ r = at[w] => Cardinality(Transactions(r)') = Cardinality(Transactions(r)) + 1
          /\ r # at[w] => Cardinality(Transactions(r)') = Cardinality(Transactions(r))
      BY <1>2, <1>3, <2>1, AppendCounted
    <2>3. Cardinality(Transactions(r)) <= faults + (IF Known(r) THEN 1 ELSE 0)
      BY <1>1 DEF SendsCounted
    <2>4. QED
      BY <1>2, <1>5, <1>10, <2>2, <2>3
  <1>12. \A r \in Receipts : /\ IsConfirmed(r)' <=> IsConfirmed(r)
                             /\ IsConfirmed(r)' => rows'[r] = rows[r]
    BY <1>1, <1>2, <1>3, <1>4, SaveUnconfirmed
  <1>13. ConfirmedIsRecorded'
    BY <1>1, <1>2, <1>7, <1>12, ConfirmedKept
  <1>14. UNCHANGED P!vars
    BY <1>2, <1>6, <1>12, SamePublication
  <1>15. QED
    BY <1>7, <1>8, <1>9, <1>11, <1>13, <1>14 DEF IInv

-----------------------------------------------------------------------------
(***************************************************************************)
(* Steps that save.                                                        *)
(***************************************************************************)
\* The parts of the invariant that do not depend on what is saved.
LEMMA SaveInv ==
    ASSUME IInv, NEW w \in Workers, NEW row \in Row, at[w] # Nobody, Save(w, row),
           row.tx = mine[w].tx, UNCHANGED <<chain, up, faults>>
    PROVE  /\ TypeOK' /\ ChainSound' /\ PlaceSound' /\ SendsCounted'
           /\ DOMAIN rows' = DOMAIN rows
           /\ \A r \in Receipts : Transactions(r)' = Transactions(r)
  <1>1. TypeOK /\ PlaceSound /\ ChainSound /\ SendsCounted
    BY DEF IInv
  <1>2. DOMAIN rows' = DOMAIN rows
    BY <1>1, SaveType
  <1>3. ChainSound' /\ \A r \in Receipts : Transactions(r)' = Transactions(r)
    BY <1>1, <1>2, SameChain
  <1>4. TypeOK'
    <2>1. /\ sent' \in Seq(Receipts) /\ height' \in 0 .. Len(sent')
          /\ store' \in [Receipts -> Nat] /\ up' \in BOOLEAN /\ faults' \in 0 .. MaxFaults
          /\ DOMAIN rows' \subseteq Receipts
      BY <1>1, <1>2 DEF TypeOK, chain
    <2>2. QED
      BY <1>1, <1>2, <2>1, SaveType DEF TypeOK
  <1>5. PlaceSound'
    BY <1>1, SavePlace
  <1>6. \A r \in Receipts : Known(r) => Known(r)'
    BY <1>1, SaveKnown
  <1>7. SendsCounted'
    BY <1>1, <1>3, <1>6, CountKept
  <1>8. QED
    BY <1>2, <1>3, <1>4, <1>5, <1>7

\* A turn that ends without confirmation.
LEMMA SaveUnconfirmedInv ==
    ASSUME IInv, NEW w \in Workers, NEW row \in Row, at[w] # Nobody, Save(w, row),
           row.tx = mine[w].tx, row.status # "confirmed", UNCHANGED <<chain, up, faults>>
    PROVE  IInv' /\ UNCHANGED P!vars
  <1>1. TypeOK /\ PlaceSound /\ ConfirmedIsRecorded
    BY DEF IInv
  <1>2. /\ TypeOK' /\ ChainSound' /\ PlaceSound' /\ SendsCounted'
        /\ DOMAIN rows' = DOMAIN rows
        /\ \A r \in Receipts : Transactions(r)' = Transactions(r)
    BY SaveInv
  <1>3. \A r \in Receipts : /\ IsConfirmed(r)' <=> IsConfirmed(r)
                            /\ IsConfirmed(r)' => rows'[r] = rows[r]
    BY <1>1, SaveUnconfirmed
  <1>4. UNCHANGED <<height, store>>
    BY DEF chain
  <1>5. ConfirmedIsRecorded'
    BY <1>1, <1>2, <1>3, <1>4, ConfirmedKept
  <1>6. UNCHANGED P!vars
    BY <1>2, <1>3, <1>4, SamePublication
  <1>7. QED
    BY <1>2, <1>5, <1>6 DEF IInv

\* A turn that ends with confirmation: the session's transaction is the one the
\* contract recorded.
LEMMA SaveConfirmedInv ==
    ASSUME IInv, NEW w \in Workers, at[w] # Nobody, pc[w] = "receipt",
           Succeeded(at[w], mine[w].tx),
           Save(w, [mine[w] EXCEPT !.status = "confirmed", !.block = mine[w].tx]),
           UNCHANGED <<chain, up, faults>>
    PROVE  IInv' /\ P!Confirm(at[w])
  <1> DEFINE key == at[w]
             row == [mine[w] EXCEPT !.status = "confirmed", !.block = mine[w].tx]
  <1>1. TypeOK /\ PlaceSound /\ ChainSound /\ ConfirmedIsRecorded
    BY DEF IInv
  <1>2. /\ key \in Receipts /\ key \in DOMAIN rows /\ key \in todo[w] /\ mine[w] \in Row
    BY <1>1, AtLoaded
  <1>3. mine[w].tx # 0 /\ rows[key].status # "confirmed"
    BY <1>1, <1>2 DEF PlaceSound
  <1>4. /\ row \in Row /\ row.status = "confirmed" /\ row.tx = mine[w].tx
        /\ row.block = mine[w].tx
    BY <1>2 DEF Row, Status
  <1>5. Save(w, row)
    OBVIOUS
  <1> HIDE DEF row
  <1>6. /\ TypeOK' /\ ChainSound' /\ PlaceSound' /\ SendsCounted'
        /\ DOMAIN rows' = DOMAIN rows
        /\ \A r \in Receipts : Transactions(r)' = Transactions(r)
    BY <1>4, <1>5, SaveInv
  <1>7. /\ rows'[key] = row
        /\ \A r \in DOMAIN rows \ {key} : rows'[r] = rows[r]
    BY <1>1, <1>2, <1>5 DEF TypeOK, Save
  <1>8. UNCHANGED <<height, store>>
    BY DEF chain
  <1>9. store[key] = row.tx /\ row.tx # 0 /\ row.tx <= height /\ row.tx \in Transactions(key)
    <2>1. store[key] = row.tx /\ row.tx # 0 /\ row.tx <= height
      BY <1>3, <1>4 DEF Succeeded
    <2>2. QED
      BY <1>1, <1>2, <2>1 DEF ChainSound
  <1>10. ConfirmedIsRecorded'
    <2> SUFFICES ASSUME NEW r \in Receipts, IsConfirmed(r)'
                 PROVE  /\ rows'[r].tx \in Transactions(r)'
                        /\ store'[r] = rows'[r].tx
                        /\ rows'[r].block = rows'[r].tx
                        /\ rows'[r].block <= height'
      BY DEF ConfirmedIsRecorded
    <2>1. CASE r = key
      BY <1>2, <1>4, <1>6, <1>7, <1>8, <1>9, <2>1
    <2>2. CASE r # key
      <3>1. rows'[r] = rows[r] /\ IsConfirmed(r)
        BY <1>6, <1>7, <2>2 DEF IsConfirmed
      <3>2. QED
        BY <1>1, <1>6, <1>8, <3>1 DEF ConfirmedIsRecorded
    <2>3. QED
      BY <2>1, <2>2
  <1>11. P!Confirm(key)
    <2>1. \A r \in Receipts : IsConfirmed(r)' <=> (IsConfirmed(r) \/ r = key)
      BY <1>2, <1>4, <1>6, <1>7 DEF IsConfirmed
    <2>2. {r \in Receipts : IsConfirmed(r)}' = {r \in Receipts : IsConfirmed(r)} \cup {key}
      BY <1>2, <2>1
    <2>3. ~IsConfirmed(key) /\ store[key] # 0
      BY <1>3, <1>9 DEF IsConfirmed
    <2>4. QED
      BY <1>2, <1>6, <1>8, <2>2, <2>3 DEF P!Confirm
  <1>12. QED
    BY <1>6, <1>10, <1>11 DEF IInv

\* Reading a transaction's receipt keeps the invariant.
LEMMA ReadReceiptInv ==
    ASSUME IInv, NEW w \in Workers, ReadReceipt(w)
    PROVE  IInv' /\ [P!Next]_(P!vars)
  <1>1. /\ pc[w] = "receipt" /\ UNCHANGED <<chain, up, faults>>
        /\ at[w] # Nobody /\ at[w] \in Receipts /\ mine[w] \in Row
    BY AtLoaded DEF IInv, TypeOK, ReadReceipt
  <1>2. ASSUME NEW st \in {"submitted", "pending"}, Save(w, [mine[w] EXCEPT !.status = st])
        PROVE  IInv' /\ [P!Next]_(P!vars)
    <2> DEFINE row == [mine[w] EXCEPT !.status = st]
    <2>1. row \in Row /\ row.tx = mine[w].tx /\ row.status # "confirmed"
      BY <1>1 DEF Row, Status
    <2>2. Save(w, row)
      BY <1>2
    <2> HIDE DEF row
    <2>3. QED
      BY <1>1, <2>1, <2>2, SaveUnconfirmedInv
  <1>3. CASE mine[w].tx > height /\ Save(w, [mine[w] EXCEPT !.status = "submitted"])
    BY <1>2, <1>3
  <1>4. CASE /\ Succeeded(at[w], mine[w].tx)
             /\ Save(w, [mine[w] EXCEPT !.status = "confirmed", !.block = mine[w].tx])
    <2>1. IInv' /\ P!Confirm(at[w])
      BY <1>1, <1>4, SaveConfirmedInv
    <2>2. QED
      BY <1>1, <2>1 DEF P!Next
  <1>5. CASE /\ ~Succeeded(at[w], mine[w].tx)
             /\ Save(w, [mine[w] EXCEPT !.status = "pending"])
    BY <1>2, <1>5
  <1>6. QED
    BY <1>3, <1>4, <1>5 DEF ReadReceipt

\* A call that fails keeps the invariant.
LEMMA CallFailsInv ==
    ASSUME IInv, NEW w \in Workers, CallFails(w)
    PROVE  IInv' /\ UNCHANGED P!vars
  <1> DEFINE row == [mine[w] EXCEPT !.status = "pending"]
  <1>1. at[w] # Nobody /\ Save(w, row) /\ UNCHANGED <<chain, up, faults>>
    BY DEF CallFails
  <1>2. mine[w] \in Row
    BY DEF IInv, TypeOK
  <1>3. row \in Row /\ row.tx = mine[w].tx /\ row.status # "confirmed"
    BY <1>2 DEF Row, Status
  <1> HIDE DEF row
  <1>4. QED
    BY <1>1, <1>3, SaveUnconfirmedInv

-----------------------------------------------------------------------------
(***************************************************************************)
(* Crashes, the node and new receipts.                                     *)
(***************************************************************************)
LEMMA CrashInv ==
    ASSUME IInv, NEW w \in Workers, Crash(w)
    PROVE  IInv' /\ UNCHANGED P!vars
  <1>1. TypeOK /\ PlaceSound /\ ChainSound /\ SendsCounted /\ ConfirmedIsRecorded
    BY DEF IInv
  <1>2. /\ todo[w] # {} /\ faults < MaxFaults /\ faults' = faults + 1
        /\ sent' = sent \/ (pc[w] = "send" /\ sent' = Append(sent, at[w]))
        /\ todo' = [todo EXCEPT ![w] = {}] /\ at' = [at EXCEPT ![w] = Nobody]
        /\ pc' = [pc EXCEPT ![w] = "read"] /\ mine' = [mine EXCEPT ![w] = NewRow]
        /\ holder' = (IF holder = w THEN Nobody ELSE holder)
        /\ UNCHANGED <<rows, height, store, up>>
    BY DEF Crash
  <1>3. \A v \in Workers : todo'[v] = {} /\ at'[v] = Nobody /\ pc'[v] = "read"
    <2>1. \A v \in Workers \ {w} : todo[v] = {} /\ at[v] = Nobody /\ pc[v] = "read"
      BY <1>1, <1>2, OneHolder DEF TypeOK
    <2>2. QED
      BY <1>1, <1>2, <2>1 DEF TypeOK
  <1>4. sent \in Seq(Receipts) /\ faults \in Nat /\ faults' \in 0 .. MaxFaults
    BY <1>1, <1>2, OutboxAssumption DEF TypeOK
  <1>5. pc[w] = "send" => at[w] \in DOMAIN rows /\ at[w] \in Receipts
    BY <1>1, AtLoaded DEF TypeOK
  <1>6. /\ ChainSound'
        /\ sent' \in Seq(Receipts) /\ height' \in 0 .. Len(sent')
        /\ \A r \in Receipts : Transactions(r) \subseteq Transactions(r)'
    <2>1. CASE sent' = sent
      <3>1. UNCHANGED chain
        BY <1>2, <2>1 DEF chain
      <3>2. QED
        BY <1>1, <1>2, <2>1, <3>1, SameChain DEF TypeOK
    <2>2. CASE pc[w] = "send" /\ sent' = Append(sent, at[w])
      BY <1>1, <1>2, <1>5, <2>2, LongerChain
    <2>3. QED
      BY <1>2, <2>1, <2>2
  <1>7. TypeOK'
    <2>1. NewRow \in Row
      BY DEF NewRow, Row, Status
    <2>2. /\ todo' \in [Workers -> SUBSET DOMAIN rows'] /\ at' \in [Workers -> Receipts \cup {Nobody}]
          /\ pc' \in [Workers -> {"read", "logs", "send", "receipt"}] /\ mine' \in [Workers -> Row]
          /\ holder' \in Workers \cup {Nobody}
      BY <1>1, <1>2, <2>1 DEF TypeOK
    <2>3. QED
      BY <1>1, <1>2, <1>3, <1>4, <1>6, <2>2 DEF TypeOK
  <1>8. PlaceSound'
    BY <1>3 DEF PlaceSound
  <1>9. SendsCounted'
    <2> SUFFICES ASSUME NEW r \in Receipts
                 PROVE  Cardinality(Transactions(r)') <= faults' + (IF Known(r)' THEN 1 ELSE 0)
      BY DEF SendsCounted
    <2>1. Cardinality(Transactions(r)) \in Nat
      BY <1>4, TransactionsFinite
    <2>2. Cardinality(Transactions(r)) <= faults + (IF Known(r) THEN 1 ELSE 0)
      BY <1>1 DEF SendsCounted
    <2>3. CASE sent' = sent
      <3>1. Transactions(r)' = Transactions(r)
        BY <2>3 DEF Transactions
      <3>2. QED
        BY <1>2, <1>4, <2>1, <2>2, <3>1
    <2>4. CASE pc[w] = "send" /\ sent' = Append(sent, at[w])
      <3>1. /\ r = at[w] => Cardinality(Transactions(r)') = Cardinality(Transactions(r)) + 1
            /\ r # at[w] => Cardinality(Transactions(r)') = Cardinality(Transactions(r))
        BY <1>4, <1>5, <2>4, AppendCounted
      <3>2. r = at[w] => ~Known(r)
        <4>1. SUFFICES ASSUME r = at[w], Known(r)
                       PROVE  FALSE
          OBVIOUS
        <4>2. at[w] # Nobody /\ mine[w].tx = 0 /\ rows[at[w]].tx = 0
          BY <1>1, <2>4 DEF TypeOK, PlaceSound
        <4>3. PICK v \in Workers : at[v] = r /\ mine[v].tx # 0
          BY <4>1, <4>2 DEF Known
        <4>4. v = w
          BY <1>1, <4>1, <4>2, <4>3, AtLoaded, OneHolder
        <4>5. QED
          BY <4>2, <4>3, <4>4
      <3>3. QED
        BY <1>2, <1>4, <2>1, <2>2, <3>1, <3>2
    <2>5. QED
      BY <1>2, <2>3, <2>4
  <1>10. \A r \in Receipts : (IsConfirmed(r)' <=> IsConfirmed(r)) /\ rows'[r] = rows[r]
    BY <1>2 DEF IsConfirmed
  <1>11. ConfirmedIsRecorded'
    BY <1>1, <1>2, <1>6, <1>10, ConfirmedKept
  <1>12. UNCHANGED P!vars
    BY <1>2, <1>10, SamePublication
  <1>13. QED
    BY <1>6, <1>7, <1>8, <1>9, <1>11, <1>12 DEF IInv

\* The contract records a key once; a second transaction of it changes nothing.
LEMMA MineInv ==
    ASSUME IInv, Mine
    PROVE  IInv' /\ [P!Next]_(P!vars)
  <1> DEFINE key == sent[height + 1]
  <1>1. TypeOK /\ PlaceSound /\ ChainSound /\ SendsCounted /\ ConfirmedIsRecorded
    BY DEF IInv
  <1>2. /\ height < Len(sent) /\ height' = height + 1 /\ store' = Record(height + 1)
        /\ UNCHANGED <<rows, holder, session, sent, up, faults>>
    BY DEF Mine
  <1>3. UNCHANGED <<todo, at, pc, mine>>
    BY <1>2 DEF session
  <1>4. /\ Len(sent) \in Nat /\ height \in Nat /\ height' \in 1 .. Len(sent)
        /\ key \in DOMAIN rows /\ key \in Receipts
    BY <1>1, <1>2 DEF TypeOK, ChainSound
  <1>5. /\ store'[key] = IF store[key] = 0 THEN height + 1 ELSE store[key]
        /\ \A r \in Receipts \ {key} : store'[r] = store[r]
        /\ store' \in [Receipts -> Nat]
    BY <1>1, <1>2, <1>4 DEF TypeOK, Record
  <1>6. \A r \in Receipts : store[r] # 0 => store'[r] = store[r]
    BY <1>5
  <1>7. \A r \in Receipts : Transactions(r)' = Transactions(r)
    BY <1>2 DEF Transactions
  <1>8. TypeOK'
    <2>1. height' \in 0 .. Len(sent')
      BY <1>2, <1>4
    <2>2. QED
      BY <1>1, <1>2, <1>3, <1>5, <2>1 DEF TypeOK
  <1>9. ChainSound'
    <2>1. height + 1 \in Transactions(key)
      BY <1>2, <1>4 DEF Transactions
    <2>2. \A r \in Receipts : store'[r] # 0 => store'[r] \in Transactions(r)' /\ store'[r] <= height'
      <3> SUFFICES ASSUME NEW r \in Receipts, store'[r] # 0
                   PROVE  store'[r] \in Transactions(r) /\ store'[r] <= height + 1
        BY <1>2, <1>7
      <3>1. CASE store[r] # 0
        <4>1. store'[r] = store[r] /\ store[r] \in Nat /\ store[r] \in Transactions(r) /\ store[r] <= height
          BY <1>1, <1>6, <3>1 DEF ChainSound, TypeOK
        <4>2. QED
          BY <1>4, <4>1
      <3>2. CASE store[r] = 0
        <4>1. r = key /\ store'[r] = height + 1
          BY <1>5, <3>2
        <4>2. QED
          BY <1>4, <2>1, <4>1
      <3>3. QED
        BY <3>1, <3>2
    <2>3. QED
      BY <1>1, <1>2, <2>2 DEF ChainSound
  <1>10. PlaceSound'
    BY <1>1, <1>2, <1>3, <1>6 DEF PlaceSound, TypeOK
  <1>11. SendsCounted'
    <2>1. \A r \in Receipts : Known(r) => Known(r)'
      BY <1>2, <1>3 DEF Known
    <2>2. QED
      BY <1>1, <1>2, <1>7, <2>1, CountKept
  <1>12. ConfirmedIsRecorded'
    <2> SUFFICES ASSUME NEW r \in Receipts, IsConfirmed(r)'
                 PROVE  /\ rows'[r].tx \in Transactions(r)'
                        /\ store'[r] = rows'[r].tx
                        /\ rows'[r].block = rows'[r].tx
                        /\ rows'[r].block <= height'
      BY DEF ConfirmedIsRecorded
    <2>1. IsConfirmed(r) /\ rows[r] \in Row
      BY <1>1, <1>2 DEF IsConfirmed, TypeOK
    <2>2. /\ rows[r].tx \in Transactions(r) /\ store[r] = rows[r].tx
          /\ rows[r].block = rows[r].tx /\ rows[r].block <= height
      BY <1>1, <2>1 DEF ConfirmedIsRecorded
    <2>3. rows[r].tx \in Nat \ {0}
      BY <2>2 DEF Transactions
    <2>4. QED
      BY <1>2, <1>4, <1>6, <1>7, <2>2, <2>3
  <1>13. [P!Next]_(P!vars)
    <2>1. \A r \in Receipts : IsConfirmed(r)' <=> IsConfirmed(r)
      BY <1>2 DEF IsConfirmed
    <2>2. CASE store[key] # 0
      <3>1. store' = store
        BY <1>2, <2>2 DEF Record
      <3>2. DOMAIN rows' = DOMAIN rows /\ UNCHANGED store
        BY <1>2, <3>1
      <3>3. UNCHANGED P!vars
        BY <2>1, <3>2, SamePublication
      <3>4. QED
        BY <3>3
    <2>3. CASE store[key] = 0
      <3>1. \A r \in Receipts : store'[r] # 0 <=> (store[r] # 0 \/ r = key)
        BY <1>4, <1>5, <2>3
      <3>2. {r \in Receipts : store'[r] # 0} = {r \in Receipts : store[r] # 0} \cup {key}
        BY <1>4, <3>1
      <3>3. {r \in Receipts : IsConfirmed(r)}' = {r \in Receipts : IsConfirmed(r)}
        BY <2>1
      <3>4. PICK r \in Receipts : r = key
        BY <1>4
      <3>5. P!Record(r)
        BY <1>2, <1>4, <2>3, <3>2, <3>3, <3>4 DEF P!Record
      <3>6. QED
        BY <3>5 DEF P!Next
    <2>4. QED
      BY <2>2, <2>3
  <1>14. QED
    BY <1>8, <1>9, <1>10, <1>11, <1>12, <1>13 DEF IInv

\* A new receipt keeps the invariant.
LEMMA IssueInv ==
    ASSUME IInv, NEW key \in Receipts, Issue(key)
    PROVE  IInv' /\ P!Issue(key)
  <1>1. TypeOK /\ PlaceSound /\ ChainSound /\ SendsCounted /\ ConfirmedIsRecorded
    BY DEF IInv
  <1>2. /\ key \notin DOMAIN rows
        /\ rows' = [x \in DOMAIN rows \cup {key} |-> IF x = key THEN NewRow ELSE rows[x]]
        /\ UNCHANGED <<holder, session, chain, up, faults>>
    BY DEF Issue
  <1>3. UNCHANGED <<holder, todo, at, pc, mine, sent, height, store, up, faults>>
    BY <1>2 DEF session, chain
  <1>4. /\ DOMAIN rows' = DOMAIN rows \cup {key}
        /\ rows'[key] = NewRow
        /\ \A r \in DOMAIN rows : rows'[r] = rows[r]
    BY <1>2
  <1>5. NewRow \in Row /\ NewRow.tx = 0 /\ NewRow.status # "confirmed"
    BY DEF NewRow, Row, Status
  <1>6. TypeOK'
    <2>1. DOMAIN rows' \subseteq Receipts /\ rows' \in [DOMAIN rows' -> Row]
      BY <1>1, <1>2, <1>5 DEF TypeOK
    <2>2. todo' \in [Workers -> SUBSET DOMAIN rows']
      BY <1>1, <1>3, <1>4 DEF TypeOK
    <2>3. QED
      BY <1>1, <1>3, <2>1, <2>2 DEF TypeOK
  <1>7. ChainSound' /\ \A r \in Receipts : Transactions(r)' = Transactions(r)
    BY <1>1, <1>2, <1>4, SameChain
  <1>8. PlaceSound'
    <2> SUFFICES ASSUME NEW w \in Workers
                 PROVE  /\ \A r \in todo[w] : rows'[r].status # "confirmed"
                        /\ at[w] # Nobody =>
                            /\ mine[w].status # "confirmed"
                            /\ rows'[at[w]].tx # 0 => mine[w].tx # 0
                            /\ pc[w] = "logs" => store[at[w]] # 0
                            /\ pc[w] = "send" => mine[w].tx = 0
                            /\ pc[w] = "receipt" => mine[w].tx # 0
      BY <1>3 DEF PlaceSound
    <2>1. \A r \in todo[w] : rows'[r] = rows[r]
      BY <1>1, <1>4 DEF TypeOK
    <2>2. at[w] # Nobody => at[w] \in todo[w]
      BY <1>1 DEF TypeOK
    <2>3. QED
      BY <1>1, <2>1, <2>2 DEF PlaceSound
  <1>9. SendsCounted'
    <2>1. \A r \in Receipts : Known(r) => Known(r)'
      BY <1>3, <1>4 DEF Known
    <2>2. QED
      BY <1>1, <1>3, <1>7, <2>1, CountKept
  <1>10. \A r \in Receipts : /\ IsConfirmed(r)' <=> IsConfirmed(r)
                             /\ IsConfirmed(r)' => rows'[r] = rows[r]
    BY <1>4, <1>5 DEF IsConfirmed
  <1>11. ConfirmedIsRecorded'
    BY <1>1, <1>3, <1>7, <1>10, ConfirmedKept
  <1>12. P!Issue(key)
    <2>1. {r \in Receipts : IsConfirmed(r)}' = {r \in Receipts : IsConfirmed(r)}
      BY <1>10
    <2>2. QED
      BY <1>2, <1>3, <1>4, <2>1 DEF P!Issue
  <1>13. QED
    BY <1>6, <1>7, <1>8, <1>9, <1>11, <1>12 DEF IInv

\* The node stops or starts, or nothing happens.
LEMMA NodeInv ==
    ASSUME IInv, up' \in BOOLEAN, UNCHANGED <<rows, holder, session, chain, faults>>
    PROVE  IInv' /\ UNCHANGED P!vars
  <1>1. UNCHANGED <<todo, at, pc, mine>>
    BY DEF session
  <1>2. TypeOK'
    BY <1>1 DEF IInv, TypeOK, chain
  <1>3. PlaceSound'
    BY <1>1 DEF IInv, PlaceSound, chain
  <1>4. \A r \in Receipts : Known(r) => Known(r)'
    BY <1>1 DEF Known
  <1>5. QED
    BY <1>2, <1>3, <1>4, SessionStep

-----------------------------------------------------------------------------
\* The invariant holds of an empty outbox.
LEMMA InitInv ==
    ASSUME Init
    PROVE  IInv /\ P!Init
  <1>1. /\ DOMAIN rows = {} /\ rows \in [{} -> Row]
        /\ \A r \in Receipts : Transactions(r) = {} /\ ~IsConfirmed(r) /\ store[r] = 0
    BY DEF Init, Transactions, IsConfirmed
  <1>2. TypeOK
    <2>1. NewRow \in Row
      BY DEF NewRow, Row, Status
    <2>2. QED
      BY <1>1, <2>1, OutboxAssumption DEF Init, TypeOK
  <1>3. ChainSound
    BY <1>1 DEF Init, ChainSound
  <1>4. PlaceSound
    BY DEF Init, PlaceSound
  <1>5. SendsCounted
    <2>1. \A r \in Receipts : Cardinality(Transactions(r)) = 0
      BY <1>1, FS_EmptySet
    <2>2. faults = 0
      BY DEF Init
    <2>3. QED
      BY <2>1, <2>2 DEF SendsCounted
  <1>6. ConfirmedIsRecorded
    BY <1>1 DEF ConfirmedIsRecorded
  <1>7. P!Init
    BY <1>1 DEF P!Init
  <1>8. QED
    BY <1>2, <1>3, <1>4, <1>5, <1>6, <1>7 DEF IInv

\* Every step keeps the invariant.
LEMMA NextInv ==
    ASSUME IInv, [Next]_vars
    PROVE  IInv' /\ [P!Next]_(P!vars)
  <1>1. ASSUME NEW r \in Receipts, Issue(r)
        PROVE  IInv' /\ [P!Next]_(P!vars)
    BY <1>1, IssueInv DEF P!Next
  <1>2. ASSUME NEW w \in Workers, Publish(w)
        PROVE  IInv' /\ [P!Next]_(P!vars)
    BY <1>2, TakeInv, ReadInv, ReadLogsInv, SendInv, ReadReceiptInv, CallFailsInv DEF Publish
  <1>3. ASSUME NEW w \in Workers, StartCycle(w) \/ SendTimesOut(w) \/ Crash(w)
        PROVE  IInv' /\ [P!Next]_(P!vars)
    BY <1>3, StartCycleInv, SendTimesOutInv, CrashInv
  <1>4. CASE Mine
    BY <1>4, MineInv
  <1>5. CASE NodeStops \/ NodeStarts
    BY <1>5, NodeInv DEF NodeStops, NodeStarts
  <1>6. CASE UNCHANGED vars
    BY <1>6, NodeInv DEF vars, IInv, TypeOK
  <1>7. QED
    BY <1>1, <1>2, <1>3, <1>4, <1>5, <1>6 DEF Next

\* IInv holds in every reachable state.
THEOREM Inductive == Spec => []IInv
  <1>1. Init => IInv
    BY InitInv
  <1>2. IInv /\ [Next]_vars => IInv'
    BY NextInv
  <1>3. QED
    BY <1>1, <1>2, PTL DEF Spec

\* publish's session and the table keep their shape, and only the worker that holds
\* the advisory lock has receipts loaded.
THEOREM OutboxTyped == Spec => []TypeOK
  <1>1. IInv => TypeOK
    BY DEF IInv
  <1>2. QED
    BY <1>1, Inductive, PTL

\* What the database reports as confirmed is what the contract recorded, whatever was
\* retried, recovered from the logs or reverted before.
THEOREM ConfirmationIsTrue == Spec => []ConfirmedIsRecorded
  <1>1. IInv => ConfirmedIsRecorded
    BY DEF IInv
  <1>2. QED
    BY <1>1, Inductive, PTL

\* Two workers never send the same receipt, and one sends it again only when a crash or
\* a lost answer made it forget a transaction.
THEOREM SentAgainByFaultOnly == Spec => []SentAgainOnlyAfterFault
  <1>1. IInv => SentAgainOnlyAfterFault
    <2> SUFFICES ASSUME IInv, NEW r \in Receipts
                 PROVE  Cardinality(Transactions(r)) <= 1 + faults
      BY DEF SentAgainOnlyAfterFault
    <2>1. Cardinality(Transactions(r)) \in Nat /\ faults \in Nat
      BY TransactionsFinite, OutboxAssumption DEF IInv, TypeOK
    <2>2. Cardinality(Transactions(r)) <= faults + (IF Known(r) THEN 1 ELSE 0)
      BY DEF IInv, SendsCounted
    <2>3. QED
      BY <2>1, <2>2
  <1>2. QED
    BY <1>1, Inductive, PTL

\* The outbox implements ReceiptPublication: every step issues, records or confirms one
\* receipt as it may, or leaves all three as they are.
THEOREM OutboxKeepsPublication == Spec => PublicationKept
  <1>1. Init => P!Init
    BY InitInv
  <1>2. IInv /\ [Next]_vars => [P!Next]_(P!vars)
    BY NextInv
  <1>3. QED
    BY <1>1, <1>2, Inductive, PTL DEF Spec, P!Spec, PublicationKept
=============================================================================
