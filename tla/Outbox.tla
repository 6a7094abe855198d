------------------------------- MODULE Outbox -------------------------------
(***************************************************************************)
(* The outbox of blockchain receipts: a settlement commits a receipt job   *)
(* (workspace_service.py), the worker's cycle publishes what is not yet    *)
(* confirmed (workspace_worker.py, adapters/ledger/evm.py), and the        *)
(* contract ReceiptRegistry.sol records each key once.                     *)
(*                                                                         *)
(* Each API process has a worker; an advisory lock elects the one whose    *)
(* cycle runs.  A call to the node is a step, so calls, the node's mining, *)
(* crashes and lost answers interleave; deployment()'s calls and the first *)
(* read are one step, for they change nothing.                             *)
(*                                                                         *)
(* A transaction is its number in the order of the publisher's nonces; the *)
(* node mines in that order, and transaction n in block n.  A key and its  *)
(* digest are the receipt: the code never changes a payload once issued,   *)
(* so the conflict of evm.py:54 and the missing event of :69 cannot arise. *)
(***************************************************************************)
EXTENDS Integers, Sequences, FiniteSets

CONSTANTS
    Receipts,   \* receipts of settled trades
    Workers,    \* worker processes
    Nobody,     \* no worker, no receipt
    Batch,      \* unconfirmed receipts taken by a cycle: 10 in the code
    MaxFaults   \* bound on crashes and lost answers

ASSUME OutboxAssumption ==
    /\ Nobody \notin Receipts \cup Workers
    /\ Batch \in Nat \ {0}
    /\ MaxFaults \in Nat

VARIABLES
    rows,     \* the table blockchain_receipts
    holder,   \* the worker that holds the advisory lock
    todo,     \* todo[w]: receipts w's cycle loaded and has not finished
    at,       \* at[w]: the receipt w is publishing
    pc,       \* pc[w]: the call that w's publication makes next
    mine,     \* mine[w]: that receipt's row as changed in w's session
    sent,     \* transactions the node has accepted: sent[n] is the n-th's key
    height,   \* transactions 1 .. height are mined
    store,    \* the contract's map: the transaction that recorded a key, or 0
    up,       \* the node answers
    faults    \* crashes and lost answers so far

session == <<todo, at, pc, mine>>
chain   == <<sent, height, store>>
vars    == <<rows, holder, session, chain, up, faults>>

Status == {"pending", "submitted", "confirmed"}
Row == [status : Status, tx : Nat, block : Nat]   \* 0 stands for NULL
NewRow == [status |-> "pending", tx |-> 0, block |-> 0]

\* The shape of every variable; a worker publishes a receipt it has loaded, and only
\* the worker that holds the lock has loaded any.
TypeOK ==
    /\ DOMAIN rows \subseteq Receipts
    /\ rows \in [DOMAIN rows -> Row]
    /\ holder \in Workers \cup {Nobody}
    /\ todo \in [Workers -> SUBSET DOMAIN rows]
    /\ at \in [Workers -> Receipts \cup {Nobody}]
    /\ pc \in [Workers -> {"read", "logs", "send", "receipt"}]
    /\ mine \in [Workers -> Row]
    /\ \A w \in Workers : /\ todo[w] # {} => holder = w
                          /\ at[w] # Nobody => at[w] \in todo[w]
                          /\ pc[w] # "read" => at[w] # Nobody
    /\ sent \in Seq(Receipts)
    /\ height \in 0 .. Len(sent)
    /\ store \in [Receipts -> Nat]
    /\ up \in BOOLEAN
    /\ faults \in 0 .. MaxFaults

Init ==
    /\ rows = [r \in {} |-> NewRow]
    /\ holder = Nobody
    /\ todo = [w \in Workers |-> {}]
    /\ at = [w \in Workers |-> Nobody]
    /\ pc = [w \in Workers |-> "read"]
    /\ mine = [w \in Workers |-> NewRow]
    /\ sent = <<>>
    /\ height = 0
    /\ store = [r \in Receipts |-> 0]
    /\ up = TRUE
    /\ faults = 0

\* reconcile_due commits the job with its settlement.
Issue(r) ==
    /\ r \notin DOMAIN rows
    /\ rows' = [x \in DOMAIN rows \cup {r} |-> IF x = r THEN NewRow ELSE rows[x]]
    /\ UNCHANGED <<holder, session, chain, up, faults>>

-----------------------------------------------------------------------------
(***************************************************************************)
(* The worker's cycle.                                                     *)
(***************************************************************************)
\* Fault: confirmed receipts are taken too.
AnyRow == DOMAIN rows

\* Fault: a receipt once submitted is not looked at again.
StillPending == {r \in DOMAIN rows : rows[r].status = "pending"}

Unconfirmed == {r \in DOMAIN rows : rows[r].status # "confirmed"}

\* Fault: the advisory lock is not taken.
ElectedAlways(w) == TRUE

Elected(w) == holder = Nobody

\* cycle elects its process and loads a batch, in no order.
StartCycle(w) ==
    /\ Elected(w)
    /\ todo[w] = {}
    /\ holder' = w
    /\ \E batch \in SUBSET Unconfirmed :
        /\ batch # {}
        /\ Cardinality(batch) <= Batch
        /\ Cardinality(batch) < Batch => batch = Unconfirmed
        /\ todo' = [todo EXCEPT ![w] = batch]
    /\ UNCHANGED <<rows, at, pc, mine, chain, up, faults>>

\* The commit that ends each receipt's turn, and after the last one the unlock.
Save(w, row) ==
    /\ rows' = [rows EXCEPT ![at[w]] = row]
    /\ todo' = [todo EXCEPT ![w] = @ \ {at[w]}]
    /\ at' = [at EXCEPT ![w] = Nobody]
    /\ pc' = [pc EXCEPT ![w] = "read"]
    /\ mine' = [mine EXCEPT ![w] = NewRow]
    /\ holder' = IF todo[w] = {at[w]} /\ holder = w THEN Nobody ELSE holder

Take(w, r) ==
    /\ r \in todo[w]
    /\ at[w] = Nobody
    /\ at' = [at EXCEPT ![w] = r]
    /\ mine' = [mine EXCEPT ![w] = rows[r]]
    /\ UNCHANGED <<rows, holder, todo, pc, chain, up, faults>>

\* publish reads the contract and chooses how it gets a transaction hash.
Read(w) ==
    /\ up
    /\ at[w] # Nobody /\ pc[w] = "read"
    /\ pc' = [pc EXCEPT ![w] = IF mine[w].tx # 0 THEN "receipt"
                               ELSE IF store[at[w]] # 0 THEN "logs" ELSE "send"]
    /\ UNCHANGED <<rows, holder, todo, at, mine, chain, up, faults>>

\* eth_getLogs: the hash of the transaction that recorded the key.
ReadLogs(w) ==
    /\ up
    /\ pc[w] = "logs"
    /\ mine' = [mine EXCEPT ![w].tx = store[at[w]]]
    /\ pc' = [pc EXCEPT ![w] = "receipt"]
    /\ UNCHANGED <<rows, holder, todo, at, chain, up, faults>>

\* eth_sendTransaction.
Send(w) ==
    /\ up
    /\ pc[w] = "send"
    /\ sent' = Append(sent, at[w])
    /\ mine' = [mine EXCEPT ![w].tx = Len(sent) + 1]
    /\ pc' = [pc EXCEPT ![w] = "receipt"]
    /\ UNCHANGED <<rows, holder, todo, at, height, store, up, faults>>

\* The node has the transaction, but its answer does not come in time.
SendTimesOut(w) ==
    /\ up
    /\ pc[w] = "send"
    /\ faults < MaxFaults
    /\ faults' = faults + 1
    /\ sent' = Append(sent, at[w])
    /\ Save(w, [mine[w] EXCEPT !.status = "pending"])
    /\ UNCHANGED <<height, store, up>>

\* Fault: a transaction that was mined is taken as successful.
SucceededIfMined(r, tx) == tx <= height

\* The contract did not revert the transaction.
Succeeded(r, tx) == tx <= height /\ store[r] = tx

\* eth_getTransactionReceipt: not mined yet, mined, or reverted (which raises).
ReadReceipt(w) ==
    /\ up
    /\ pc[w] = "receipt"
    /\ \/ /\ mine[w].tx > height
          /\ Save(w, [mine[w] EXCEPT !.status = "submitted"])
       \/ /\ Succeeded(at[w], mine[w].tx)
          /\ Save(w, [mine[w] EXCEPT !.status = "confirmed", !.block = mine[w].tx])
       \/ /\ mine[w].tx <= height
          /\ ~Succeeded(at[w], mine[w].tx)
          /\ Save(w, [mine[w] EXCEPT !.status = "pending"])
    /\ UNCHANGED <<chain, up, faults>>

\* A call that the node does not answer raises: what publish changed so far is kept.
CallFails(w) ==
    /\ ~up
    /\ at[w] # Nobody
    /\ Save(w, [mine[w] EXCEPT !.status = "pending"])
    /\ UNCHANGED <<chain, up, faults>>

\* The process stops: its session and its lock are gone; a transaction it was sending
\* may have reached the node.
Crash(w) ==
    /\ todo[w] # {}
    /\ faults < MaxFaults
    /\ faults' = faults + 1
    /\ sent' \in {sent} \cup (IF pc[w] = "send" /\ up THEN {Append(sent, at[w])} ELSE {})
    /\ holder' = IF holder = w THEN Nobody ELSE holder
    /\ todo' = [todo EXCEPT ![w] = {}]
    /\ at' = [at EXCEPT ![w] = Nobody]
    /\ pc' = [pc EXCEPT ![w] = "read"]
    /\ mine' = [mine EXCEPT ![w] = NewRow]
    /\ UNCHANGED <<rows, height, store, up>>

-----------------------------------------------------------------------------
(***************************************************************************)
(* The node and its contract.                                              *)
(***************************************************************************)
\* ReceiptRegistry.record: a second record of a key reverts.
Record(tx) == IF store[sent[tx]] = 0 THEN [store EXCEPT ![sent[tx]] = tx] ELSE store

Mine ==
    /\ up
    /\ height < Len(sent)
    /\ height' = height + 1
    /\ store' = Record(height + 1)
    /\ UNCHANGED <<rows, holder, session, sent, up, faults>>

NodeStops == up /\ up' = FALSE /\ UNCHANGED <<rows, holder, session, chain, faults>>
NodeStarts == ~up /\ up' = TRUE /\ UNCHANGED <<rows, holder, session, chain, faults>>

-----------------------------------------------------------------------------
Publish(w) ==
    \/ \E r \in Receipts : Take(w, r)
    \/ Read(w)
    \/ ReadLogs(w)
    \/ Send(w)
    \/ ReadReceipt(w)
    \/ CallFails(w)

Next ==
    \/ \E r \in Receipts : Issue(r)
    \/ \E w \in Workers : StartCycle(w) \/ Publish(w) \/ SendTimesOut(w) \/ Crash(w)
    \/ Mine
    \/ NodeStops
    \/ NodeStarts

Spec == Init /\ [][Next]_vars

\* The node mines what it has accepted; run_worker starts a cycle every five seconds,
\* whatever the last one raised, and every call returns within its timeout.
FairSpec ==
    /\ Spec
    /\ WF_vars(Mine)
    /\ WF_vars(\E w \in Workers : StartCycle(w))
    /\ \A w \in Workers : WF_vars(Publish(w))

-----------------------------------------------------------------------------
(***************************************************************************)
(* Properties.                                                             *)
(***************************************************************************)
Transactions(r) == {n \in 1 .. Len(sent) : sent[n] = r}
IsConfirmed(r) == r \in DOMAIN rows /\ rows[r].status = "confirmed"

\* A confirmed receipt names the transaction that recorded it in the contract, and its
\* block: through retries, recovery from logs and transactions that were reverted.
ConfirmedIsRecorded ==
    \A r \in Receipts : IsConfirmed(r) =>
        /\ rows[r].tx \in Transactions(r)
        /\ store[r] = rows[r].tx
        /\ rows[r].block = rows[r].tx
        /\ rows[r].block <= height

\* "Its PostgreSQL advisory lock stays on one connection across commits so multiple API
\* workers do not duplicate work": a receipt is sent again only after a fault.
SentAgainOnlyAfterFault ==
    \A r \in Receipts : Cardinality(Transactions(r)) <= 1 + faults

\* The outbox does what ReceiptPublication promises: a receipt is issued, recorded and
\* confirmed, in that order, once.
P == INSTANCE ReceiptPublication WITH
        issued    <- DOMAIN rows,
        recorded  <- {r \in Receipts : store[r] # 0},
        confirmed <- {r \in Receipts : IsConfirmed(r)}

PublicationKept == P!Spec

\* "On restart, the adapter reads contract storage and publication logs to recover a
\* transaction mined before the database saved its hash": once the node stays up, a
\* receipt is confirmed unless it was sent twice, whatever was lost or crashed.
Published ==
    <>[]up => \A r \in Receipts :
        (r \in DOMAIN rows) ~> (IsConfirmed(r) \/ Cardinality(Transactions(r)) > 1)

-----------------------------------------------------------------------------
(***************************************************************************)
(* The inductive invariant behind ConfirmedIsRecorded,                     *)
(* SentAgainOnlyAfterFault and PublicationKept.                            *)
(***************************************************************************)
\* The contract's entries are mined transactions of issued receipts.
ChainSound ==
    /\ \A n \in 1 .. Len(sent) : sent[n] \in DOMAIN rows
    /\ \A r \in Receipts : store[r] # 0 => store[r] \in Transactions(r) /\ store[r] <= height

\* What each place of publish knows of the row in the session.
PlaceSound ==
    \A w \in Workers :
        /\ \A r \in todo[w] : rows[r].status # "confirmed"
        /\ at[w] # Nobody =>
            /\ mine[w].status # "confirmed"
            /\ rows[at[w]].tx # 0 => mine[w].tx # 0
            /\ pc[w] = "logs" => store[at[w]] # 0
            /\ pc[w] = "send" => mine[w].tx = 0
            /\ pc[w] = "receipt" => mine[w].tx # 0

\* The database or the session knows one of a receipt's transactions.
Known(r) ==
    \/ r \in DOMAIN rows /\ rows[r].tx # 0
    \/ \E w \in Workers : at[w] = r /\ mine[w].tx # 0

\* Every transaction of a receipt that nobody knows was lost by a fault.
SendsCounted ==
    \A r \in Receipts : Cardinality(Transactions(r)) <= faults + (IF Known(r) THEN 1 ELSE 0)

IInv ==
    /\ TypeOK
    /\ ChainSound
    /\ PlaceSound
    /\ SendsCounted
    /\ ConfirmedIsRecorded
=============================================================================
