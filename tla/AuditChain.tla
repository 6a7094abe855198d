----------------------------- MODULE AuditChain -----------------------------
(***************************************************************************)
(* The hash-chained audit log: services/audit_service.py,                  *)
(* domain/policies/audit_chain.py and the table audit_events.              *)
(*                                                                         *)
(* A business request runs in one READ COMMITTED transaction of a worker.  *)
(* For each event it stamps recorded_at, then reads the head of the chain, *)
(* then flushes the sealed row, and at the end commits: four steps, with   *)
(* those of other transactions between them.  The two unique constraints   *)
(* of the table make a second claim of a predecessor wait for the first    *)
(* transaction, and fail if that one commits.  The requests of the         *)
(* connected workspace lock the Simulation row before they stamp, so among *)
(* themselves they are serial; those of the phase services take no lock.   *)
(*                                                                         *)
(* An event's id is its stamp: two events are never stamped in the same    *)
(* microsecond.  The hash is ideal: a fingerprint is the record it covers, *)
(* so two fingerprints are equal when what they cover is.                  *)
(***************************************************************************)
EXTENDS Integers, Sequences, FiniteSets, FiniteSetsExt

CONSTANTS
    Requests,        \* the business requests that are made
    Workers,         \* threads that serve business requests
    Locked,          \* the workers that serve the connected workspace
    Operators,       \* users that anchor events
    Nothing,         \* None
    MaxEvents,       \* bound on the stamps taken
    MaxAlterations   \* bound on rows changed outside the application

ASSUME ChainAssumption ==
    /\ Requests \subseteq {"place", "clear", "validate", "price", "reconcile", "settle"}
    /\ Locked \subseteq Workers
    /\ MaxEvents \in Nat
    /\ MaxAlterations \in Nat

VARIABLES
    clock,      \* the next stamp
    rows,       \* the committed rows of audit_events
    txn,        \* txn[w]: the open transaction of w
    anchoring,  \* anchoring[o]: the row o has read and is anchoring
    altered     \* <<what, id>> of each row changed outside the application

vars == <<clock, rows, txn, anchoring, altered>>

-----------------------------------------------------------------------------
(***************************************************************************)
(* Events: what each business request records, and about what.             *)
(***************************************************************************)
\* The events of a request, in the order it records them.
Recorded(q) ==
    CASE q = "place"     -> <<"order_placed">>
      [] q = "clear"     -> <<"market_cleared", "trade_proposed">>
      [] q = "validate"  -> <<"grid_validation_recorded">>
      [] q = "price"     -> <<"price_calculated">>
      [] q = "reconcile" -> <<"trade_reconciled">>
      [] q = "settle"    -> <<"trade_reconciled", "trade_settled">>

\* The kind of entity an event is about is derived from its type.
Subject(type) ==
    CASE type = "order_placed"   -> "order"
      [] type = "market_cleared" -> "market_session"
      [] OTHER                   -> "trade"

Idle == [left |-> <<>>, first |-> 0, event |-> Nothing, head |-> Nothing, own |-> {}]

Open(w) == txn[w].left # <<>> \/ txn[w].own # {}

-----------------------------------------------------------------------------
(***************************************************************************)
(* The chain: sealing, the head, and verification.                         *)
(***************************************************************************)
Fingerprint(e, prev) ==
    [id |-> e.id, type |-> e.type, subject |-> e.subject, at |-> e.at, first |-> e.first,
     prev |-> prev]

\* Fault: the event is hashed before it is linked.
SealUnlinked(e, prev) ==
    [id |-> e.id, type |-> e.type, subject |-> e.subject, at |-> e.at, first |-> e.first,
     prev |-> prev, hash |-> Fingerprint(e, [id |-> 0]), anchor |-> Nothing]

Seal(e, prev) ==
    [id |-> e.id, type |-> e.type, subject |-> e.subject, at |-> e.at, first |-> e.first,
     prev |-> prev, hash |-> Fingerprint(e, prev), anchor |-> Nothing]

\* What the first row names as the one before it: NULL, the hash of no event.
Genesis == [id |-> 0]

\* The last of a set of rows in recorded order.
Last(rs) == CHOOSE r \in rs : \A s \in rs : s.at <= r.at

\* Fault: the rows are read in ascending order, and the first is taken for the head.
FirstHead(rs) == IF rs = {} THEN Genesis ELSE (CHOOSE r \in rs : \A s \in rs : r.at <= s.at).hash

ChainHead(rs) == IF rs = {} THEN Genesis ELSE Last(rs).hash

Before(r, rs) == {s \in rs : s.at < r.at}

\* Fault: the walk looks at the links only.
BreaksByLink(r, rs) == r.prev # ChainHead(Before(r, rs))

\* Verification walks the rows in recorded order: it stops at the first whose content
\* does not match its hash, or that does not name the row before it.
Breaks(r, rs) == \/ r.hash # Fingerprint(r, r.prev)
                 \/ r.prev # ChainHead(Before(r, rs))

Intact(rs) == \A r \in rs : ~Breaks(r, rs)

Claimed(prev, rs) == \E r \in rs : r.prev = prev

\* Stamps that the open transactions have yet to take.
ToStamp == MapThenSumSet(LAMBDA w : Len(txn[w].left) - (IF txn[w].event = Nothing THEN 0 ELSE 1),
                         Workers)

-----------------------------------------------------------------------------
Init ==
    /\ clock = 1
    /\ rows = {}
    /\ txn = [w \in Workers |-> Idle]
    /\ anchoring = [o \in Operators |-> Nothing]
    /\ altered = {}

\* A business request starts; that of a locked worker waits for the Simulation row.
Begin(w, q) ==
    /\ ~Open(w)
    /\ clock + ToStamp + Len(Recorded(q)) - 1 <= MaxEvents
    /\ w \in Locked => \A v \in Locked : ~Open(v)
    /\ txn' = [txn EXCEPT ![w] = [Idle EXCEPT !.left = Recorded(q)]]
    /\ UNCHANGED <<clock, rows, anchoring, altered>>

\* build_event: the event is assembled and stamped.  All events of a request carry
\* the id of its first.
Stamp(w) ==
    /\ txn[w].left # <<>> /\ txn[w].event = Nothing
    /\ LET first == IF txn[w].own = {} THEN clock ELSE txn[w].first
           type  == txn[w].left[1]
       IN  txn' = [txn EXCEPT ![w].first = first,
                              ![w].event = [id |-> clock, type |-> type, at |-> clock,
                                            subject |-> Subject(type), first |-> first]]
    /\ clock' = clock + 1
    /\ UNCHANGED <<rows, anchoring, altered>>

\* record reads the head among the committed rows and the transaction's own.
ReadHead(w) ==
    /\ txn[w].event # Nothing /\ txn[w].head = Nothing
    /\ txn' = [txn EXCEPT ![w].head = ChainHead(rows \cup txn[w].own)]
    /\ UNCHANGED <<clock, rows, anchoring, altered>>

\* A claim of the same predecessor by an open transaction makes the insert wait.
Waits(w) == \E v \in Workers \ {w} : Claimed(txn[w].head, txn[v].own)

\* Fault: the table has no unique constraint on previous_hash.
FlushAnyway(w) ==
    /\ txn[w].head # Nothing
    /\ txn' = [txn EXCEPT ![w] =
                  [txn[w] EXCEPT !.own = @ \cup {Seal(txn[w].event, txn[w].head)},
                                 !.left = Tail(@), !.event = Nothing, !.head = Nothing]]
    /\ UNCHANGED <<clock, rows, anchoring, altered>>

\* Fault: each event is committed as it is recorded.
FlushAndCommit(w) ==
    /\ txn[w].head # Nothing
    /\ ~Waits(w)
    /\ ~Claimed(txn[w].head, rows)
    /\ rows' = rows \cup {Seal(txn[w].event, txn[w].head)}
    /\ txn' = [txn EXCEPT ![w] =
                  [txn[w] EXCEPT !.left = Tail(@), !.event = Nothing, !.head = Nothing]]
    /\ UNCHANGED <<clock, anchoring, altered>>

\* record flushes the sealed row.
Flush(w) ==
    /\ txn[w].head # Nothing
    /\ ~Waits(w)
    /\ ~Claimed(txn[w].head, rows \cup txn[w].own)
    /\ txn' = [txn EXCEPT ![w] =
                  [txn[w] EXCEPT !.own = @ \cup {Seal(txn[w].event, txn[w].head)},
                                 !.left = Tail(@), !.event = Nothing, !.head = Nothing]]
    /\ UNCHANGED <<clock, rows, anchoring, altered>>

\* Fault: a row that was refused is waited for again.
ConflictWithOwn(w) ==
    /\ txn[w].head # Nothing
    /\ Claimed(txn[w].head, txn[w].own)
    /\ txn' = [txn EXCEPT ![w] = Idle]
    /\ UNCHANGED <<clock, rows, anchoring, altered>>

\* The database refuses the row, and the whole request with it.
Conflict(w) ==
    /\ txn[w].head # Nothing
    /\ Claimed(txn[w].head, rows \cup txn[w].own)
    /\ txn' = [txn EXCEPT ![w] = Idle]
    /\ UNCHANGED <<clock, rows, anchoring, altered>>

\* The business operation fails, or its process stops: its events go with it.
RollBack(w) ==
    /\ Open(w)
    /\ txn' = [txn EXCEPT ![w] = Idle]
    /\ UNCHANGED <<clock, rows, anchoring, altered>>

Commit(w) ==
    /\ Open(w) /\ txn[w].left = <<>>
    /\ rows' = rows \cup txn[w].own
    /\ txn' = [txn EXCEPT ![w] = Idle]
    /\ UNCHANGED <<clock, anchoring, altered>>

-----------------------------------------------------------------------------
(***************************************************************************)
(* Anchoring an event to the ledger.                                       *)
(***************************************************************************)
\* The event is found and is not anchored yet; an anchored one is refused.
ReadForAnchor(o, r) ==
    /\ anchoring[o] = Nothing
    /\ r.anchor = Nothing
    /\ anchoring' = [anchoring EXCEPT ![o] = r]
    /\ UNCHANGED <<clock, rows, txn, altered>>

\* Fault: the reference also says when the event was published.
StampedReference(r) == <<r.hash, clock>>

\* The reference is derived from the hash.
Reference(r) == r.hash

\* The publisher is called, then the reference is written over whatever the row holds.
Anchor(o) ==
    /\ anchoring[o] # Nothing
    /\ rows' = {IF r.id = anchoring[o].id
                THEN [r EXCEPT !.anchor = Reference(anchoring[o])] ELSE r : r \in rows}
    /\ anchoring' = [anchoring EXCEPT ![o] = Nothing]
    /\ UNCHANGED <<clock, txn, altered>>

\* The publisher fails: nothing was written.
PublisherFails(o) ==
    /\ anchoring[o] # Nothing
    /\ anchoring' = [anchoring EXCEPT ![o] = Nothing]
    /\ UNCHANGED <<clock, rows, txn, altered>>

-----------------------------------------------------------------------------
(***************************************************************************)
(* A committed row is changed or removed outside the application.          *)
(***************************************************************************)
Changed(r) ==
    {[r EXCEPT !.type = "corrected"], [r EXCEPT !.at = 0],
     [r EXCEPT !.hash = Fingerprint(r, r.hash)], [r EXCEPT !.prev = Fingerprint(r, r.hash)]}

Alter(r) ==
    /\ Cardinality(altered) < MaxAlterations
    /\ \/ /\ rows' = rows \ {r}
          /\ altered' = altered \cup {<<IF Claimed(r.hash, rows) THEN "removed" ELSE "last", r.id>>}
       \/ \E s \in Changed(r) : /\ rows' = (rows \ {r}) \cup {s}
                                /\ altered' = altered \cup {<<"changed", r.id>>}
    /\ UNCHANGED <<clock, txn, anchoring>>

-----------------------------------------------------------------------------
Next ==
    \/ \E w \in Workers : \/ \E q \in Requests : Begin(w, q)
                          \/ Stamp(w) \/ ReadHead(w) \/ Flush(w) \/ Conflict(w)
                          \/ Commit(w) \/ RollBack(w)
    \/ \E o \in Operators : \/ \E r \in rows : ReadForAnchor(o, r)
                            \/ Anchor(o) \/ PublisherFails(o)
    \/ \E r \in rows : Alter(r)

Spec == Init /\ [][Next]_vars

\* A worker takes its request's next step; it may wait for another's transaction.
Step(w) == Stamp(w) \/ ReadHead(w) \/ Flush(w) \/ Conflict(w) \/ Commit(w)

FairSpec == Spec /\ \A w \in Workers : WF_vars(Step(w))

-----------------------------------------------------------------------------
(***************************************************************************)
(* Properties.                                                             *)
(***************************************************************************)
\* Each hash is claimed once, and each claim is of a row that is there.
Line(rs) ==
    /\ \A r \in rs : \A s \in rs : r.prev = s.prev => r = s
    /\ \A r \in rs : r.prev = Genesis \/ \E s \in rs : s.hash = r.prev

\* The chain is a line, not a tree (models/audit.py, __table_args__): whatever the
\* transactions that append at once, it never forks and never has a hole, and only one of
\* them at a time has recorded events; every other one waits for it, or has lost
\* (audit_service.py, CONCURRENCY).
ChainIsLine ==
    altered = {} =>
        /\ Line(rows)
        /\ \A v \in Workers : \A w \in Workers : txn[v].own # {} /\ txn[w].own # {} => v = w

\* A request's events are in the log together or not at all, in their order, and each
\* follows the one before it: no other request's event comes between (record).
RequestsWhole ==
    altered = {} =>
    \A r \in rows :
      LET own == {s \in rows : s.first = r.first}
      IN  \E q \in Requests :
            /\ Cardinality(own) = Len(Recorded(q))
            /\ \A s \in own : LET upTo == {u \in own : u.at <= s.at}
                              IN  /\ s.type = Recorded(q)[Cardinality(upTo)]
                                  /\ s.at # r.first => s.prev = ChainHead(upTo \ {s})

\* A committed row never changes and never goes, save that its anchor is set, once
\* (AuditEventRepository.update and delete, anchor_event).
RowKept(r) == \E s \in rows' : /\ s = [r EXCEPT !.anchor = s.anchor]
                               /\ r.anchor \in {Nothing, s.anchor}
HistoryKept == [][altered' = {} => \A r \in rows : RowKept(r)]_vars

\* No row was stamped before one that it follows. Transactions that overlap may break this:
\* recorded_at is taken before the head is read (record).
InOrder(rs) == \A r \in rs : \A s \in rs : r.prev = s.hash => s.at < r.at

\* verify tells an altered log from an untouched one. It finds an edited row and the removal
\* of any row but the last, whatever was appended since and in whatever order it was stamped.
\* In a log that nobody altered and whose stamps are in order it finds nothing, whatever was
\* appended at once, failed and anchored; and the head that record reads there may be
\* claimed, so that a request that lost to another succeeds when it is tried again
\* (audit_service.verify; audit_service.py, CONCURRENCY).
IntactUnlessAltered ==
    /\ altered = {} /\ InOrder(rows) => Intact(rows) /\ ~Claimed(ChainHead(rows), rows)
    /\ (\E a \in altered : a[1] # "last") => ~Intact(rows)

\* No request waits for ever: the inserts that wait for one another's transactions do
\* not wait in a circle (record's flush).
RequestsEnd == \A w \in Workers : Open(w) ~> ~Open(w)
=============================================================================
