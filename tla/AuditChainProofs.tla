-------------------------- MODULE AuditChainProofs --------------------------
(***************************************************************************)
(* Proofs, for any workers, locks, operators and bounds, that as long as   *)
(* nobody alters the log outside the application the chain of audit events *)
(* never forks, only one transaction at a time has recorded events, a      *)
(* committed row keeps its content and its anchor, a request's events are  *)
(* in the log together or not at all, and verification finds nothing in a  *)
(* log whose stamps are in order; and that it finds a single alteration.   *)
(*                                                                         *)
(* The argument: the rows that a transaction sees have one hash that no    *)
(* row claims, the tail.  The first row of an open transaction claims the  *)
(* tail of the committed rows.  Another transaction that would flush its   *)
(* first row has read a hash of the committed rows, and the unique         *)
(* constraint lets it pass only if no committed row claims it: it is the   *)
(* tail too, so it waits.  That is the invariant IInv.                     *)
(*                                                                         *)
(* RecordInv adds what the rows say: each hash covers its row, the second  *)
(* event of a request claims the hash of its first, and after an           *)
(* alteration there is a row that does not match its hash, or one that     *)
(* names a row that is gone.                                               *)
(***************************************************************************)
EXTENDS AuditChain, ArithmeticTheorems

\* What a transaction and a row consist of.
TxnRecord(t) ==
    t = [left |-> t.left, first |-> t.first, event |-> t.event, head |-> t.head, own |-> t.own]

RowRecord(r) ==
    r = [id |-> r.id, type |-> r.type, subject |-> r.subject, at |-> r.at, first |-> r.first,
         prev |-> r.prev, hash |-> r.hash, anchor |-> r.anchor]

RowOK(r) == /\ RowRecord(r)
            /\ r.at \in Nat /\ r.at < clock /\ r.id = r.at
            /\ r.anchor \in {Nothing, r.hash}

Shape ==
    /\ clock \in Nat
    /\ DOMAIN txn = Workers /\ txn = [w \in Workers |-> txn[w]]
    /\ DOMAIN anchoring = Operators /\ anchoring = [o \in Operators |-> anchoring[o]]
    /\ \A w \in Workers :
          /\ TxnRecord(txn[w])
          /\ txn[w].head # Nothing => txn[w].event # Nothing
          /\ txn[w].event # Nothing => /\ txn[w].event.at \in Nat /\ txn[w].event.at < clock
                                       /\ txn[w].event.id = txn[w].event.at
          /\ \A r \in txn[w].own : RowOK(r)

\* The hashes a row may name as its predecessor; the tail is the one nobody has claimed.
Heads(rs) == {Genesis} \cup {r.hash : r \in rs}
IsTail(h, rs) == h \in Heads(rs) /\ ~Claimed(h, rs)
OneTail(rs) == \A g, h \in Heads(rs) : IsTail(g, rs) /\ IsTail(h, rs) => g = h

HasLast(rs) == rs # {} => \E r \in rs : \A s \in rs : s.at <= r.at

IdsOnce(rs) == \A r \in rs : \A s \in rs : r.id = s.id => r.hash = s.hash

Good(rs) == Line(rs) /\ OneTail(rs) /\ HasLast(rs) /\ IdsOnce(rs)

OneOwner == \A v \in Workers : \A w \in Workers : txn[v].own # {} /\ txn[w].own # {} => v = w

\* What an open transaction has recorded begins at the tail of the committed rows.
FromTail(w) == txn[w].own # {} => \E r \in txn[w].own : IsTail(r.prev, rows)

\* Its rows are not among them.
Apart(w) == \A r \in txn[w].own : \A s \in rows : r.id # s.id

HeadKnown(w) == txn[w].head # Nothing => txn[w].head \in Heads(rows \cup txn[w].own)

\* An event that is not a row yet has an id of its own.
Fresh(w) ==
    txn[w].event # Nothing =>
      /\ \A r \in rows : r.id # txn[w].event.id
      /\ \A v \in Workers : \A r \in txn[v].own : r.id # txn[w].event.id
      /\ \A v \in Workers \ {w} : txn[v].event # Nothing => txn[v].event.id # txn[w].event.id

AnchorKnown(o) ==
    anchoring[o] # Nothing =>
      \E r \in rows : r.id = anchoring[o].id /\ r.hash = anchoring[o].hash

Sound ==
    /\ \A r \in rows : RowOK(r)
    /\ Good(rows)
    /\ \A w \in Workers : Good(rows \cup txn[w].own)
    /\ OneOwner
    /\ \A w \in Workers : FromTail(w) /\ Apart(w) /\ HeadKnown(w) /\ Fresh(w)
    /\ \A o \in Operators : AnchorKnown(o)

IInv == Shape /\ (altered = {} => Sound)

-----------------------------------------------------------------------------
(***************************************************************************)
(* Sets of rows.                                                           *)
(***************************************************************************)
\* A row that claims the tail keeps a set of rows good, and its hash is the only one that
\* can be unclaimed then.
LEMMA GoodAdd ==
    ASSUME NEW rs, Good(rs), \A r \in rs : r.at \in Nat,
           NEW n, n.at \in Nat, IsTail(n.prev, rs), \A r \in rs : r.id # n.id
    PROVE  Good(rs \cup {n})
  <1>1. Line(rs \cup {n})
    <2>1. \A r \in rs : r.prev # n.prev
      BY DEF IsTail, Claimed
    <2>2. n.prev = Genesis \/ \E s \in rs : s.hash = n.prev
      BY DEF IsTail, Heads
    <2>3. QED
      BY <2>1, <2>2 DEF Good, Line
  <1>2. OneTail(rs \cup {n})
    <2>1. ASSUME NEW h \in Heads(rs \cup {n}), IsTail(h, rs \cup {n})
          PROVE  h = n.hash
      <3>1. h # n.prev /\ ~Claimed(h, rs)
        BY <2>1 DEF IsTail, Claimed
      <3>2. CASE h \in Heads(rs)
        <4>1. IsTail(h, rs) /\ n.prev \in Heads(rs)
          BY <3>1, <3>2 DEF IsTail
        <4>2. h = n.prev
          BY <4>1, <3>2 DEF Good, OneTail
        <4>3. QED
          BY <3>1, <4>2
      <3>3. CASE h \notin Heads(rs)
        BY <2>1, <3>3 DEF Heads
      <3>4. QED
        BY <3>2, <3>3
    <2>2. QED
      BY <2>1 DEF OneTail
  <1>3. HasLast(rs \cup {n})
    <2>1. CASE rs = {}
      BY <2>1 DEF HasLast
    <2>2. CASE rs # {}
      <3>1. PICK r \in rs : \A s \in rs : s.at <= r.at
        BY <2>2 DEF Good, HasLast
      <3>2. CASE n.at <= r.at
        BY <3>1, <3>2 DEF HasLast
      <3>3. CASE ~(n.at <= r.at)
        <4>1. \A s \in rs \cup {n} : s.at <= n.at
          BY <3>1, <3>3
        <4>2. QED
          BY <4>1 DEF HasLast
      <3>4. QED
        BY <3>2, <3>3
    <2>3. QED
      BY <2>1, <2>2
  <1>4. IdsOnce(rs \cup {n})
    BY DEF Good, IdsOnce
  <1>5. QED
    BY <1>1, <1>2, <1>3, <1>4 DEF Good

\* The head that is read is a hash of the rows it is read from.
LEMMA ChainHeadKnown ==
    ASSUME NEW rs, Good(rs)
    PROVE  ChainHead(rs) \in Heads(rs)
  <1>1. CASE rs = {}
    BY <1>1 DEF ChainHead, Heads
  <1>2. CASE rs # {}
    <2>1. \E r \in rs : \A s \in rs : s.at <= r.at
      BY <1>2 DEF Good, HasLast
    <2>2. Last(rs) \in rs
      BY <2>1 DEF Last
    <2>3. QED
      BY <1>2, <2>2 DEF ChainHead, Heads
  <1>3. QED
    BY <1>1, <1>2

\* What Anchor makes of a row: all but the anchor is kept.
Anchored(r, a) == IF r.id = a.id THEN [r EXCEPT !.anchor = Reference(a)] ELSE r

LEMMA AnchoredKeeps ==
    ASSUME NEW r, RowRecord(r), NEW a
    PROVE  /\ RowRecord(Anchored(r, a))
           /\ Anchored(r, a).id = r.id /\ Anchored(r, a).at = r.at
           /\ Anchored(r, a).prev = r.prev /\ Anchored(r, a).hash = r.hash
           /\ Anchored(r, a) = [r EXCEPT !.anchor = Anchored(r, a).anchor]
           /\ Anchored(r, a).anchor = IF r.id = a.id THEN a.hash ELSE r.anchor
  BY DEF RowRecord, Anchored, Reference

\* Anchoring keeps a set of rows good.
LEMMA GoodAnchored ==
    ASSUME NEW rs, Good(rs), \A r \in rs : RowRecord(r), NEW a
    PROVE  /\ Good({Anchored(r, a) : r \in rs})
           /\ Heads({Anchored(r, a) : r \in rs}) = Heads(rs)
           /\ \A h : Claimed(h, {Anchored(r, a) : r \in rs}) <=> Claimed(h, rs)
  <1> DEFINE new == {Anchored(r, a) : r \in rs}
  <1>0. \A r \in rs : /\ Anchored(r, a).id = r.id /\ Anchored(r, a).at = r.at
                      /\ Anchored(r, a).prev = r.prev /\ Anchored(r, a).hash = r.hash
    BY AnchoredKeeps
  <1> HIDE DEF Anchored
  <1>1. Heads(new) = Heads(rs)
    BY <1>0 DEF Heads
  <1>2. \A h : Claimed(h, new) <=> Claimed(h, rs)
    BY <1>0 DEF Claimed
  <1>3. Line(new)
    BY <1>0 DEF Good, Line
  <1>4. OneTail(new)
    BY <1>1, <1>2 DEF Good, OneTail, IsTail
  <1>5. HasLast(new)
    BY <1>0 DEF Good, HasLast
  <1>6. IdsOnce(new)
    BY <1>0 DEF Good, IdsOnce
  <1>7. QED
    BY <1>1, <1>2, <1>3, <1>4, <1>5, <1>6 DEF Good

-----------------------------------------------------------------------------
(***************************************************************************)
(* Steps of a transaction.                                                 *)
(***************************************************************************)
\* A step of a transaction replaces its record and no other's.
LEMMA Put ==
    ASSUME Shape, NEW w \in Workers, NEW t, txn' = [txn EXCEPT ![w] = t]
    PROVE  /\ DOMAIN txn' = Workers /\ txn' = [v \in Workers |-> txn'[v]]
           /\ txn'[w] = t
           /\ \A v \in Workers \ {w} : txn'[v] = txn[v]
  BY DEF Shape

\* A transaction that is idle.
LEMMA IdleRecord ==
    /\ TxnRecord(Idle) /\ Idle.own = {} /\ Idle.event = Nothing /\ Idle.head = Nothing
  BY DEF Idle, TxnRecord

\* Begin, Stamp and ReadHead leave the rows of every transaction as they are.
LEMMA QuietKeeps ==
    ASSUME Shape, Shape', Sound, NEW w \in Workers, NEW t, txn' = [txn EXCEPT ![w] = t],
           t.own = txn[w].own,
           rows' = rows, anchoring' = anchoring, clock <= clock',
           HeadKnown(w)', Fresh(w)',
           \A v \in Workers \ {w} :
              txn[v].event # Nothing /\ t.event # Nothing => txn[v].event.id # t.event.id
    PROVE  Sound'
  <1>1. /\ txn'[w] = t
        /\ \A v \in Workers \ {w} : txn'[v] = txn[v]
    BY Put
  <1>2. \A v \in Workers : txn'[v].own = txn[v].own
    BY <1>1
  <1>3. \A r \in rows' : RowOK(r)'
    BY DEF Sound, RowOK, Shape
  <1>4. Good(rows') /\ \A v \in Workers : Good(rows' \cup txn'[v].own)
    BY <1>2 DEF Sound
  <1>5. OneOwner'
    BY <1>2 DEF Sound, OneOwner
  <1>6. ASSUME NEW v \in Workers
        PROVE  FromTail(v)' /\ Apart(v)' /\ HeadKnown(v)' /\ Fresh(v)'
    <2>1. FromTail(v)' /\ Apart(v)'
      BY <1>2 DEF Sound, FromTail, Apart
    <2>2. CASE v = w
      BY <2>1, <2>2
    <2>3. CASE v # w
      <3>1. txn'[v] = txn[v]
        BY <1>1, <2>3
      <3>2. HeadKnown(v)'
        BY <3>1 DEF Sound, HeadKnown
      <3>3. Fresh(v)'
        BY <1>1, <1>2, <2>3, <3>1 DEF Sound, Fresh
      <3>4. QED
        BY <2>1, <3>2, <3>3
    <2>4. QED
      BY <2>2, <2>3
  <1>7. \A o \in Operators : AnchorKnown(o)'
    BY DEF Sound, AnchorKnown
  <1>8. QED
    BY <1>3, <1>4, <1>5, <1>6, <1>7 DEF Sound

\* The shape is kept when a record of the right shape replaces a transaction's.
LEMMA PutShape ==
    ASSUME Shape, NEW w \in Workers, NEW t, txn' = [txn EXCEPT ![w] = t],
           anchoring' = anchoring, clock' \in Nat, clock <= clock',
           TxnRecord(t), t.head # Nothing => t.event # Nothing,
           t.event # Nothing => /\ t.event.at \in Nat /\ t.event.at < clock'
                                /\ t.event.id = t.event.at,
           \A r \in t.own : RowOK(r)'
    PROVE  Shape'
  <1>1. /\ DOMAIN txn' = Workers /\ txn' = [v \in Workers |-> txn'[v]]
        /\ txn'[w] = t
        /\ \A v \in Workers \ {w} : txn'[v] = txn[v]
    BY Put
  <1>2. DOMAIN anchoring' = Operators /\ anchoring' = [o \in Operators |-> anchoring'[o]]
    BY DEF Shape
  <1>3. ASSUME NEW v \in Workers
        PROVE  /\ TxnRecord(txn'[v])
               /\ txn'[v].head # Nothing => txn'[v].event # Nothing
               /\ txn'[v].event # Nothing => /\ txn'[v].event.at \in Nat
                                             /\ txn'[v].event.at < clock'
                                             /\ txn'[v].event.id = txn'[v].event.at
               /\ \A r \in txn'[v].own : RowOK(r)'
    <2>1. CASE v = w
      BY <1>1, <2>1
    <2>2. CASE v # w
      BY <1>1, <2>2 DEF Shape, RowOK
    <2>3. QED
      BY <2>1, <2>2
  <1>4. QED
    BY <1>1, <1>2, <1>3 DEF Shape

\* A transaction goes: RollBack, Conflict, and a Begin after it.
LEMMA DropKeeps ==
    ASSUME IInv, NEW w \in Workers, NEW t, txn' = [txn EXCEPT ![w] = t],
           TxnRecord(t), t.own = {}, t.event = Nothing, t.head = Nothing,
           UNCHANGED <<clock, rows, anchoring, altered>>
    PROVE  IInv'
  <1>1. /\ txn'[w] = t
        /\ \A v \in Workers \ {w} : txn'[v] = txn[v]
    BY Put DEF IInv
  <1>2. Shape'
    BY PutShape DEF IInv, Shape
  <1>3. ASSUME Sound
        PROVE  Sound'
    <2>1. \A r \in rows' : RowOK(r)'
      BY <1>3 DEF Sound, RowOK
    <2>2. Good(rows')
      BY <1>3 DEF Sound
    <2>3. ASSUME NEW v \in Workers
          PROVE  /\ Good(rows' \cup txn'[v].own)
                 /\ FromTail(v)' /\ Apart(v)' /\ HeadKnown(v)' /\ Fresh(v)'
      <3>1. CASE v = w
        <4>1. txn'[v] = t /\ rows' \cup txn'[v].own = rows
          BY <1>1, <3>1
        <4>2. QED
          BY <1>3, <4>1 DEF Sound, FromTail, Apart, HeadKnown, Fresh
      <3>2. CASE v # w
        <4>1. txn'[v] = txn[v]
          BY <1>1, <3>2
        <4>2. \A u \in Workers : /\ txn'[u].own \in {{}, txn[u].own}
                                 /\ txn'[u].event # Nothing => txn'[u].event = txn[u].event
          BY <1>1
        <4>3. Fresh(v)'
          BY <1>3, <4>1, <4>2 DEF Sound, Fresh
        <4>4. QED
          BY <1>3, <4>1, <4>3 DEF Sound, FromTail, Apart, HeadKnown
      <3>3. QED
        BY <3>1, <3>2
    <2>4. OneOwner'
      BY <1>1, <1>3 DEF Sound, OneOwner
    <2>5. \A o \in Operators : AnchorKnown(o)'
      BY <1>3 DEF Sound, AnchorKnown
    <2>6. QED
      BY <2>1, <2>2, <2>3, <2>4, <2>5 DEF Sound
  <1>4. QED
    BY <1>2, <1>3 DEF IInv

LEMMA BeginKeeps ==
    ASSUME IInv, NEW w \in Workers, NEW q \in Requests, Begin(w, q)
    PROVE  IInv'
  <1> DEFINE t == [left |-> Recorded(q), first |-> 0, event |-> Nothing, head |-> Nothing,
                   own |-> {}]
  <1>1. [Idle EXCEPT !.left = Recorded(q)] = t
    BY DEF Idle
  <1>2. TxnRecord(t) /\ t.own = {} /\ t.event = Nothing /\ t.head = Nothing
    BY DEF TxnRecord
  <1>3. txn' = [txn EXCEPT ![w] = t] /\ UNCHANGED <<clock, rows, anchoring, altered>>
    BY <1>1 DEF Begin
  <1> HIDE DEF t
  <1>4. QED
    BY <1>2, <1>3, DropKeeps

LEMMA RollBackKeeps ==
    ASSUME IInv, NEW w \in Workers, RollBack(w) \/ Conflict(w)
    PROVE  IInv'
  BY IdleRecord, DropKeeps DEF RollBack, Conflict

LEMMA StampKeeps ==
    ASSUME IInv, NEW w \in Workers, Stamp(w)
    PROVE  IInv'
  <1> DEFINE type == txn[w].left[1]
             begun == IF txn[w].own = {} THEN clock ELSE txn[w].first
             e == [id |-> clock, type |-> type, at |-> clock, subject |-> Subject(type),
                   first |-> begun]
             t == [left |-> txn[w].left, first |-> begun, event |-> e, head |-> txn[w].head,
                   own |-> txn[w].own]
  <1>1. TxnRecord(txn[w]) /\ txn[w].event = Nothing /\ txn[w].head = Nothing
    BY DEF Stamp, IInv, Shape
  <1>2. txn' = [txn EXCEPT ![w].first = begun, ![w].event = e] /\ clock' = clock + 1
    BY DEF Stamp
  <1>3. e.at = clock /\ e.id = clock
    OBVIOUS
  <1> HIDE DEF e, begun, type
  <1>4. [[txn[w] EXCEPT !.first = begun] EXCEPT !.event = e] = t
    <2> DEFINE u == [left |-> txn[w].left, first |-> begun, event |-> txn[w].event,
                     head |-> txn[w].head, own |-> txn[w].own]
    <2>1. [txn[w] EXCEPT !.first = begun] = u
      BY <1>1 DEF TxnRecord
    <2>2. [u EXCEPT !.event = e] = t
      OBVIOUS
    <2>3. QED
      BY <2>1, <2>2
  <1>5. txn' = [txn EXCEPT ![w] = t]
    <2>1. txn' = [txn EXCEPT ![w] = [[txn[w] EXCEPT !.first = begun] EXCEPT !.event = e]]
      BY <1>2 DEF IInv, Shape
    <2>2. QED
      BY <1>4, <2>1
  <1>6. /\ TxnRecord(t) /\ t.head = Nothing /\ t.own = txn[w].own
        /\ t.event.at = clock /\ t.event.id = clock
    BY <1>1, <1>3 DEF TxnRecord
  <1>7. clock \in Nat
    BY DEF IInv, Shape
  <1>8. clock' \in Nat /\ clock <= clock' /\ clock < clock'
    BY <1>2, <1>7
  <1>9. UNCHANGED <<rows, anchoring, altered>>
    BY DEF Stamp
  <1> HIDE DEF t
  <1>10. \A r \in t.own : RowOK(r)'
    BY <1>6, <1>7, <1>8 DEF IInv, Shape, RowOK
  <1>11. Shape'
    BY <1>5, <1>6, <1>7, <1>8, <1>9, <1>10, PutShape DEF IInv
  <1>12. ASSUME Sound
        PROVE  Sound'
    <2>1. /\ txn'[w] = t
          /\ \A v \in Workers \ {w} : txn'[v] = txn[v]
      BY <1>5, Put DEF IInv
    <2>2. HeadKnown(w)'
      BY <1>6, <2>1 DEF HeadKnown
    <2>3. \A v \in Workers \ {w} : txn[v].event # Nothing => txn[v].event.id # t.event.id
      BY <1>6, <1>7 DEF IInv, Shape
    <2>4. \A v \in Workers : txn'[v].own = txn[v].own
      BY <1>6, <2>1
    <2>5. /\ \A r \in rows : r.id # clock
          /\ \A v \in Workers : \A r \in txn[v].own : r.id # clock
      BY <1>7, <1>12 DEF IInv, Shape, Sound, RowOK
    <2>6. Fresh(w)'
      BY <1>6, <1>9, <2>1, <2>3, <2>4, <2>5 DEF Fresh
    <2>7. QED
      BY <1>5, <1>6, <1>8, <1>9, <1>11, <1>12, <2>2, <2>3, <2>6, QuietKeeps DEF IInv
  <1>13. QED
    BY <1>9, <1>11, <1>12 DEF IInv

LEMMA ReadHeadKeeps ==
    ASSUME IInv, NEW w \in Workers, ReadHead(w)
    PROVE  IInv'
  <1> DEFINE h == ChainHead(rows \cup txn[w].own)
             t == [left |-> txn[w].left, first |-> txn[w].first, event |-> txn[w].event,
                   head |-> h, own |-> txn[w].own]
  <1>1. TxnRecord(txn[w]) /\ txn[w].event # Nothing
    BY DEF ReadHead, IInv, Shape
  <1>2. txn' = [txn EXCEPT ![w] = t]
    <2>1. [txn[w] EXCEPT !.head = h] = t
      BY <1>1 DEF TxnRecord
    <2>2. QED
      BY <2>1 DEF ReadHead, IInv, Shape
  <1>3. /\ TxnRecord(t) /\ t.head = h /\ t.own = txn[w].own /\ t.event = txn[w].event
    BY DEF TxnRecord
  <1>4. /\ UNCHANGED <<clock, rows, anchoring, altered>>
        /\ clock \in Nat /\ clock' \in Nat /\ clock <= clock'
    BY DEF ReadHead, IInv, Shape
  <1> HIDE DEF t
  <1>5. \A r \in t.own : RowOK(r)'
    BY <1>3, <1>4 DEF IInv, Shape, RowOK
  <1>6. Shape'
    <2>1. t.event.at \in Nat /\ t.event.at < clock' /\ t.event.id = t.event.at
      BY <1>1, <1>3, <1>4 DEF IInv, Shape
    <2>2. QED
      BY <1>1, <1>2, <1>3, <1>4, <1>5, <2>1, PutShape DEF IInv
  <1>7. ASSUME Sound
        PROVE  Sound'
    <2>1. /\ txn'[w] = t
          /\ \A v \in Workers \ {w} : txn'[v] = txn[v]
      BY <1>2, Put DEF IInv
    <2>2. HeadKnown(w)'
      <3>1. h \in Heads(rows \cup txn[w].own)
        BY <1>7, ChainHeadKnown DEF Sound
      <3>2. QED
        BY <1>3, <1>4, <2>1, <3>1 DEF HeadKnown
    <2>3. \A v \in Workers \ {w} : txn[v].event # Nothing => txn[v].event.id # t.event.id
      BY <1>1, <1>3, <1>7 DEF Sound, Fresh
    <2>4. \A v \in Workers : txn'[v].own = txn[v].own /\ txn'[v].event = txn[v].event
      BY <1>3, <2>1
    <2>5. Fresh(w)'
      BY <1>4, <1>7, <2>4 DEF Sound, Fresh
    <2>6. QED
      BY <1>2, <1>3, <1>4, <1>6, <1>7, <2>2, <2>3, <2>5, QuietKeeps DEF IInv
  <1>8. QED
    BY <1>4, <1>6, <1>7 DEF IInv

-----------------------------------------------------------------------------
(***************************************************************************)
(* Flush: the unique constraints.                                          *)
(***************************************************************************)
\* A row that is flushed claims the tail of the rows its transaction sees.
LEMMA FlushAtTail ==
    ASSUME IInv, Sound, NEW w \in Workers, Flush(w)
    PROVE  IsTail(txn[w].head, rows \cup txn[w].own)
  BY DEF Sound, HeadKnown, Flush, IsTail

\* No other transaction has recorded events: the flush would wait for it.
LEMMA FlushAlone ==
    ASSUME IInv, Sound, NEW w \in Workers, Flush(w), NEW v \in Workers \ {w}
    PROVE  txn[v].own = {}
  <1> SUFFICES ASSUME txn[v].own # {}
               PROVE  FALSE
    OBVIOUS
  <1>1. txn[w].own = {}
    BY DEF Sound, OneOwner
  <1>2. IsTail(txn[w].head, rows)
    <2>1. rows \cup txn[w].own = rows
      BY <1>1
    <2>2. QED
      BY <2>1, FlushAtTail
  <1>3. PICK r \in txn[v].own : IsTail(r.prev, rows)
    BY DEF Sound, FromTail
  <1>4. r.prev = txn[w].head
    BY <1>2, <1>3 DEF Sound, Good, OneTail, IsTail
  <1>5. Waits(w)
    BY <1>3, <1>4 DEF Waits, Claimed
  <1>6. QED
    BY <1>5 DEF Flush

\* The row that is flushed.
LEMMA Sealed ==
    ASSUME NEW e, NEW h
    PROVE  LET n == Seal(e, h)
           IN  /\ RowRecord(n) /\ n.id = e.id /\ n.at = e.at /\ n.prev = h /\ n.anchor = Nothing
  BY DEF Seal, RowRecord

\* The record of a transaction that has flushed.
LEMMA FlushedRecord ==
    ASSUME NEW r, TxnRecord(r), NEW own, NEW left
    PROVE  [r EXCEPT !.own = own, !.left = left, !.event = Nothing, !.head = Nothing]
             = [left |-> left, first |-> r.first, event |-> Nothing, head |-> Nothing,
                own |-> own]
  <1> DEFINE a == [left |-> r.left, first |-> r.first, event |-> r.event, head |-> r.head,
                   own |-> own]
             b == [left |-> left, first |-> r.first, event |-> r.event, head |-> r.head,
                   own |-> own]
             c == [left |-> left, first |-> r.first, event |-> Nothing, head |-> r.head,
                   own |-> own]
  <1>1. [r EXCEPT !.own = own] = a
    BY DEF TxnRecord
  <1>2. [a EXCEPT !.left = left] = b
    OBVIOUS
  <1>3. [b EXCEPT !.event = Nothing] = c
    OBVIOUS
  <1>4. [c EXCEPT !.head = Nothing] = [left |-> left, first |-> r.first, event |-> Nothing,
                                       head |-> Nothing, own |-> own]
    OBVIOUS
  <1>5. [r EXCEPT !.own = own, !.left = left, !.event = Nothing, !.head = Nothing]
          = [[[[r EXCEPT !.own = own] EXCEPT !.left = left] EXCEPT !.event = Nothing]
             EXCEPT !.head = Nothing]
    OBVIOUS
  <1>6. QED
    BY <1>1, <1>2, <1>3, <1>4, <1>5

LEMMA FlushKeeps ==
    ASSUME IInv, NEW w \in Workers, Flush(w)
    PROVE  IInv'
  <1> DEFINE n == Seal(txn[w].event, txn[w].head)
             t == [left |-> Tail(txn[w].left), first |-> txn[w].first, event |-> Nothing,
                   head |-> Nothing, own |-> txn[w].own \cup {n}]
  <1>1. /\ RowRecord(n) /\ n.id = txn[w].event.id /\ n.at = txn[w].event.at
        /\ n.prev = txn[w].head /\ n.anchor = Nothing
    BY Sealed
  <1>2. /\ TxnRecord(txn[w]) /\ txn[w].head # Nothing /\ txn[w].event # Nothing
        /\ n.at \in Nat /\ n.at < clock /\ n.id = n.at
    BY <1>1 DEF Flush, IInv, Shape
  <1>3. /\ UNCHANGED <<clock, rows, anchoring, altered>>
        /\ clock \in Nat /\ clock' \in Nat /\ clock <= clock'
    BY DEF Flush, IInv, Shape
  <1>4. txn' = [txn EXCEPT ![w] = [txn[w] EXCEPT !.own = txn[w].own \cup {n},
                                                 !.left = Tail(txn[w].left),
                                                 !.event = Nothing, !.head = Nothing]]
    BY DEF Flush, IInv, Shape
  <1> HIDE DEF n
  <1>5. txn' = [txn EXCEPT ![w] = t]
    BY <1>2, <1>4, FlushedRecord
  <1>6. /\ TxnRecord(t) /\ t.head = Nothing /\ t.event = Nothing
        /\ t.own = txn[w].own \cup {n}
    BY DEF TxnRecord
  <1> HIDE DEF t
  <1>7. RowOK(n)
    BY <1>1, <1>2 DEF RowOK
  <1>8. \A r \in t.own : RowOK(r)'
    <2>1. \A r \in t.own : RowOK(r)
      BY <1>6, <1>7 DEF IInv, Shape
    <2>2. QED
      BY <1>3, <2>1 DEF RowOK
  <1>9. Shape'
    BY <1>3, <1>5, <1>6, <1>8, PutShape DEF IInv
  <1>10. ASSUME Sound
         PROVE  Sound'
    <2>1. /\ txn'[w] = t
          /\ \A v \in Workers \ {w} : txn'[v] = txn[v]
      BY <1>5, Put DEF IInv
    <2>2. \A v \in Workers \ {w} : txn'[v].own = {}
      BY <1>10, <2>1, FlushAlone
    <2>3. IsTail(n.prev, rows \cup txn[w].own)
      BY <1>1, <1>10, FlushAtTail
    <2>4. \A r \in rows \cup txn[w].own : r.id # n.id
      BY <1>1, <1>2, <1>10 DEF Sound, Fresh
    <2>5. Good(rows \cup txn[w].own \cup {n})
      <3>1. Good(rows \cup txn[w].own)
        BY <1>10 DEF Sound
      <3>2. \A r \in rows \cup txn[w].own : r.at \in Nat
        BY <1>10 DEF Sound, RowOK, IInv, Shape
      <3>3. QED
        BY <1>2, <2>3, <2>4, <3>1, <3>2, GoodAdd
    <2>6. \A r \in rows' : RowOK(r)'
      BY <1>3, <1>10 DEF Sound, RowOK
    <2>7. Good(rows') /\ \A v \in Workers : Good(rows' \cup txn'[v].own)
      <3>1. Good(rows')
        BY <1>3, <1>10 DEF Sound
      <3>2. Good(rows' \cup txn'[w].own)
        <4>1. rows' \cup txn'[w].own = rows \cup txn[w].own \cup {n}
          BY <1>3, <1>6, <2>1
        <4>2. QED
          BY <2>5, <4>1
      <3>3. ASSUME NEW v \in Workers \ {w}
            PROVE  Good(rows' \cup txn'[v].own)
        <4>1. rows' \cup txn'[v].own = rows'
          BY <2>2
        <4>2. QED
          BY <3>1, <4>1
      <3>4. QED
        BY <3>1, <3>2, <3>3
    <2>8. OneOwner'
      BY <2>2 DEF OneOwner
    <2>9. ASSUME NEW v \in Workers
          PROVE  FromTail(v)' /\ Apart(v)' /\ HeadKnown(v)' /\ Fresh(v)'
      <3>1. CASE v = w
        <4>1. FromTail(w)'
          <5>1. CASE txn[w].own = {}
            <6>1. rows \cup txn[w].own = rows
              BY <5>1
            <6>2. IsTail(n.prev, rows) /\ n \in txn'[w].own
              BY <1>6, <2>1, <2>3, <6>1
            <6>3. QED
              BY <1>3, <6>2 DEF FromTail
          <5>2. CASE txn[w].own # {}
            BY <1>3, <1>6, <1>10, <2>1, <5>2 DEF Sound, FromTail
          <5>3. QED
            BY <5>1, <5>2
        <4>2. Apart(w)'
          BY <1>3, <1>6, <1>10, <2>1, <2>4 DEF Sound, Apart
        <4>3. HeadKnown(w)' /\ Fresh(w)'
          BY <1>6, <2>1 DEF HeadKnown, Fresh
        <4>4. QED
          BY <3>1, <4>1, <4>2, <4>3
      <3>2. CASE v # w
        <4>1. txn'[v] = txn[v] /\ txn'[v].own = {}
          BY <2>1, <2>2, <3>2
        <4>2. FromTail(v)' /\ Apart(v)'
          BY <4>1 DEF FromTail, Apart
        <4>3. HeadKnown(v)'
          BY <1>3, <1>10, <4>1 DEF Sound, HeadKnown
        <4>4. Fresh(v)'
          <5> SUFFICES ASSUME txn[v].event # Nothing
                       PROVE  Fresh(v)'
            BY <4>1 DEF Fresh
          <5>1. n.id # txn[v].event.id
            BY <1>1, <1>2, <1>10, <3>2 DEF Sound, Fresh
          <5>2. \A u \in Workers : \A r \in txn'[u].own : r.id # txn'[v].event.id
            <6>1. \A r \in txn'[w].own : r.id # txn[v].event.id
              BY <1>6, <1>10, <2>1, <5>1 DEF Sound, Fresh
            <6>2. QED
              BY <2>2, <4>1, <6>1
          <5>3. \A u \in Workers \ {v} :
                   txn'[u].event # Nothing => txn'[u].event.id # txn'[v].event.id
            BY <1>6, <1>10, <2>1, <4>1 DEF Sound, Fresh
          <5>4. \A r \in rows' : r.id # txn'[v].event.id
            BY <1>3, <1>10, <4>1 DEF Sound, Fresh
          <5>5. QED
            BY <5>2, <5>3, <5>4 DEF Fresh
        <4>5. QED
          BY <4>2, <4>3, <4>4
      <3>3. QED
        BY <3>1, <3>2
    <2>10. \A o \in Operators : AnchorKnown(o)'
      BY <1>3, <1>10 DEF Sound, AnchorKnown
    <2>11. QED
      BY <2>6, <2>7, <2>8, <2>9, <2>10 DEF Sound
  <1>11. QED
    BY <1>3, <1>9, <1>10 DEF IInv

-----------------------------------------------------------------------------
(***************************************************************************)
(* Commit.                                                                 *)
(***************************************************************************)
LEMMA CommitKeeps ==
    ASSUME IInv, NEW w \in Workers, Commit(w)
    PROVE  IInv'
  <1>1. /\ rows' = rows \cup txn[w].own /\ txn' = [txn EXCEPT ![w] = Idle]
        /\ UNCHANGED <<clock, anchoring, altered>>
    BY DEF Commit
  <1>2. clock \in Nat /\ clock' \in Nat /\ clock <= clock'
    BY <1>1 DEF IInv, Shape
  <1>3. /\ TxnRecord(Idle) /\ Idle.own = {} /\ Idle.event = Nothing /\ Idle.head = Nothing
    BY IdleRecord
  <1>4. Shape'
    BY <1>1, <1>2, <1>3, PutShape DEF IInv
  <1>5. /\ txn'[w] = Idle
        /\ \A v \in Workers \ {w} : txn'[v] = txn[v]
    BY <1>1, Put DEF IInv
  <1>6. ASSUME Sound
        PROVE  Sound'
    <2>1. \A r \in rows' : RowOK(r)'
      BY <1>1, <1>6 DEF Sound, IInv, Shape, RowOK
    <2>2. Good(rows')
      BY <1>1, <1>6 DEF Sound
    <2>3. CASE txn[w].own = {}
      <3>1. rows' = rows
        BY <1>1, <2>3
      <3>2. \A v \in Workers : txn'[v].own = txn[v].own
        BY <1>3, <1>5, <2>3
      <3>3. ASSUME NEW v \in Workers
            PROVE  FromTail(v)' /\ Apart(v)' /\ HeadKnown(v)' /\ Fresh(v)'
        <4>1. FromTail(v)' /\ Apart(v)'
          BY <1>6, <3>1, <3>2 DEF Sound, FromTail, Apart
        <4>2. CASE v = w
          BY <1>3, <1>5, <4>1, <4>2 DEF HeadKnown, Fresh
        <4>3. CASE v # w
          <5>1. txn'[v] = txn[v]
            BY <1>5, <4>3
          <5>2. HeadKnown(v)'
            BY <1>6, <3>1, <5>1 DEF Sound, HeadKnown
          <5>3. \A u \in Workers : txn'[u].event # Nothing => txn'[u].event = txn[u].event
            BY <1>3, <1>5
          <5>4. Fresh(v)'
            BY <1>6, <3>1, <3>2, <5>1, <5>3 DEF Sound, Fresh
          <5>5. QED
            BY <4>1, <5>2, <5>4
        <4>4. QED
          BY <4>2, <4>3
      <3>4. OneOwner' /\ \A v \in Workers : Good(rows' \cup txn'[v].own)
        BY <1>6, <3>1, <3>2 DEF Sound, OneOwner
      <3>5. \A o \in Operators : AnchorKnown(o)'
        BY <1>1, <1>6, <3>1 DEF Sound, AnchorKnown
      <3>6. QED
        BY <2>1, <2>2, <3>3, <3>4, <3>5 DEF Sound
    <2>4. CASE txn[w].own # {}
      <3>1. \A v \in Workers : txn'[v].own = {}
        BY <1>3, <1>5, <1>6, <2>4 DEF Sound, OneOwner
      <3>2. ASSUME NEW v \in Workers
            PROVE  /\ Good(rows' \cup txn'[v].own)
                   /\ FromTail(v)' /\ Apart(v)' /\ HeadKnown(v)' /\ Fresh(v)'
        <4>1. rows' \cup txn'[v].own = rows'
          BY <3>1
        <4>2. Good(rows' \cup txn'[v].own) /\ FromTail(v)' /\ Apart(v)'
          BY <2>2, <3>1, <4>1 DEF FromTail, Apart
        <4>3. CASE v = w
          BY <1>3, <1>5, <4>2, <4>3 DEF HeadKnown, Fresh
        <4>4. CASE v # w
          <5>1. txn'[v] = txn[v] /\ txn[v].own = {}
            BY <1>5, <3>1, <4>4
          <5>2. HeadKnown(v)'
            BY <1>1, <1>6, <5>1 DEF Sound, HeadKnown, Heads
          <5>3. \A u \in Workers : txn'[u].event # Nothing => txn'[u].event = txn[u].event
            BY <1>3, <1>5
          <5>4. \A r \in rows' : txn[v].event # Nothing => r.id # txn[v].event.id
            BY <1>1, <1>6 DEF Sound, Fresh
          <5>5. Fresh(v)'
            BY <1>6, <3>1, <5>1, <5>3, <5>4 DEF Sound, Fresh
          <5>6. QED
            BY <4>2, <5>2, <5>5
        <4>5. QED
          BY <4>3, <4>4
      <3>3. OneOwner'
        BY <3>1 DEF OneOwner
      <3>4. \A o \in Operators : AnchorKnown(o)'
        BY <1>1, <1>6 DEF Sound, AnchorKnown
      <3>5. QED
        BY <2>1, <2>2, <3>2, <3>3, <3>4 DEF Sound
    <2>5. QED
      BY <2>3, <2>4
  <1>7. QED
    BY <1>1, <1>4, <1>6 DEF IInv

-----------------------------------------------------------------------------
(***************************************************************************)
(* Anchoring, and rows changed outside the application.                    *)
(***************************************************************************)
\* An operator reads a row, or gives up.
LEMMA AnchoringKeeps ==
    ASSUME IInv, NEW o \in Operators, NEW a, a = Nothing \/ a \in rows,
           anchoring' = [anchoring EXCEPT ![o] = a], UNCHANGED <<clock, rows, txn, altered>>
    PROVE  IInv'
  <1>1. /\ DOMAIN anchoring' = Operators /\ anchoring' = [p \in Operators |-> anchoring'[p]]
        /\ anchoring'[o] = a
        /\ \A p \in Operators \ {o} : anchoring'[p] = anchoring[p]
    BY DEF IInv, Shape
  <1>2. Shape'
    BY <1>1 DEF IInv, Shape, RowOK
  <1>3. ASSUME Sound
        PROVE  Sound'
    <2>1. \A p \in Operators : AnchorKnown(p)'
      BY <1>1, <1>3 DEF Sound, AnchorKnown
    <2>2. \A r \in rows' : RowOK(r)'
      BY <1>3 DEF Sound, RowOK
    <2>3. \A v \in Workers : FromTail(v)' /\ Apart(v)' /\ HeadKnown(v)' /\ Fresh(v)'
      BY <1>3 DEF Sound, FromTail, Apart, HeadKnown, Fresh
    <2>4. QED
      BY <1>3, <2>1, <2>2, <2>3 DEF Sound, OneOwner
  <1>4. QED
    BY <1>2, <1>3 DEF IInv

\* Anchor sets the anchor of the row that was read to that row's own hash.
LEMMA AnchorEffect ==
    ASSUME IInv, NEW o \in Operators, Anchor(o)
    PROVE  /\ rows' = {Anchored(r, anchoring[o]) : r \in rows}
           /\ anchoring' = [anchoring EXCEPT ![o] = Nothing]
           /\ UNCHANGED <<clock, txn, altered>>
           /\ anchoring[o] # Nothing
  BY DEF Anchor, Anchored

LEMMA AnchoredOK ==
    ASSUME Sound, NEW o \in Operators, anchoring[o] # Nothing, NEW r \in rows
    PROVE  /\ RowOK(Anchored(r, anchoring[o]))
           /\ r.anchor \in {Nothing, Anchored(r, anchoring[o]).anchor}
  <1> DEFINE s == Anchored(r, anchoring[o])
  <1>1. RowOK(r)
    BY DEF Sound
  <1>2. /\ RowRecord(s) /\ s.id = r.id /\ s.at = r.at /\ s.hash = r.hash
        /\ s.anchor = IF r.id = anchoring[o].id THEN anchoring[o].hash ELSE r.anchor
    BY <1>1, AnchoredKeeps DEF RowOK
  <1>3. r.id = anchoring[o].id => r.hash = anchoring[o].hash
    BY DEF Sound, AnchorKnown, Good, IdsOnce
  <1> HIDE DEF s
  <1>4. s.anchor \in {Nothing, s.hash} /\ r.anchor \in {Nothing, s.anchor}
    BY <1>1, <1>2, <1>3 DEF RowOK
  <1>5. RowOK(s)
    BY <1>1, <1>2, <1>4 DEF RowOK
  <1>6. QED
    BY <1>4, <1>5 DEF s

LEMMA AnchorKeeps ==
    ASSUME IInv, NEW o \in Operators, Anchor(o)
    PROVE  IInv'
  <1> DEFINE a == anchoring[o]
  <1>1. /\ rows' = {Anchored(r, a) : r \in rows}
        /\ anchoring' = [anchoring EXCEPT ![o] = Nothing]
        /\ UNCHANGED <<clock, txn, altered>> /\ a # Nothing
    BY AnchorEffect
  <1>2. /\ DOMAIN anchoring' = Operators /\ anchoring' = [p \in Operators |-> anchoring'[p]]
        /\ anchoring'[o] = Nothing
        /\ \A p \in Operators \ {o} : anchoring'[p] = anchoring[p]
    BY <1>1 DEF IInv, Shape
  <1>3. Shape'
    BY <1>1, <1>2 DEF IInv, Shape, RowOK
  <1>4. ASSUME Sound
        PROVE  Sound'
    <2>1. \A r \in rows' : RowOK(r)'
      <3>1. \A r \in rows' : RowOK(r)
        BY <1>1, <1>4, AnchoredOK
      <3>2. QED
        BY <1>1, <3>1 DEF RowOK
    <2>2. \A r \in rows : RowRecord(r)
      BY <1>4 DEF Sound, RowOK
    <2>3. /\ Good(rows') /\ Heads(rows') = Heads(rows)
          /\ \A h : Claimed(h, rows') <=> Claimed(h, rows)
      BY <1>1, <1>4, <2>2, GoodAnchored DEF Sound
    <2>4. ASSUME NEW s \in rows
          PROVE  Anchored(s, a) \in rows' /\ Anchored(s, a).id = s.id /\ Anchored(s, a).hash = s.hash
      BY <1>1, <2>2, AnchoredKeeps
    <2>5. \A s \in rows' : \E r \in rows : s.id = r.id /\ s.hash = r.hash
      BY <1>1, <2>4
    <2>6. ASSUME NEW v \in Workers
          PROVE  /\ Good(rows' \cup txn'[v].own)
                 /\ FromTail(v)' /\ Apart(v)' /\ HeadKnown(v)' /\ Fresh(v)'
      <3> DEFINE seen == rows \cup txn[v].own
      <3>1. \A r \in txn[v].own : Anchored(r, a) = r
        <4>1. PICK s \in rows : s.id = a.id
          BY <1>1, <1>4 DEF Sound, AnchorKnown
        <4>2. \A r \in txn[v].own : r.id # a.id
          BY <1>4, <4>1 DEF Sound, Apart
        <4>3. QED
          BY <4>2 DEF Anchored
      <3>2. rows' \cup txn'[v].own = {Anchored(r, a) : r \in seen}
        BY <1>1, <3>1
      <3>3. Good(seen) /\ \A r \in seen : RowRecord(r)
        BY <1>4, <2>2 DEF Sound, IInv, Shape, RowOK
      <3> HIDE DEF seen
      <3>4. Good(rows' \cup txn'[v].own) /\ Heads(rows' \cup txn'[v].own) = Heads(seen)
        BY <3>2, <3>3, GoodAnchored
      <3>5. HeadKnown(v)'
        BY <1>1, <1>4, <3>4 DEF Sound, HeadKnown, seen
      <3>6. FromTail(v)'
        BY <1>1, <1>4, <2>3 DEF Sound, FromTail, IsTail
      <3>7. Apart(v)' /\ Fresh(v)'
        BY <1>1, <1>4, <2>5 DEF Sound, Apart, Fresh
      <3>8. QED
        BY <3>4, <3>5, <3>6, <3>7
    <2>7. \A p \in Operators : AnchorKnown(p)'
      BY <1>2, <1>4, <2>4 DEF Sound, AnchorKnown
    <2>8. QED
      BY <1>1, <1>4, <2>1, <2>3, <2>6, <2>7 DEF Sound, OneOwner
  <1>5. QED
    BY <1>1, <1>3, <1>4 DEF IInv

\* A row changed outside is on record, and the promises end.
LEMMA AlterKeeps ==
    ASSUME IInv, NEW r \in rows, Alter(r)
    PROVE  IInv' /\ altered' # {}
  <1>1. altered' # {}
    BY DEF Alter
  <1>2. UNCHANGED <<clock, txn, anchoring>>
    BY DEF Alter
  <1>3. Shape'
    BY <1>2 DEF IInv, Shape, RowOK
  <1>4. QED
    BY <1>1, <1>3 DEF IInv

-----------------------------------------------------------------------------
(***************************************************************************)
(* The invariant, and what follows from it.                                *)
(***************************************************************************)
LEMMA InitEstablishes == Init => IInv
  <1> SUFFICES ASSUME Init
               PROVE  IInv
    OBVIOUS
  <1>1. txn = [w \in Workers |-> Idle] /\ rows = {} /\ clock = 1
    BY DEF Init
  <1>2. Shape
    BY <1>1, IdleRecord DEF Init, Shape
  <1>3. Good({})
    BY DEF Good, Line, OneTail, HasLast, IdsOnce, Heads
  <1>4. \A w \in Workers : rows \cup txn[w].own = {}
    BY <1>1, IdleRecord
  <1>5. Sound
    BY <1>1, <1>3, <1>4, IdleRecord DEF Init, Sound, OneOwner, FromTail, Apart, HeadKnown, Fresh,
                                    AnchorKnown
  <1>6. QED
    BY <1>2, <1>5 DEF IInv

LEMMA StepKeeps == IInv /\ [Next]_vars => IInv'
  <1> SUFFICES ASSUME IInv, [Next]_vars
               PROVE  IInv'
    OBVIOUS
  <1>1. ASSUME NEW w \in Workers, NEW q \in Requests, Begin(w, q)
        PROVE  IInv'
    BY <1>1, BeginKeeps
  <1>2. ASSUME NEW w \in Workers, Stamp(w)
        PROVE  IInv'
    BY <1>2, StampKeeps
  <1>3. ASSUME NEW w \in Workers, ReadHead(w)
        PROVE  IInv'
    BY <1>3, ReadHeadKeeps
  <1>4. ASSUME NEW w \in Workers, Flush(w)
        PROVE  IInv'
    BY <1>4, FlushKeeps
  <1>5. ASSUME NEW w \in Workers, Conflict(w) \/ RollBack(w)
        PROVE  IInv'
    BY <1>5, RollBackKeeps
  <1>6. ASSUME NEW w \in Workers, Commit(w)
        PROVE  IInv'
    BY <1>6, CommitKeeps
  <1>7. ASSUME NEW o \in Operators, NEW r \in rows, ReadForAnchor(o, r)
        PROVE  IInv'
    BY <1>7, AnchoringKeeps DEF ReadForAnchor
  <1>8. ASSUME NEW o \in Operators, PublisherFails(o)
        PROVE  IInv'
    BY <1>8, AnchoringKeeps DEF PublisherFails
  <1>9. ASSUME NEW o \in Operators, Anchor(o)
        PROVE  IInv'
    BY <1>9, AnchorKeeps
  <1>10. ASSUME NEW r \in rows, Alter(r)
         PROVE  IInv'
    BY <1>10, AlterKeeps
  <1>11. CASE UNCHANGED vars
    <2>1. UNCHANGED <<clock, rows, txn, anchoring, altered>>
      BY <1>11 DEF vars
    <2>2. Shape'
      BY <2>1 DEF IInv, Shape, RowOK
    <2>3. Sound => \A r \in rows' : RowOK(r)'
      BY <2>1 DEF Sound, RowOK
    <2>4. Sound => \A w \in Workers : FromTail(w)' /\ Apart(w)' /\ HeadKnown(w)' /\ Fresh(w)'
      BY <2>1 DEF Sound, FromTail, Apart, HeadKnown, Fresh
    <2>5. Sound => \A o \in Operators : AnchorKnown(o)'
      BY <2>1 DEF Sound, AnchorKnown
    <2>6. Sound => Sound'
      BY <2>1, <2>3, <2>4, <2>5 DEF Sound, OneOwner
    <2>7. QED
      BY <2>1, <2>2, <2>6 DEF IInv
  <1>12. QED
    BY <1>1, <1>2, <1>3, <1>4, <1>5, <1>6, <1>7, <1>8, <1>9, <1>10, <1>11 DEF Next

\* The invariant holds in every reachable state of the log.
THEOREM IInvHolds == Spec => []IInv
  BY InitEstablishes, StepKeeps, PTL DEF Spec

\* Whatever transactions append at once, the chain never forks and has no hole, and only one
\* transaction at a time has recorded events.
THEOREM ChainNeverForks == Spec => []ChainIsLine
  <1>1. IInv => ChainIsLine
    BY DEF IInv, Sound, Good, OneOwner, ChainIsLine
  <1>2. QED
    BY <1>1, IInvHolds, PTL

\* A committed row is never changed or removed by the application, save that its anchor is
\* set, and set to one value only.
THEOREM RowsAreKept == Spec => HistoryKept
  <1>1. IInv /\ [Next]_vars => [altered' = {} => \A r \in rows : RowKept(r)]_vars
    <2> SUFFICES ASSUME IInv, Next, altered' = {}, NEW r \in rows
                 PROVE  RowKept(r)
      OBVIOUS
    <2>1. CASE rows \subseteq rows'
      <3>1. r \in rows' /\ r = [r EXCEPT !.anchor = r.anchor]
        <4>1. altered = {}
          BY AlterKeeps DEF Next, Begin, Stamp, ReadHead, Flush, Conflict, Commit, RollBack,
                            ReadForAnchor, Anchor, PublisherFails
        <4>2. RowRecord(r)
          BY <4>1 DEF IInv, Sound, RowOK
        <4>3. QED
          BY <2>1, <4>2 DEF RowRecord
      <3>2. QED
        BY <3>1 DEF RowKept
    <2>2. CASE \E o \in Operators : Anchor(o)
      <3>1. PICK o \in Operators : Anchor(o)
        BY <2>2
      <3>2. /\ rows' = {Anchored(s, anchoring[o]) : s \in rows}
            /\ altered = {} /\ anchoring[o] # Nothing
        BY <3>1, AnchorEffect
      <3>3. Sound /\ RowRecord(r)
        BY <3>2 DEF IInv, Sound, RowOK
      <3> DEFINE s == Anchored(r, anchoring[o])
      <3>4. s \in rows' /\ s = [r EXCEPT !.anchor = s.anchor] /\ r.anchor \in {Nothing, s.anchor}
        BY <3>2, <3>3, AnchoredKeeps, AnchoredOK
      <3>5. QED
        BY <3>4 DEF RowKept
    <2>3. rows \subseteq rows' \/ \E o \in Operators : Anchor(o)
      BY AlterKeeps DEF Next, Begin, Stamp, ReadHead, Flush, Conflict, Commit, RollBack,
                        ReadForAnchor, PublisherFails
    <2>4. QED
      BY <2>1, <2>2, <2>3
  <1>2. QED
    BY <1>1, IInvHolds, PTL DEF Spec, HistoryKept

-----------------------------------------------------------------------------
(***************************************************************************)
(* What the events of a request are.                                       *)
(***************************************************************************)
\* The hash of a row covers its content, and its own hash is not the one it follows.
Hashed(r) == r.hash = Fingerprint(r, r.prev)
NotOwn(r) == r.id # 0 /\ r.prev.id # r.id

\* The first and the second event of a request.
IsFirst(q, r) == r.first = r.at /\ r.type = Recorded(q)[1]
IsSecond(q, r, s) == /\ Len(Recorded(q)) = 2
                     /\ s.first = r.at /\ r.at < s.at /\ s.type = Recorded(q)[2]
                     /\ s.prev = r.hash

\* What a transaction that serves q has recorded, and what it has left.
Serves(q, t) ==
    \/ t.own = {} /\ t.left = Recorded(q)
    \/ \E r \in t.own : /\ t.own = {r} /\ t.left = Tail(Recorded(q))
                       /\ IsFirst(q, r) /\ t.first = r.at
    \/ \E r, s \in t.own : /\ t.own = {r, s} /\ t.left = <<>>
                           /\ IsFirst(q, r) /\ IsSecond(q, r, s) /\ t.first = r.at

TxnWhole(t) ==
    /\ t.left # <<>> \/ t.own # {} => \E q \in Requests : Serves(q, t)
    /\ \A r \in t.own : NotOwn(r)
    /\ t.event # Nothing => /\ t.left # <<>> /\ t.event.type = t.left[1]
                            /\ t.event.first = t.first
                            /\ t.own = {} => t.first = t.event.at
                            /\ \A r \in t.own : r.at < t.event.at

\* The rows of a request that has committed.
Whole(q, rs) ==
    \/ \E r \in rs : rs = {r} /\ Len(Recorded(q)) = 1 /\ IsFirst(q, r)
    \/ \E r, s \in rs : rs = {r, s} /\ IsFirst(q, r) /\ IsSecond(q, r, s)

Group(r, rs) == {s \in rs : s.first = r.first}

Told ==
    /\ \A w \in Workers : TxnWhole(txn[w])
    /\ \A r \in rows : Hashed(r) /\ NotOwn(r)
    /\ \A r \in rows : \E q \in Requests : Whole(q, Group(r, rows))

\* A changed row does not match its hash.  When one was removed, a row still names it, and
\* nothing else has its id or will ever have it.
ChangeFound == \E r \in rows : RowRecord(r) /\ ~Hashed(r)

RemovalFound(i) ==
    /\ i \in Nat \ {0} /\ i < clock
    /\ \A r \in rows : RowRecord(r) /\ Hashed(r) /\ r.at \in Nat /\ r.at < clock /\ r.id # i
    /\ \A w \in Workers : /\ \A r \in txn[w].own : r.id # i
                          /\ txn[w].event # Nothing => txn[w].event.id # i
    /\ \E r \in rows : r.prev.id = i

Found ==
    \E a \in altered :
           /\ altered = {a}
           /\ a[1] \in {"changed", "removed", "last"}
           /\ a[1] = "changed" => ChangeFound
           /\ a[1] = "removed" => RemovalFound(a[2])

RecordInv ==
    /\ clock # 0
    /\ \A w \in Workers : /\ \A r \in txn[w].own : Hashed(r)
                          /\ txn[w].event # Nothing => txn[w].event.at # 0
    /\ altered = {} => Told
    /\ altered # {} => Found

-----------------------------------------------------------------------------
\* A request records one event or two.
LEMMA RecordedLists ==
    ASSUME NEW q \in Requests
    PROVE  \/ \E x : x # "corrected" /\ Recorded(q) = <<x>>
           \/ \E x, y : x # "corrected" /\ y # "corrected" /\ Recorded(q) = <<x, y>>
  <1>1. q \in {"place", "clear", "validate", "price", "reconcile", "settle"}
    BY ChainAssumption
  <1>2. CASE q = "place"
    <2>1. Recorded(q) = <<"order_placed">>
      BY <1>2 DEF Recorded
    <2>2. QED
      BY <2>1
  <1>3. CASE q = "clear"
    <2>1. Recorded(q) = <<"market_cleared", "trade_proposed">>
      BY <1>3 DEF Recorded
    <2>2. QED
      BY <2>1
  <1>4. CASE q = "validate"
    <2>1. Recorded(q) = <<"grid_validation_recorded">>
      BY <1>4 DEF Recorded
    <2>2. QED
      BY <2>1
  <1>5. CASE q = "price"
    <2>1. Recorded(q) = <<"price_calculated">>
      BY <1>5 DEF Recorded
    <2>2. QED
      BY <2>1
  <1>6. CASE q = "reconcile"
    <2>1. Recorded(q) = <<"trade_reconciled">>
      BY <1>6 DEF Recorded
    <2>2. QED
      BY <2>1
  <1>7. CASE q = "settle"
    <2>1. Recorded(q) = <<"trade_reconciled", "trade_settled">>
      BY <1>7 DEF Recorded
    <2>2. QED
      BY <2>1
  <1>8. QED
    BY <1>1, <1>2, <1>3, <1>4, <1>5, <1>6, <1>7

LEMMA RecordedParts ==
    ASSUME NEW q \in Requests
    PROVE  /\ Recorded(q) # <<>> /\ Len(Recorded(q)) \in {1, 2}
           /\ Tail(Recorded(q)) = <<>> <=> Len(Recorded(q)) = 1
           /\ Tail(Recorded(q)) # <<>> => /\ Tail(Recorded(q))[1] = Recorded(q)[2]
                                          /\ Tail(Tail(Recorded(q))) = <<>>
           /\ Recorded(q)[1] # "corrected"
           /\ Len(Recorded(q)) = 2 => Recorded(q)[2] # "corrected"
  <1>1. CASE \E x : x # "corrected" /\ Recorded(q) = <<x>>
    <2>1. PICK x : x # "corrected" /\ Recorded(q) = <<x>>
      BY <1>1
    <2>2. Tail(<<x>>) = <<>> /\ Len(<<x>>) = 1 /\ <<x>> # <<>> /\ <<x>>[1] = x
      OBVIOUS
    <2>3. QED
      BY <2>1, <2>2
  <1>2. CASE \E x, y : x # "corrected" /\ y # "corrected" /\ Recorded(q) = <<x, y>>
    <2>1. PICK x, y : x # "corrected" /\ y # "corrected" /\ Recorded(q) = <<x, y>>
      BY <1>2
    <2>2. /\ Tail(<<x, y>>) = <<y>> /\ Len(<<x, y>>) = 2 /\ <<x, y>> # <<>>
          /\ <<x, y>>[1] = x /\ <<x, y>>[2] = y
          /\ <<y>> # <<>> /\ <<y>>[1] = y /\ Tail(<<y>>) = <<>>
      OBVIOUS
    <2>3. QED
      BY <2>1, <2>2
  <1>3. QED
    BY <1>1, <1>2, RecordedLists

\* Fingerprints that are equal cover the same.
LEMMA Fingerprints ==
    /\ \A r, p : Fingerprint(r, p).id = r.id /\ Fingerprint(r, p).at = r.at
                 /\ Fingerprint(r, p).type = r.type /\ Fingerprint(r, p).prev = p
    /\ Genesis.id = 0
  BY DEF Fingerprint, Genesis

\* Of the rows that transactions see, equal ids make equal rows.
LEMMA SameRow ==
    ASSUME NEW rs, Good(rs), NEW r \in rs, NEW s \in rs, Hashed(r), Hashed(s), r.id = s.id
    PROVE  r = s
  <1>1. r.hash = s.hash
    BY DEF Good, IdsOnce
  <1>2. r.prev = s.prev
    <2>1. Fingerprint(r, r.prev).prev = r.prev /\ Fingerprint(s, s.prev).prev = s.prev
      BY Fingerprints
    <2>2. QED
      BY <1>1, <2>1 DEF Hashed
  <1>3. QED
    BY <1>2 DEF Good, Line

LEMMA AnchoredContent ==
    ASSUME NEW r, RowRecord(r), NEW a
    PROVE  /\ Anchored(r, a).type = r.type /\ Anchored(r, a).first = r.first
           /\ \A p : Fingerprint(Anchored(r, a), p) = Fingerprint(r, p)
  <1>1. CASE r.id # a.id
    BY <1>1 DEF Anchored
  <1>2. CASE r.id = a.id
    <2>1. Anchored(r, a) = [r EXCEPT !.anchor = Reference(a)]
      BY <1>2 DEF Anchored
    <2>2. [r EXCEPT !.anchor = Reference(a)]
            = [id |-> r.id, type |-> r.type, subject |-> r.subject, at |-> r.at,
               first |-> r.first, prev |-> r.prev, hash |-> r.hash, anchor |-> Reference(a)]
      BY DEF RowRecord
    <2>3. QED
      BY <2>1, <2>2 DEF Fingerprint
  <1>3. QED
    BY <1>1, <1>2

-----------------------------------------------------------------------------
(***************************************************************************)
(* Steps of a transaction.                                                 *)
(***************************************************************************)
\* What is to be shown of a record that replaces a transaction's.
LEMMA PutRecord ==
    ASSUME IInv, RecordInv, NEW w \in Workers, NEW t, txn' = [txn EXCEPT ![w] = t],
           UNCHANGED <<rows, altered>>, clock' \in Nat, clock <= clock',
           \A r \in t.own : Hashed(r),
           t.event # Nothing => t.event.at # 0,
           altered = {} => TxnWhole(t),
           \A i \in Nat : i # 0 /\ i < clock
                             /\ (\A r \in txn[w].own : r.id # i)
                             /\ (txn[w].event # Nothing => txn[w].event.id # i)
                          => /\ \A r \in t.own : r.id # i
                             /\ t.event # Nothing => t.event.id # i
    PROVE  RecordInv'
  <1>1. txn'[w] = t /\ \A v \in Workers \ {w} : txn'[v] = txn[v]
    BY Put DEF IInv
  <1>2. clock \in Nat /\ clock # 0 /\ clock' # 0
    BY DEF IInv, Shape, RecordInv
  <1>3. ASSUME NEW v \in Workers
        PROVE  /\ \A r \in txn'[v].own : Hashed(r)
               /\ txn'[v].event # Nothing => txn'[v].event.at # 0
    <2>1. CASE v = w
      BY <1>1, <2>1
    <2>2. CASE v # w
      BY <1>1, <2>2 DEF RecordInv
    <2>3. QED
      BY <2>1, <2>2
  <1>4. ASSUME altered = {}
        PROVE  Told'
    <2>1. \A v \in Workers : TxnWhole(txn'[v])
      BY <1>1, <1>4 DEF RecordInv, Told
    <2>2. /\ \A r \in rows' : Hashed(r) /\ NotOwn(r)
          /\ \A r \in rows' : \E q \in Requests : Whole(q, Group(r, rows'))
      BY <1>4 DEF RecordInv, Told
    <2>3. QED
      BY <2>1, <2>2 DEF Told
  <1>5. ASSUME altered # {}
        PROVE  Found'
    <2>1. PICK a \in altered : /\ altered = {a}
                               /\ a[1] \in {"changed", "removed", "last"}
                               /\ a[1] = "changed" => ChangeFound
                               /\ a[1] = "removed" => RemovalFound(a[2])
      BY <1>5 DEF RecordInv, Found
    <2>2. ChangeFound => ChangeFound'
      BY DEF ChangeFound
    <2>3. ASSUME RemovalFound(a[2])
          PROVE  RemovalFound(a[2])'
      <3> DEFINE i == a[2]
      <3>1. /\ i \in Nat \ {0} /\ i < clock /\ i < clock'
            /\ \A r \in rows : /\ RowRecord(r) /\ Hashed(r) /\ r.at \in Nat /\ r.at < clock'
                               /\ r.id # i
            /\ \E r \in rows : r.prev.id = i
        BY <1>2, <2>3 DEF RemovalFound
      <3>2. \A v \in Workers : /\ \A r \in txn[v].own : r.id # i
                               /\ txn[v].event # Nothing => txn[v].event.id # i
        BY <2>3 DEF RemovalFound
      <3>3. /\ \A r \in t.own : r.id # i
            /\ t.event # Nothing => t.event.id # i
        BY <2>3, <3>1, <3>2
      <3> HIDE DEF i
      <3>4. \A v \in Workers : /\ \A r \in txn'[v].own : r.id # i
                               /\ txn'[v].event # Nothing => txn'[v].event.id # i
        BY <1>1, <3>2, <3>3
      <3>5. RemovalFound(i)'
        BY <3>1, <3>4 DEF RemovalFound
      <3>6. QED
        BY <3>5 DEF i
    <2>4. QED
      BY <2>1, <2>2, <2>3 DEF Found
  <1>6. QED
    BY <1>2, <1>3, <1>4, <1>5 DEF RecordInv

LEMMA BegunRecord ==
    ASSUME NEW q
    PROVE  LET t == [Idle EXCEPT !.left = Recorded(q)]
           IN  t.own = {} /\ t.event = Nothing /\ t.left = Recorded(q)
  BY DEF Idle

LEMMA BeginRecords ==
    ASSUME IInv, RecordInv, NEW w \in Workers, NEW q \in Requests, Begin(w, q)
    PROVE  RecordInv'
  <1>1. PICK t : t = [Idle EXCEPT !.left = Recorded(q)]
    OBVIOUS
  <1>2. t.own = {} /\ t.event = Nothing /\ t.left = Recorded(q)
    BY <1>1, BegunRecord
  <1>3. txn' = [txn EXCEPT ![w] = t] /\ UNCHANGED <<clock, rows, altered>>
    BY <1>1 DEF Begin
  <1>4. clock' \in Nat /\ clock <= clock'
    BY <1>3 DEF IInv, Shape
  <1>5. TxnWhole(t)
    BY <1>2 DEF TxnWhole, Serves
  <1>6. QED
    BY <1>2, <1>3, <1>4, <1>5, PutRecord

LEMMA RollBackRecords ==
    ASSUME IInv, RecordInv, NEW w \in Workers, RollBack(w) \/ Conflict(w)
    PROVE  RecordInv'
  <1>1. Idle.own = {} /\ Idle.event = Nothing /\ Idle.left = <<>>
    BY DEF Idle
  <1>2. /\ txn' = [txn EXCEPT ![w] = Idle] /\ UNCHANGED <<clock, rows, altered>>
        /\ clock' \in Nat /\ clock <= clock'
    BY DEF RollBack, Conflict, IInv, Shape
  <1>3. TxnWhole(Idle)
    BY <1>1 DEF TxnWhole
  <1>4. QED
    BY <1>1, <1>2, <1>3, PutRecord

\* A stamp is later than all that were taken.
LEMMA StampRecords ==
    ASSUME IInv, RecordInv, NEW w \in Workers, Stamp(w)
    PROVE  RecordInv'
  <1> DEFINE type == txn[w].left[1]
             begun == IF txn[w].own = {} THEN clock ELSE txn[w].first
             e == [id |-> clock, type |-> type, at |-> clock, subject |-> Subject(type),
                   first |-> begun]
             t == [left |-> txn[w].left, first |-> begun, event |-> e, head |-> txn[w].head,
                   own |-> txn[w].own]
  <1>1. TxnRecord(txn[w]) /\ txn[w].left # <<>>
    BY DEF Stamp, IInv, Shape
  <1>2. txn' = [txn EXCEPT ![w].first = begun, ![w].event = e] /\ clock' = clock + 1
    BY DEF Stamp
  <1>3. e.at = clock /\ e.id = clock /\ e.type = txn[w].left[1] /\ e.first = begun
    OBVIOUS
  <1>4. begun = IF txn[w].own = {} THEN clock ELSE txn[w].first
    OBVIOUS
  <1> HIDE DEF e, begun, type
  <1>5. [[txn[w] EXCEPT !.first = begun] EXCEPT !.event = e] = t
    <2> DEFINE u == [left |-> txn[w].left, first |-> begun, event |-> txn[w].event,
                     head |-> txn[w].head, own |-> txn[w].own]
    <2>1. [txn[w] EXCEPT !.first = begun] = u
      BY <1>1 DEF TxnRecord
    <2>2. [u EXCEPT !.event = e] = t
      OBVIOUS
    <2>3. QED
      BY <2>1, <2>2
  <1>6. txn' = [txn EXCEPT ![w] = t]
    <2>1. txn' = [txn EXCEPT ![w] = [[txn[w] EXCEPT !.first = begun] EXCEPT !.event = e]]
      BY <1>2 DEF IInv, Shape
    <2>2. QED
      BY <1>5, <2>1
  <1>7. t.left = txn[w].left /\ t.own = txn[w].own /\ t.event = e /\ t.first = begun
    OBVIOUS
  <1>8. /\ clock \in Nat /\ clock' \in Nat /\ clock <= clock' /\ clock # 0
        /\ UNCHANGED <<rows, altered>>
    <2>1. clock \in Nat /\ clock # 0
      BY DEF IInv, Shape, RecordInv
    <2>2. UNCHANGED <<rows, altered>>
      BY DEF Stamp
    <2>3. QED
      BY <1>2, <2>1, <2>2
  <1> HIDE DEF t
  <1>9. \A r \in t.own : Hashed(r) /\ r.at < clock
    BY <1>7 DEF RecordInv, IInv, Shape, RowOK
  <1>10. ASSUME altered = {}
         PROVE  TxnWhole(t)
    <2>1. TxnWhole(txn[w])
      BY <1>10 DEF RecordInv, Told
    <2>2. \A q \in Requests : Serves(q, txn[w]) => Serves(q, t)
      BY <1>4, <1>7 DEF Serves
    <2>3. \E q \in Requests : Serves(q, t)
      BY <1>1, <2>1, <2>2 DEF TxnWhole
    <2>4. QED
      BY <1>1, <1>3, <1>4, <1>7, <1>9, <2>1, <2>3 DEF TxnWhole
  <1>11. /\ \A r \in t.own : Hashed(r)
         /\ t.event # Nothing => t.event.at # 0
    BY <1>3, <1>7, <1>8, <1>9
  <1>12. \A i \in Nat : i # 0 /\ i < clock
                             /\ (\A r \in txn[w].own : r.id # i)
                             /\ (txn[w].event # Nothing => txn[w].event.id # i)
                          => /\ \A r \in t.own : r.id # i
                             /\ t.event # Nothing => t.event.id # i
    BY <1>3, <1>7, <1>8
  <1>13. QED
    BY <1>6, <1>8, <1>10, <1>11, <1>12, PutRecord

LEMMA ReadHeadRecords ==
    ASSUME IInv, RecordInv, NEW w \in Workers, ReadHead(w)
    PROVE  RecordInv'
  <1> DEFINE h == ChainHead(rows \cup txn[w].own)
             t == [left |-> txn[w].left, first |-> txn[w].first, event |-> txn[w].event,
                   head |-> h, own |-> txn[w].own]
  <1>1. TxnRecord(txn[w]) /\ txn[w].event # Nothing
    BY DEF ReadHead, IInv, Shape
  <1>2. txn' = [txn EXCEPT ![w] = t]
    <2>1. [txn[w] EXCEPT !.head = h] = t
      BY <1>1 DEF TxnRecord
    <2>2. QED
      BY <2>1 DEF ReadHead, IInv, Shape
  <1>3. /\ t.left = txn[w].left /\ t.own = txn[w].own /\ t.event = txn[w].event
        /\ t.first = txn[w].first
    OBVIOUS
  <1> HIDE DEF t
  <1>4. /\ UNCHANGED <<clock, rows, altered>>
        /\ clock \in Nat /\ clock' \in Nat /\ clock <= clock'
    BY DEF ReadHead, IInv, Shape
  <1>5. ASSUME altered = {}
        PROVE  TxnWhole(t)
    <2>1. TxnWhole(txn[w])
      BY <1>5 DEF RecordInv, Told
    <2>2. QED
      BY <1>3, <2>1 DEF TxnWhole, Serves
  <1>6. /\ \A r \in t.own : Hashed(r)
        /\ t.event # Nothing => t.event.at # 0
    BY <1>3 DEF RecordInv
  <1>7. QED
    BY <1>2, <1>3, <1>4, <1>5, <1>6, PutRecord

\* What the sealed row says of the event.
LEMMA SealedEvent ==
    ASSUME NEW e, NEW h
    PROVE  LET n == Seal(e, h)
           IN  Hashed(n) /\ n.type = e.type /\ n.first = e.first
  BY DEF Seal, Hashed, Fingerprint

\* The hash of a transaction's first row is the tail of the rows it sees.
LEMMA OwnTail ==
    ASSUME Sound, Told, NEW w \in Workers, NEW r, txn[w].own = {r}, Hashed(r)
    PROVE  IsTail(r.hash, rows \cup {r})
  <1>1. r.hash.id = r.id /\ r.id # 0 /\ r.prev # r.hash
    BY Fingerprints DEF Told, TxnWhole, NotOwn, Hashed
  <1>2. ASSUME NEW s \in rows, s.prev = r.hash
        PROVE  FALSE
    <2>1. s.prev # Genesis
      BY <1>1, <1>2, Fingerprints
    <2>2. PICK u \in rows : u.hash = s.prev
      BY <2>1 DEF Sound, Good, Line
    <2>3. u.hash.id = u.id
      BY Fingerprints DEF Told, Hashed
    <2>4. u.id # r.id
      BY DEF Sound, Apart
    <2>5. QED
      BY <1>1, <1>2, <2>2, <2>3, <2>4
  <1>3. QED
    BY <1>1, <1>2 DEF IsTail, Heads, Claimed

\* The row that is flushed goes on with its request.
LEMMA FlushServes ==
    ASSUME IInv, Sound, Told, NEW w \in Workers, Flush(w), \A r \in txn[w].own : Hashed(r),
           NEW n, n.type = txn[w].event.type, n.first = txn[w].event.first,
           n.at = txn[w].event.at, n.prev = txn[w].head,
           NEW t, t.own = txn[w].own \cup {n}, t.left = Tail(txn[w].left),
           t.first = txn[w].first
    PROVE  \E q \in Requests : Serves(q, t)
  <1>1. txn[w].event # Nothing
    BY DEF Flush, IInv, Shape
  <1>2. /\ txn[w].left # <<>> /\ n.type = txn[w].left[1] /\ n.first = txn[w].first
        /\ txn[w].own = {} => txn[w].first = n.at
        /\ \A r \in txn[w].own : r.at < n.at
    BY <1>1 DEF Told, TxnWhole
  <1>3. PICK q \in Requests : Serves(q, txn[w])
    BY <1>2 DEF Told, TxnWhole
  <1>4. CASE txn[w].own = {} /\ txn[w].left = Recorded(q)
    <2>1. t.own = {n} /\ n \in t.own /\ t.left = Tail(Recorded(q)) /\ t.first = n.at
      BY <1>2, <1>4
    <2>2. IsFirst(q, n)
      BY <1>2, <1>4 DEF IsFirst
    <2>3. QED
      BY <2>1, <2>2 DEF Serves
  <1>5. CASE \E r \in txn[w].own : /\ txn[w].own = {r} /\ txn[w].left = Tail(Recorded(q))
                                   /\ IsFirst(q, r) /\ txn[w].first = r.at
    <2>1. PICK r \in txn[w].own : /\ txn[w].own = {r} /\ txn[w].left = Tail(Recorded(q))
                                  /\ IsFirst(q, r) /\ txn[w].first = r.at
      BY <1>5
    <2>2. /\ Len(Recorded(q)) = 2 /\ n.type = Recorded(q)[2] /\ t.left = <<>>
      BY <1>2, <2>1, RecordedParts
    <2>3. IsTail(r.hash, rows \cup txn[w].own)
      BY <2>1, OwnTail
    <2>4. n.prev = r.hash
      BY <2>3, FlushAtTail DEF Sound, Good, OneTail, IsTail
    <2>5. IsSecond(q, r, n)
      BY <1>2, <2>1, <2>2, <2>4 DEF IsSecond
    <2>6. t.own = {r, n} /\ r \in t.own /\ n \in t.own /\ t.first = r.at
      BY <2>1
    <2>7. QED
      BY <2>1, <2>2, <2>5, <2>6 DEF Serves
  <1>6. QED
    BY <1>2, <1>3, <1>4, <1>5 DEF Serves

LEMMA FlushRecords ==
    ASSUME IInv, RecordInv, NEW w \in Workers, Flush(w)
    PROVE  RecordInv'
  <1>1. PICK n : n = Seal(txn[w].event, txn[w].head)
    OBVIOUS
  <1>2. /\ n.id = txn[w].event.id /\ n.at = txn[w].event.at /\ n.prev = txn[w].head
        /\ Hashed(n) /\ n.type = txn[w].event.type /\ n.first = txn[w].event.first
    BY <1>1, Sealed, SealedEvent
  <1>3. PICK t : t = [left |-> Tail(txn[w].left), first |-> txn[w].first, event |-> Nothing,
                      head |-> Nothing, own |-> txn[w].own \cup {n}]
    OBVIOUS
  <1>4. /\ t.left = Tail(txn[w].left) /\ t.first = txn[w].first /\ t.event = Nothing
        /\ t.own = txn[w].own \cup {n}
    BY <1>3
  <1>5. /\ TxnRecord(txn[w]) /\ txn[w].head # Nothing /\ txn[w].event # Nothing
        /\ txn[w].event.id = txn[w].event.at
    BY DEF Flush, IInv, Shape
  <1>6. txn' = [txn EXCEPT ![w] = [txn[w] EXCEPT !.own = txn[w].own \cup {n},
                                                 !.left = Tail(txn[w].left),
                                                 !.event = Nothing, !.head = Nothing]]
    BY <1>1 DEF Flush, IInv, Shape
  <1>7. txn' = [txn EXCEPT ![w] = t]
    BY <1>3, <1>5, <1>6, FlushedRecord
  <1>8. UNCHANGED <<clock, rows, altered>>
    BY DEF Flush
  <1>9. clock' \in Nat /\ clock <= clock'
    BY <1>8 DEF IInv, Shape
  <1>10. \A r \in txn[w].own : Hashed(r)
    BY DEF RecordInv
  <1>11. ASSUME altered = {}
         PROVE  TxnWhole(t)
    <2>1. Sound /\ Told
      BY <1>11 DEF IInv, RecordInv
    <2>2. \E q \in Requests : Serves(q, t)
      BY <1>2, <1>4, <1>10, <2>1, FlushServes
    <2>3. NotOwn(n)
      <3>1. n.id # 0
        BY <1>2, <1>5 DEF RecordInv
      <3>2. CASE n.prev = Genesis
        BY <3>1, <3>2, Fingerprints DEF NotOwn
      <3>3. CASE n.prev # Genesis
        <4>1. PICK r \in rows \cup txn[w].own : n.prev = r.hash
          BY <1>2, <1>5, <2>1, <3>3 DEF Sound, HeadKnown, Heads
        <4>2. r.hash.id = r.id
          BY <1>10, <2>1, Fingerprints DEF Told, Hashed
        <4>3. r.id # n.id
          BY <1>2, <1>5, <2>1 DEF Sound, Fresh
        <4>4. QED
          BY <3>1, <4>1, <4>2, <4>3 DEF NotOwn
      <3>4. QED
        BY <3>2, <3>3
    <2>4. \A r \in t.own : NotOwn(r)
      BY <1>4, <2>1, <2>3 DEF Told, TxnWhole
    <2>5. QED
      BY <1>4, <2>2, <2>4 DEF TxnWhole
  <1>12. /\ \A r \in t.own : Hashed(r)
         /\ t.event # Nothing => t.event.at # 0
    BY <1>2, <1>4, <1>10
  <1>13. \A i \in Nat : i # 0 /\ i < clock
                             /\ (\A r \in txn[w].own : r.id # i)
                             /\ (txn[w].event # Nothing => txn[w].event.id # i)
                          => /\ \A r \in t.own : r.id # i
                             /\ t.event # Nothing => t.event.id # i
    BY <1>2, <1>4, <1>5
  <1>14. QED
    BY <1>7, <1>8, <1>9, <1>11, <1>12, <1>13, PutRecord

\* What a transaction has recorded when nothing is left of its request is the whole of it.
LEMMA OwnWhole ==
    ASSUME NEW q \in Requests, NEW t, Serves(q, t), t.own # {}, t.left = <<>>
    PROVE  Whole(q, t.own) /\ \E r \in t.own : r.first = r.at /\ \A s \in t.own : s.first = r.at
  <1>1. CASE \E r \in t.own : /\ t.own = {r} /\ t.left = Tail(Recorded(q)) /\ IsFirst(q, r)
    <2>1. Len(Recorded(q)) = 1
      BY <1>1, RecordedParts
    <2>2. QED
      BY <1>1, <2>1 DEF Whole, IsFirst
  <1>2. CASE \E r, s \in t.own : t.own = {r, s} /\ IsFirst(q, r) /\ IsSecond(q, r, s)
    BY <1>2 DEF Whole, IsFirst, IsSecond
  <1>3. QED
    BY <1>1, <1>2 DEF Serves

\* The first event of a request is among its rows.
LEMMA WholeFirst ==
    ASSUME NEW q, NEW rs, Whole(q, rs)
    PROVE  \E r \in rs : r.first = r.at
  BY DEF Whole, IsFirst

LEMMA CommitWhole ==
    ASSUME IInv, Sound, Told, NEW w \in Workers, Commit(w), NEW r \in rows'
    PROVE  \E q \in Requests : Whole(q, Group(r, rows'))
  <1>1. rows' = rows \cup txn[w].own /\ txn[w].left = <<>>
    BY DEF Commit
  <1>2. CASE txn[w].own = {}
    <2>1. rows' = rows
      BY <1>1, <1>2
    <2>2. QED
      BY <2>1 DEF Told
  <1>3. CASE txn[w].own # {}
    <2>1. PICK q \in Requests : Serves(q, txn[w])
      BY <1>3 DEF Told, TxnWhole
    <2>2. PICK f \in txn[w].own : f.first = f.at /\ \A s \in txn[w].own : s.first = f.at
      BY <1>1, <1>3, <2>1, OwnWhole
    <2>3. Whole(q, txn[w].own)
      BY <1>1, <1>3, <2>1, OwnWhole
    <2>4. ASSUME NEW u \in rows
          PROVE  u.first # f.at
      <3>1. PICK p \in Requests : Whole(p, Group(u, rows))
        BY DEF Told
      <3>2. PICK g \in Group(u, rows) : g.first = g.at
        BY <3>1, WholeFirst
      <3>3. g \in rows /\ g.at = u.first
        BY <3>2 DEF Group
      <3>4. g.id # f.id /\ g.id = g.at /\ f.id = f.at
        BY <3>3 DEF Sound, Apart, RowOK, IInv, Shape
      <3>5. QED
        BY <3>3, <3>4
    <2>5. CASE r \in rows
      <3>1. Group(r, rows') = Group(r, rows)
        BY <1>1, <2>2, <2>4, <2>5 DEF Group
      <3>2. QED
        BY <2>5, <3>1 DEF Told
    <2>6. CASE r \in txn[w].own
      <3>1. Group(r, rows') = txn[w].own
        BY <1>1, <2>2, <2>4, <2>6 DEF Group
      <3>2. QED
        BY <2>3, <3>1
    <2>7. QED
      BY <1>1, <2>5, <2>6
  <1>4. QED
    BY <1>2, <1>3

LEMMA CommitRecords ==
    ASSUME IInv, RecordInv, NEW w \in Workers, Commit(w)
    PROVE  RecordInv'
  <1>1. /\ rows' = rows \cup txn[w].own /\ txn' = [txn EXCEPT ![w] = Idle]
        /\ UNCHANGED <<clock, altered>>
    BY DEF Commit
  <1>2. txn'[w] = Idle /\ \A v \in Workers \ {w} : txn'[v] = txn[v]
    BY <1>1, Put DEF IInv
  <1>3. Idle.own = {} /\ Idle.event = Nothing /\ Idle.left = <<>>
    BY DEF Idle
  <1>4. clock' # 0
    BY <1>1 DEF RecordInv
  <1>5. \A v \in Workers : /\ \A r \in txn'[v].own : Hashed(r)
                           /\ txn'[v].event # Nothing => txn'[v].event.at # 0
    BY <1>2, <1>3 DEF RecordInv
  <1>6. ASSUME altered = {}
        PROVE  Told'
    <2>1. Sound /\ Told
      BY <1>6 DEF IInv, RecordInv
    <2>2. TxnWhole(Idle)
      BY <1>3 DEF TxnWhole
    <2>3. \A v \in Workers : TxnWhole(txn'[v])
      BY <1>2, <2>1, <2>2 DEF Told
    <2>4. \A r \in rows' : Hashed(r) /\ NotOwn(r)
      BY <1>1, <2>1 DEF Told, TxnWhole, RecordInv
    <2>5. \A r \in rows' : \E q \in Requests : Whole(q, Group(r, rows'))
      BY <2>1, CommitWhole
    <2>6. QED
      BY <2>3, <2>4, <2>5 DEF Told
  <1>7. ASSUME altered # {}
        PROVE  Found'
    <2>1. PICK a \in altered : /\ altered = {a}
                               /\ a[1] \in {"changed", "removed", "last"}
                               /\ a[1] = "changed" => ChangeFound
                               /\ a[1] = "removed" => RemovalFound(a[2])
      BY <1>7 DEF RecordInv, Found
    <2>2. ChangeFound => ChangeFound'
      BY <1>1 DEF ChangeFound
    <2>3. ASSUME NEW i, RemovalFound(i)
          PROVE  RemovalFound(i)'
      <3>1. \A r \in rows : RowRecord(r) /\ Hashed(r) /\ r.at \in Nat /\ r.at < clock /\ r.id # i
        BY <2>3 DEF RemovalFound
      <3>2. \A r \in txn[w].own : RowRecord(r) /\ Hashed(r) /\ r.at \in Nat /\ r.at < clock
        BY DEF RecordInv, IInv, Shape, RowOK
      <3>3. \A r \in txn[w].own : r.id # i
        BY <2>3 DEF RemovalFound
      <3>4. \A r \in rows' : RowRecord(r) /\ Hashed(r) /\ r.at \in Nat /\ r.at < clock' /\ r.id # i
        BY <1>1, <3>1, <3>2, <3>3
      <3>5. \A v \in Workers : /\ \A r \in txn'[v].own : r.id # i
                               /\ txn'[v].event # Nothing => txn'[v].event.id # i
        BY <1>2, <1>3, <2>3 DEF RemovalFound
      <3>6. /\ i \in Nat \ {0} /\ i < clock' /\ \E r \in rows' : r.prev.id = i
        BY <1>1, <2>3 DEF RemovalFound
      <3>7. QED
        BY <3>4, <3>5, <3>6 DEF RemovalFound
    <2>4. altered' = {a} /\ a \in altered'
      BY <1>1, <2>1
    <2>5. QED
      BY <2>1, <2>2, <2>3, <2>4 DEF Found
  <1>8. QED
    BY <1>1, <1>4, <1>5, <1>6, <1>7 DEF RecordInv

-----------------------------------------------------------------------------
(***************************************************************************)
(* Anchoring, and rows changed outside the application.                    *)
(***************************************************************************)
\* What Anchor keeps of a row.
LEMMA AnchoredSame ==
    ASSUME NEW r, RowRecord(r), NEW a
    PROVE  LET s == Anchored(r, a)
           IN  /\ RowRecord(s) /\ s.id = r.id /\ s.at = r.at /\ s.type = r.type
               /\ s.first = r.first /\ s.prev = r.prev /\ s.hash = r.hash
               /\ Hashed(s) <=> Hashed(r)
  <1>1. PICK s : s = Anchored(r, a)
    OBVIOUS
  <1>2. /\ RowRecord(s) /\ s.id = r.id /\ s.at = r.at /\ s.prev = r.prev /\ s.hash = r.hash
        /\ s.type = r.type /\ s.first = r.first
        /\ Fingerprint(s, s.prev) = Fingerprint(r, s.prev)
    BY <1>1, AnchoredKeeps, AnchoredContent
  <1>3. Hashed(s) <=> Hashed(r)
    BY <1>2 DEF Hashed
  <1>4. QED
    BY <1>1, <1>2, <1>3

LEMMA AnchoredWhole ==
    ASSUME NEW rs, \A r \in rs : RowRecord(r), NEW a, NEW q, Whole(q, rs)
    PROVE  Whole(q, {Anchored(r, a) : r \in rs})
  <1>1. \A r \in rs : /\ Anchored(r, a).at = r.at /\ Anchored(r, a).type = r.type
                      /\ Anchored(r, a).first = r.first /\ Anchored(r, a).prev = r.prev
                      /\ Anchored(r, a).hash = r.hash
    BY AnchoredSame
  <1> HIDE DEF Anchored
  <1>2. CASE \E r \in rs : rs = {r} /\ Len(Recorded(q)) = 1 /\ IsFirst(q, r)
    <2>1. PICK r \in rs : rs = {r} /\ Len(Recorded(q)) = 1 /\ IsFirst(q, r)
      BY <1>2
    <2>2. {Anchored(s, a) : s \in rs} = {Anchored(r, a)}
      BY <2>1
    <2>3. IsFirst(q, Anchored(r, a))
      BY <1>1, <2>1 DEF IsFirst
    <2>4. QED
      BY <2>1, <2>2, <2>3 DEF Whole
  <1>3. CASE \E r, s \in rs : rs = {r, s} /\ IsFirst(q, r) /\ IsSecond(q, r, s)
    <2>1. PICK r \in rs, s \in rs : rs = {r, s} /\ IsFirst(q, r) /\ IsSecond(q, r, s)
      BY <1>3
    <2>2. {Anchored(u, a) : u \in rs} = {Anchored(r, a), Anchored(s, a)}
      BY <2>1
    <2>3. IsFirst(q, Anchored(r, a)) /\ IsSecond(q, Anchored(r, a), Anchored(s, a))
      BY <1>1, <2>1 DEF IsFirst, IsSecond
    <2>4. QED
      BY <2>2, <2>3 DEF Whole
  <1>4. QED
    BY <1>2, <1>3 DEF Whole

LEMMA AnchorRecords ==
    ASSUME IInv, RecordInv, NEW o \in Operators, Anchor(o)
    PROVE  RecordInv'
  <1>1. PICK a : a = anchoring[o]
    OBVIOUS
  <1>2. rows' = {Anchored(r, a) : r \in rows} /\ UNCHANGED <<clock, txn, altered>>
    BY <1>1, AnchorEffect
  <1>3. clock' # 0
    BY <1>2 DEF RecordInv
  <1>4. \A v \in Workers : /\ \A r \in txn'[v].own : Hashed(r)
                           /\ txn'[v].event # Nothing => txn'[v].event.at # 0
    BY <1>2 DEF RecordInv
  <1>5. ASSUME altered = {}
        PROVE  Told'
    <2>1. Sound /\ Told
      BY <1>5 DEF IInv, RecordInv
    <2>2. \A v \in Workers : TxnWhole(txn'[v])
      BY <1>2, <2>1 DEF Told
    <2>3. \A r \in rows : RowRecord(r)
      BY <2>1 DEF Sound, RowOK
    <2>4. \A r \in rows : /\ Hashed(Anchored(r, a)) /\ NotOwn(Anchored(r, a))
                          /\ Anchored(r, a).first = r.first
      BY <2>1, <2>3, AnchoredSame DEF Told, NotOwn
    <2>5. ASSUME NEW r \in rows
          PROVE  \E q \in Requests : Whole(q, Group(Anchored(r, a), rows'))
      <3>1. PICK q \in Requests : Whole(q, Group(r, rows))
        BY <2>1 DEF Told
      <3>2. \A s \in Group(r, rows) : RowRecord(s)
        BY <2>3 DEF Group
      <3>3. Group(Anchored(r, a), rows') = {Anchored(s, a) : s \in Group(r, rows)}
        BY <1>2, <2>4 DEF Group
      <3>4. QED
        BY <3>1, <3>2, <3>3, AnchoredWhole
    <2>6. QED
      BY <1>2, <2>2, <2>4, <2>5 DEF Told
  <1>6. ASSUME altered # {}
        PROVE  Found'
    <2>1. PICK c \in altered : /\ altered = {c}
                               /\ c[1] \in {"changed", "removed", "last"}
                               /\ c[1] = "changed" => ChangeFound
                               /\ c[1] = "removed" => RemovalFound(c[2])
      BY <1>6 DEF RecordInv, Found
    <2>2. ChangeFound => ChangeFound'
      BY <1>2, AnchoredSame DEF ChangeFound
    <2>3. ASSUME NEW i, RemovalFound(i)
          PROVE  RemovalFound(i)'
      <3>1. \A r \in rows : RowRecord(r) /\ Hashed(r) /\ r.at \in Nat /\ r.at < clock /\ r.id # i
        BY <2>3 DEF RemovalFound
      <3>2. \A r \in rows' : RowRecord(r) /\ Hashed(r) /\ r.at \in Nat /\ r.at < clock' /\ r.id # i
        BY <1>2, <3>1, AnchoredSame
      <3>3. \E r \in rows' : r.prev.id = i
        <4>1. PICK r \in rows : r.prev.id = i
          BY <2>3 DEF RemovalFound
        <4>2. Anchored(r, a) \in rows' /\ Anchored(r, a).prev.id = i
          BY <1>2, <3>1, <4>1, AnchoredSame
        <4>3. QED
          BY <4>2
      <3>4. QED
        BY <1>2, <2>3, <3>2, <3>3 DEF RemovalFound
    <2>4. altered' = {c} /\ c \in altered'
      BY <1>2, <2>1
    <2>5. QED
      BY <2>1, <2>2, <2>3, <2>4 DEF Found
  <1>7. QED
    BY <1>2, <1>3, <1>4, <1>5, <1>6 DEF RecordInv

\* An operator reads a row, or gives up; or nothing happens.
LEMMA QuietRecords ==
    ASSUME RecordInv, UNCHANGED <<clock, rows, txn, altered>>
    PROVE  RecordInv'
  <1>1. Told => Told'
    BY DEF Told
  <1>2. \A i : RemovalFound(i) => RemovalFound(i)'
    BY DEF RemovalFound
  <1>3. ChangeFound => ChangeFound'
    BY DEF ChangeFound
  <1>4. Found => Found'
    BY <1>2, <1>3 DEF Found
  <1>5. QED
    BY <1>1, <1>4 DEF RecordInv

\* A row whose content, time, hash or predecessor was changed does not match its hash.
LEMMA ChangedRow ==
    ASSUME NEW r, RowRecord(r), Hashed(r), NotOwn(r), r.type # "corrected", r.at # 0,
           NEW s \in Changed(r)
    PROVE  RowRecord(s) /\ ~Hashed(s)
  <1>1. /\ r.hash.type = r.type /\ r.hash.at = r.at /\ r.hash.prev = r.prev
        /\ r.hash.id = r.id /\ r.prev.id # r.id
    BY Fingerprints DEF Hashed, NotOwn
  <1>2. CASE s = [r EXCEPT !.type = "corrected"]
    <2>1. RowRecord(s) /\ s.type = "corrected" /\ s.hash = r.hash
      BY <1>2 DEF RowRecord
    <2>2. QED
      BY <1>1, <2>1, Fingerprints DEF Hashed
  <1>3. CASE s = [r EXCEPT !.at = 0]
    <2>1. RowRecord(s) /\ s.at = 0 /\ s.hash = r.hash
      BY <1>3 DEF RowRecord
    <2>2. QED
      BY <1>1, <2>1, Fingerprints DEF Hashed
  <1>4. CASE s = [r EXCEPT !.hash = Fingerprint(r, r.hash)]
    <2>1. RowRecord(s) /\ s.hash = Fingerprint(r, r.hash) /\ s.prev = r.prev
      BY <1>4 DEF RowRecord
    <2>2. s.hash.prev = r.hash /\ r.hash # r.prev
      BY <1>1, <2>1, Fingerprints
    <2>3. QED
      BY <2>1, <2>2, Fingerprints DEF Hashed
  <1>5. CASE s = [r EXCEPT !.prev = Fingerprint(r, r.hash)]
    <2>1. RowRecord(s) /\ s.hash = r.hash /\ s.prev = Fingerprint(r, r.hash)
      BY <1>5 DEF RowRecord
    <2>2. s.prev.id = r.id
      BY <2>1, Fingerprints
    <2>3. QED
      BY <1>1, <2>1, <2>2, Fingerprints DEF Hashed
  <1>6. QED
    BY <1>2, <1>3, <1>4, <1>5 DEF Changed

LEMMA AlteredRecords ==
    ASSUME RecordInv, UNCHANGED <<clock, txn>>, altered' # {}, Found'
    PROVE  RecordInv'
  BY DEF RecordInv

LEMMA AlterRecords ==
    ASSUME MaxAlterations <= 1, IInv, RecordInv, NEW x \in rows, Alter(x)
    PROVE  RecordInv'
  <1>1. altered = {}
    <2>1. ASSUME NEW a, altered = {a}
          PROVE  FALSE
      <3>1. Cardinality(altered) = 1
        BY <2>1, FS_Singleton
      <3>2. Cardinality(altered) < MaxAlterations
        BY DEF Alter
      <3>3. QED
        BY <3>1, <3>2, ChainAssumption
    <2>2. QED
      BY <2>1 DEF RecordInv, Found
  <1>2. Sound /\ Told
    BY <1>1 DEF IInv, RecordInv
  <1>3. UNCHANGED <<clock, txn>>
    BY DEF Alter
  <1>4. \A s \in rows : /\ RowRecord(s) /\ Hashed(s) /\ NotOwn(s)
                        /\ s.at \in Nat /\ s.at < clock /\ s.id = s.at
    BY <1>2 DEF Sound, RowOK, Told
  <1>5. CASE rows' = rows \ {x} /\ Claimed(x.hash, rows) /\ altered' = {<<"removed", x.id>>}
    <2>1. \A s \in rows' : s.id # x.id
      BY <1>2, <1>4, <1>5, SameRow DEF Sound
    <2>2. \A w \in Workers : /\ \A s \in txn[w].own : s.id # x.id
                             /\ txn[w].event # Nothing => txn[w].event.id # x.id
      BY <1>2 DEF Sound, Apart, Fresh
    <2>3. \E s \in rows' : s.prev.id = x.id
      <3>1. PICK s \in rows : s.prev = x.hash
        BY <1>5 DEF Claimed
      <3>2. x.hash.id = x.id
        BY <1>4, Fingerprints DEF Hashed
      <3>3. s # x
        BY <1>4, <3>1, <3>2 DEF NotOwn
      <3>4. QED
        BY <1>5, <3>1, <3>2, <3>3
    <2>4. x.id \in Nat \ {0} /\ x.id < clock'
      BY <1>3, <1>4 DEF NotOwn
    <2>5. \A s \in rows' : RowRecord(s) /\ Hashed(s) /\ s.at \in Nat /\ s.at < clock' /\ s.id # x.id
      BY <1>3, <1>4, <1>5, <2>1
    <2>6. \A w \in Workers : /\ \A s \in txn'[w].own : s.id # x.id
                             /\ txn'[w].event # Nothing => txn'[w].event.id # x.id
      BY <1>3, <2>2
    <2>7. RemovalFound(x.id)'
      BY <2>3, <2>4, <2>5, <2>6 DEF RemovalFound
    <2>8. PICK a : a = <<"removed", x.id>>
      OBVIOUS
    <2>9. altered' = {a} /\ a \in altered' /\ a[1] = "removed" /\ a[2] = x.id
      BY <1>5, <2>8
    <2>10. Found'
      BY <2>7, <2>9 DEF Found
    <2>11. altered' # {}
      BY <2>9
    <2>12. QED
      BY <1>3, <2>10, <2>11, AlteredRecords
  <1>6. CASE altered' = {<<"last", x.id>>}
    <2>1. PICK a : a = <<"last", x.id>>
      OBVIOUS
    <2>2. altered' = {a} /\ a \in altered' /\ a[1] = "last"
      BY <1>6, <2>1
    <2>3. Found' /\ altered' # {}
      BY <2>2 DEF Found
    <2>4. QED
      BY <1>3, <2>3, AlteredRecords
  <1>7. CASE \E s \in Changed(x) : rows' = (rows \ {x}) \cup {s} /\ altered' = {<<"changed", x.id>>}
    <2>1. PICK s \in Changed(x) : rows' = (rows \ {x}) \cup {s} /\ altered' = {<<"changed", x.id>>}
      BY <1>7
    <2>2. x.type # "corrected"
      <3>1. PICK q \in Requests : Whole(q, Group(x, rows))
        BY <1>2 DEF Told
      <3>2. x \in Group(x, rows)
        BY DEF Group
      <3>3. \/ x.type = Recorded(q)[1]
            \/ Len(Recorded(q)) = 2 /\ x.type = Recorded(q)[2]
        BY <3>1, <3>2 DEF Whole, IsFirst, IsSecond
      <3>4. QED
        BY <3>3, RecordedParts
    <2>3. x.at # 0
      BY <1>4 DEF NotOwn
    <2>4. RowRecord(s) /\ ~Hashed(s)
      BY <1>4, <2>2, <2>3, ChangedRow
    <2>5. ChangeFound'
      BY <2>1, <2>4 DEF ChangeFound
    <2>6. PICK a : a = <<"changed", x.id>>
      OBVIOUS
    <2>7. altered' = {a} /\ a \in altered' /\ a[1] = "changed"
      BY <2>1, <2>6
    <2>8. Found' /\ altered' # {}
      BY <2>5, <2>7 DEF Found
    <2>9. QED
      BY <1>3, <2>8, AlteredRecords
  <1>8. QED
    BY <1>1, <1>5, <1>6, <1>7 DEF Alter

LEMMA InitRecords == Init => RecordInv
  <1> SUFFICES ASSUME Init
               PROVE  RecordInv
    OBVIOUS
  <1>1. Idle.own = {} /\ Idle.event = Nothing /\ Idle.left = <<>>
    BY DEF Idle
  <1>2. TxnWhole(Idle)
    BY <1>1 DEF TxnWhole
  <1>3. /\ clock = 1 /\ rows = {} /\ altered = {}
        /\ \A w \in Workers : txn[w] = Idle
    BY DEF Init
  <1>4. QED
    BY <1>1, <1>2, <1>3 DEF RecordInv, Told

LEMMA StepRecords ==
    ASSUME IInv, RecordInv, [Next]_vars, MaxAlterations <= 1 \/ altered' = {}
    PROVE  RecordInv'
  <1>1. ASSUME NEW w \in Workers, NEW q \in Requests, Begin(w, q)
        PROVE  RecordInv'
    BY <1>1, BeginRecords
  <1>2. ASSUME NEW w \in Workers, Stamp(w)
        PROVE  RecordInv'
    BY <1>2, StampRecords
  <1>3. ASSUME NEW w \in Workers, ReadHead(w)
        PROVE  RecordInv'
    BY <1>3, ReadHeadRecords
  <1>4. ASSUME NEW w \in Workers, Flush(w)
        PROVE  RecordInv'
    BY <1>4, FlushRecords
  <1>5. ASSUME NEW w \in Workers, Conflict(w) \/ RollBack(w)
        PROVE  RecordInv'
    BY <1>5, RollBackRecords
  <1>6. ASSUME NEW w \in Workers, Commit(w)
        PROVE  RecordInv'
    BY <1>6, CommitRecords
  <1>7. ASSUME NEW o \in Operators, NEW r \in rows, ReadForAnchor(o, r)
        PROVE  RecordInv'
    BY <1>7, QuietRecords DEF ReadForAnchor
  <1>8. ASSUME NEW o \in Operators, PublisherFails(o)
        PROVE  RecordInv'
    BY <1>8, QuietRecords DEF PublisherFails
  <1>9. ASSUME NEW o \in Operators, Anchor(o)
        PROVE  RecordInv'
    BY <1>9, AnchorRecords
  <1>10. ASSUME NEW r \in rows, Alter(r)
         PROVE  RecordInv'
    BY <1>10, AlterRecords, AlterKeeps
  <1>11. CASE UNCHANGED vars
    BY <1>11, QuietRecords DEF vars
  <1>12. QED
    BY <1>1, <1>2, <1>3, <1>4, <1>5, <1>6, <1>7, <1>8, <1>9, <1>10, <1>11 DEF Next

\* The application never takes an alteration off the record.
LEMMA AlteredStays ==
    ASSUME IInv, [Next]_vars, altered' = {}
    PROVE  altered = {}
  BY AlterKeeps DEF Next, vars, Begin, Stamp, ReadHead, Flush, Conflict, Commit, RollBack,
                    ReadForAnchor, Anchor, PublisherFails

\* Until somebody alters the log, the invariant holds whatever alterations are possible.
UntilAltered == altered = {} => RecordInv

\* Both hold in every reachable state of the log.
THEOREM UntilAlteredHolds == Spec => [](IInv /\ UntilAltered)
  <1>1. Init => IInv /\ UntilAltered
    BY InitEstablishes, InitRecords DEF UntilAltered
  <1>2. IInv /\ UntilAltered /\ [Next]_vars => IInv' /\ UntilAltered'
    BY StepKeeps, StepRecords, AlteredStays DEF UntilAltered
  <1>3. QED
    BY <1>1, <1>2, PTL DEF Spec

-----------------------------------------------------------------------------
(***************************************************************************)
(* A request's events.                                                     *)
(***************************************************************************)
LEMMA HeadOfOne ==
    ASSUME NEW r
    PROVE  ChainHead({r}) = r.hash \/ ~(r.at <= r.at)
  BY DEF ChainHead, Last

\* What RequestsWhole says of the rows of a request.
Together(q, own, first) ==
    /\ Cardinality(own) = Len(Recorded(q))
    /\ \A s \in own : LET upTo == {u \in own : u.at <= s.at}
                      IN  /\ s.type = Recorded(q)[Cardinality(upTo)]
                          /\ s.at # first => s.prev = ChainHead(upTo \ {s})

LEMMA WholeTogether ==
    ASSUME NEW rs, \A r \in rs : r.at \in Nat, NEW q, Whole(q, rs), NEW first,
           \A r \in rs : r.first = first
    PROVE  Together(q, rs, first)
  <1>1. CASE \E r \in rs : rs = {r} /\ Len(Recorded(q)) = 1 /\ IsFirst(q, r)
    <2>1. PICK r \in rs : rs = {r} /\ Len(Recorded(q)) = 1 /\ IsFirst(q, r)
      BY <1>1
    <2>2. Cardinality(rs) = 1 /\ {u \in rs : u.at <= r.at} = rs
      BY <2>1, FS_Singleton
    <2>3. r.type = Recorded(q)[1] /\ r.at = first
      BY <2>1 DEF IsFirst
    <2>4. QED
      BY <2>1, <2>2, <2>3 DEF Together
  <1>2. CASE \E r, s \in rs : rs = {r, s} /\ IsFirst(q, r) /\ IsSecond(q, r, s)
    <2>1. PICK r \in rs, s \in rs : rs = {r, s} /\ IsFirst(q, r) /\ IsSecond(q, r, s)
      BY <1>2
    <2>2. /\ r.at \in Nat /\ s.at \in Nat /\ r.at < s.at /\ Len(Recorded(q)) = 2
          /\ r.type = Recorded(q)[1] /\ s.type = Recorded(q)[2] /\ s.prev = r.hash
          /\ r.at = first
      BY <2>1 DEF IsFirst, IsSecond
    <2>3. Cardinality({r}) = 1 /\ Cardinality(rs) = 2
      <3>1. IsFiniteSet({r}) /\ Cardinality({r}) = 1
        BY FS_Singleton
      <3>2. s \notin {r} /\ rs = {r} \cup {s}
        BY <2>1, <2>2
      <3>3. Cardinality({r} \cup {s}) = Cardinality({r}) + 1
        BY <3>1, <3>2, FS_AddElement
      <3>4. QED
        BY <3>1, <3>2, <3>3
    <2>4. {u \in rs : u.at <= r.at} = {r} /\ {u \in rs : u.at <= s.at} = rs
      BY <2>1, <2>2
    <2>5. rs \ {s} = {r} /\ ChainHead({r}) = r.hash
      BY <2>1, <2>2, HeadOfOne
    <2>6. QED
      BY <2>1, <2>2, <2>3, <2>4, <2>5 DEF Together
  <1>3. QED
    BY <1>1, <1>2 DEF Whole

\* Until somebody alters the log, a request's events are in it together or not at all, in
\* their order, and no other request's event comes between, whatever transactions append at
\* once, lose, fail and commit.
THEOREM RequestsNeverSplit == Spec => []RequestsWhole
  <1>1. IInv /\ UntilAltered => RequestsWhole
    <2>1. ASSUME IInv, UntilAltered, altered = {}, NEW r \in rows
          PROVE  \E q \in Requests : Together(q, {s \in rows : s.first = r.first}, r.first)
      <3>1. PICK own : own = {s \in rows : s.first = r.first}
        OBVIOUS
      <3>2. PICK q \in Requests : Whole(q, own)
        BY <2>1, <3>1 DEF UntilAltered, RecordInv, Told, Group
      <3>3. \A s \in own : s.at \in Nat /\ s.first = r.first
        BY <2>1, <3>1 DEF IInv, Sound, RowOK
      <3>4. Together(q, own, r.first)
        BY <3>2, <3>3, WholeTogether
      <3>5. QED
        BY <3>1, <3>4
    <2>2. QED
      BY <2>1 DEF RequestsWhole, Together
  <1>2. QED
    BY <1>1, UntilAlteredHolds, PTL

-----------------------------------------------------------------------------
(***************************************************************************)
(* What verification finds.                                                *)
(***************************************************************************)
\* A set of rows has a first and a last in recorded order.
LEMMA Earliest ==
    ASSUME NEW rs, rs # {}, \A r \in rs : r.at \in Nat
    PROVE  \E r \in rs : \A s \in rs : r.at <= s.at
  <1>1. PICK S : S = {r.at : r \in rs}
    OBVIOUS
  <1>2. S \subseteq Nat /\ S # {} /\ \A r \in rs : r.at \in S
    BY <1>1
  <1>3. PICK m \in S : \A x \in S : m <= x
    BY <1>2, MinExists
  <1>4. QED
    BY <1>1, <1>2, <1>3

LEMMA Latest ==
    ASSUME NEW rs, rs # {}, NEW n \in Nat, \A r \in rs : r.at \in Nat /\ r.at < n
    PROVE  \E r \in rs : \A s \in rs : s.at <= r.at
  <1>1. PICK S : S = {r.at : r \in rs}
    OBVIOUS
  <1>2. /\ S \in SUBSET Nat /\ S # {} /\ \A x \in S : x <= n
        /\ \A r \in rs : r.at \in S
    BY <1>1
  <1>3. IsFiniteSet(S)
    BY <1>2, FS_BoundedSetOfNaturals
  <1>4. PICK m \in S : \A x \in S : x <= m
    BY <1>2, <1>3, MaxExists
  <1>5. QED
    BY <1>1, <1>2, <1>4

LEMMA LastIs ==
    ASSUME NEW rs, NEW l \in rs, \A s \in rs : s.at <= l.at
    PROVE  Last(rs) \in rs /\ \A s \in rs : s.at <= Last(rs).at
  BY DEF Last

LEMMA LastOf ==
    ASSUME NEW rs, rs # {}, NEW n \in Nat, \A r \in rs : r.at \in Nat /\ r.at < n
    PROVE  \E l \in rs : l = Last(rs) /\ ChainHead(rs) = l.hash /\ \A s \in rs : s.at <= l.at
  <1>1. \E r \in rs : \A s \in rs : s.at <= r.at
    BY Latest
  <1>2. Last(rs) \in rs /\ \A s \in rs : s.at <= Last(rs).at
    BY <1>1, LastIs
  <1>3. QED
    BY <1>2 DEF ChainHead

\* Rows that form a line, were each stamped once, and were stamped in the line's order.
Ordered(rs, n) ==
    /\ n \in Nat /\ Line(rs) /\ InOrder(rs)
    /\ \A r \in rs : r.at \in Nat /\ r.at < n /\ r.hash # Genesis
    /\ \A r \in rs : \A s \in rs : r.at = s.at => r = s

\* In such a set each row names the one before it: otherwise take the first that does not,
\* and the row after the one it names; that row names the same, for it is earlier.
LEMMA OrderedLinks ==
    ASSUME NEW rs, NEW n, Ordered(rs, n), NEW r \in rs
    PROVE  r.prev = ChainHead(Before(r, rs))
  <1> SUFFICES ASSUME r.prev # ChainHead(Before(r, rs))
               PROVE  FALSE
    OBVIOUS
  <1>1. PICK Bad : Bad = {s \in rs : s.prev # ChainHead(Before(s, rs))}
    OBVIOUS
  <1>2. Bad # {} /\ \A s \in Bad : s.at \in Nat
    BY <1>1 DEF Ordered
  <1>3. PICK x \in Bad : \A s \in Bad : x.at <= s.at
    BY <1>2, Earliest
  <1>4. x \in rs /\ x.prev # ChainHead(Before(x, rs))
    BY <1>1, <1>3
  <1>5. PICK B : B = Before(x, rs)
    OBVIOUS
  <1>6. /\ B \subseteq rs /\ n \in Nat
        /\ \A s \in B : s.at \in Nat /\ s.at < n /\ s.at < x.at
        /\ \A s \in rs : s.at < x.at => s \in B
    BY <1>5 DEF Before, Ordered
  <1>7. \A y \in B : y.prev = ChainHead(Before(y, rs)) /\ y.prev # x.prev
    <2>1. ASSUME NEW y \in B
          PROVE  y \notin Bad
      BY <1>2, <1>3, <1>6 DEF Ordered
    <2>2. ASSUME NEW y \in B
          PROVE  y.prev # x.prev
      BY <1>2, <1>3, <1>4, <1>6 DEF Ordered, Line
    <2>3. QED
      BY <1>1, <1>6, <2>1, <2>2
  <1>8. x.prev = Genesis \/ \E s \in B : s.hash = x.prev
    BY <1>4, <1>6 DEF Ordered, Line, InOrder
  <1>9. B # {}
    <2>1. SUFFICES ASSUME B = {}
                   PROVE  FALSE
      OBVIOUS
    <2>2. ChainHead(B) = Genesis
      BY <2>1 DEF ChainHead
    <2>3. QED
      BY <1>4, <1>5, <1>8, <2>1, <2>2
  <1>10. CASE x.prev = Genesis
    <2>1. PICK y \in B : \A s \in B : y.at <= s.at
      BY <1>6, <1>9, Earliest
    <2>2. Before(y, rs) = {}
      BY <1>2, <1>3, <1>6, <2>1 DEF Before, Ordered
    <2>3. y.prev = Genesis
      BY <1>7, <2>2 DEF ChainHead
    <2>4. QED
      BY <1>7, <1>10, <2>3
  <1>11. CASE \E s \in B : s.hash = x.prev
    <2>1. PICK s \in B : s.hash = x.prev
      BY <1>11
    <2>2. PICK l \in B : ChainHead(B) = l.hash /\ \A u \in B : u.at <= l.at
      BY <1>6, <1>9, LastOf
    <2>3. s.at < l.at
      <3>1. s # l
        BY <1>4, <1>5, <2>1, <2>2
      <3>2. s.at # l.at
        BY <1>6, <3>1 DEF Ordered
      <3>3. s.at <= l.at /\ s.at \in Nat /\ l.at \in Nat
        BY <1>6, <2>2
      <3>4. QED
        BY <3>2, <3>3
    <2>4. PICK After : After = {u \in B : s.at < u.at}
      OBVIOUS
    <2>5. PICK y \in After : \A u \in After : y.at <= u.at
      <3>1. After # {} /\ \A u \in After : u.at \in Nat
        BY <1>6, <2>3, <2>4
      <3>2. QED
        BY <3>1, Earliest
    <2>6. y \in B /\ s.at < y.at /\ y.at \in Nat /\ y.at < x.at
      BY <1>6, <2>4, <2>5
    <2>7. s \in Before(y, rs) /\ \A u \in Before(y, rs) : u.at <= s.at
      <3>1. ASSUME NEW u \in rs, u.at < y.at
            PROVE  u.at <= s.at
        <4>1. u.at \in Nat /\ x.at \in Nat /\ s.at \in Nat
          BY <1>4, <1>6 DEF Ordered
        <4>2. u \in B
          BY <1>6, <2>6, <3>1, <4>1
        <4>3. QED
          BY <2>4, <2>5, <2>6, <3>1, <4>1, <4>2
      <3>2. s \in rs
        BY <1>6
      <3>3. QED
        BY <2>6, <3>1, <3>2 DEF Before
    <2>8. PICK C : C = Before(y, rs)
      OBVIOUS
    <2>9. Last(C) = s
      <3>1. Last(C) \in C /\ \A u \in C : u.at <= Last(C).at
        BY <2>7, <2>8, LastIs
      <3>2. C \subseteq rs /\ s \in C /\ \A u \in C : u.at \in Nat
        BY <2>7, <2>8 DEF Before, Ordered
      <3>3. Last(C).at = s.at
        BY <2>7, <2>8, <3>1, <3>2
      <3>4. QED
        BY <3>1, <3>2, <3>3 DEF Ordered
    <2>10. ChainHead(C) = s.hash
      BY <2>7, <2>8, <2>9 DEF ChainHead
    <2>11. QED
      BY <1>7, <2>1, <2>6, <2>8, <2>10
  <1>12. QED
    BY <1>8, <1>10, <1>11

\* Its head is claimed by nobody.
LEMMA OrderedHead ==
    ASSUME NEW rs, NEW n, Ordered(rs, n)
    PROVE  ~Claimed(ChainHead(rs), rs)
  <1> SUFFICES ASSUME NEW r \in rs, r.prev = ChainHead(rs)
               PROVE  FALSE
    BY DEF Claimed
  <1>1. n \in Nat /\ \A s \in rs : s.at \in Nat /\ s.at < n
    BY DEF Ordered
  <1>2. PICK l \in rs : ChainHead(rs) = l.hash /\ \A s \in rs : s.at <= l.at
    BY <1>1, LastOf
  <1>3. l.at < r.at
    BY <1>2 DEF Ordered, InOrder
  <1>4. QED
    BY <1>1, <1>2, <1>3

LEMMA UnalteredIntact ==
    ASSUME IInv, UntilAltered, altered = {}, InOrder(rows)
    PROVE  Intact(rows) /\ ~Claimed(ChainHead(rows), rows)
  <1>1. Sound /\ Told
    BY DEF IInv, UntilAltered, RecordInv
  <1>2. \A r \in rows : Hashed(r) /\ r.id # 0 /\ r.id = r.at /\ r.at \in Nat /\ r.at < clock
    BY <1>1 DEF Sound, RowOK, Told, NotOwn
  <1>3. \A r \in rows : r.hash # Genesis
    BY <1>2, Fingerprints DEF Hashed
  <1>4. \A r \in rows : \A s \in rows : r.at = s.at => r = s
    BY <1>1, <1>2, SameRow DEF Sound
  <1>5. Line(rows) /\ clock \in Nat
    BY <1>1 DEF Sound, Good, IInv, Shape
  <1>6. Ordered(rows, clock)
    BY <1>2, <1>3, <1>4, <1>5 DEF Ordered
  <1>7. \A r \in rows : r.prev = ChainHead(Before(r, rows))
    BY <1>6, OrderedLinks
  <1>8. QED
    BY <1>2, <1>6, <1>7, OrderedHead DEF Intact, Breaks, Hashed

LEMMA AlteredFound ==
    ASSUME RecordInv, clock \in Nat, NEW a \in altered, a[1] # "last"
    PROVE  ~Intact(rows)
  <1>1. /\ a[1] = "changed" => ChangeFound
        /\ a[1] = "removed" => RemovalFound(a[2])
        /\ a[1] \in {"changed", "removed"}
    BY DEF RecordInv, Found
  <1>2. CASE ChangeFound
    BY <1>2 DEF ChangeFound, Hashed, Intact, Breaks
  <1>3. ASSUME NEW i, RemovalFound(i), Intact(rows)
        PROVE  FALSE
    <2>1. /\ i # 0
          /\ \A r \in rows : Hashed(r) /\ r.at \in Nat /\ r.at < clock /\ r.id # i
      BY <1>3 DEF RemovalFound
    <2>2. PICK r \in rows : r.prev.id = i
      BY <1>3 DEF RemovalFound
    <2>3. PICK B : B = Before(r, rows)
      OBVIOUS
    <2>4. r.prev = ChainHead(B) /\ B \subseteq rows
      BY <1>3, <2>2, <2>3 DEF Intact, Breaks, Before
    <2>5. CASE B = {}
      BY <2>1, <2>2, <2>4, <2>5, Fingerprints DEF ChainHead
    <2>6. CASE B # {}
      <3>1. PICK l \in B : ChainHead(B) = l.hash
        BY <2>1, <2>4, <2>6, LastOf
      <3>2. l.hash.id = l.id
        BY <2>1, <2>4, Fingerprints DEF Hashed
      <3>3. QED
        BY <2>1, <2>2, <2>4, <3>1, <3>2
    <2>7. QED
      BY <2>5, <2>6
  <1>4. QED
    BY <1>1, <1>2, <1>3

\* With at most one alteration verification tells an altered log from an untouched one: it
\* finds an edited row and the removal of any row but the last, whatever was appended since;
\* in an untouched log whose stamps are in order it finds nothing, and the head that record
\* reads there may be claimed.
THEOREM AlterationsAreFound ==
    ASSUME MaxAlterations <= 1
    PROVE  Spec => []IntactUnlessAltered
  <1>1. Init => IInv /\ RecordInv
    BY InitEstablishes, InitRecords
  <1>2. IInv /\ RecordInv /\ [Next]_vars => IInv' /\ RecordInv'
    BY StepKeeps, StepRecords
  <1>3. IInv /\ RecordInv => IntactUnlessAltered
    <2>1. IInv => clock \in Nat
      BY DEF IInv, Shape
    <2>2. QED
      BY <2>1, UnalteredIntact, AlteredFound DEF UntilAltered, IntactUnlessAltered
  <1>4. QED
    BY <1>1, <1>2, <1>3, PTL DEF Spec

\* However often the log may be altered, verification finds nothing in one that nobody has
\* altered and whose stamps are in order, and its head may be claimed.
UntouchedIntact ==
    altered = {} /\ InOrder(rows) => Intact(rows) /\ ~Claimed(ChainHead(rows), rows)

THEOREM UntouchedIsIntact == Spec => []UntouchedIntact
  <1>1. IInv /\ UntilAltered => UntouchedIntact
    BY UnalteredIntact DEF UntouchedIntact
  <1>2. QED
    BY <1>1, UntilAlteredHolds, PTL
=============================================================================
