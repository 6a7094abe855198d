-------------------------- MODULE InformationProofs -------------------------
(***************************************************************************)
(* Proofs about what participants are told and what they decide on: the    *)
(* realtime hub, the forecast service and the ingestion of meter readings, *)
(* each for any constants that its module admits.  The three share no      *)
(* state.                                                                  *)
(*                                                                         *)
(* Hub.  What one thread publishes reaches a client in its order and at    *)
(* most once.  A message waits on the event loop, then in the connection's *)
(* queue, and is sent.  OrderInv says that the messages of a thread to a   *)
(* connection follow each other along this whole way, and that the change  *)
(* a thread has yet to hand to a connection is later than all it has       *)
(* handed there.  A full queue loses its oldest message, which leaves the  *)
(* rest in order.                                                          *)
(*                                                                         *)
(* Forecasts.  ForecastInv says what a run that a request works on may     *)
(* look like; that a failure is recorded, that what is served never gets   *)
(* older and that nothing is offered twice follow from it.                 *)
(*                                                                         *)
(* Ingestion.  MeterInv says of a batch that meets no other that what it   *)
(* has staged fits the table, and that single calls would have left it.    *)
(***************************************************************************)
EXTENDS Realtime, Forecasts, Telemetry, ArithmeticTheorems, SequenceTheorems, TLAPS

-----------------------------------------------------------------------------
(***************************************************************************)
(* The realtime hub.                                                       *)
(***************************************************************************)
Message == [by : Threads, change : Nat]
Call == [to : Conns, message : Message]
Publishing == [change : Nat, copied : BOOLEAN, targets : SUBSET Conns]

TypeInv ==
    /\ changes \in Seq(Kinds)
    /\ pub \in [Threads -> Publishing]
    /\ calls \in Seq(Call) /\ subs \subseteq Conns
    /\ queue \in [Conns -> Seq(Message)]
    /\ sent \in [Conns -> Seq(Message)]

Before(m, n) == m.by = n.by => m.change < n.change

\* Messages, and calls, of which the first precedes the second where it has to.
Follow == {p \in Message \X Message : Before(p[1], p[2])}
CallsFollow == {p \in Call \X Call : p[1].to = p[2].to => Before(p[1].message, p[2].message)}

OrderedBy(s, R) == \A i \in DOMAIN s : \A j \in DOMAIN s : i < j => <<s[i], s[j]>> \in R

Ahead(s, r) == \A m \in Range(s) : \A n \in Range(r) : Before(m, n)

\* The messages of s come before those that wait on the event loop for c.
AheadOfCalls(s, c) == \A m \in Range(s) : \A k \in Range(calls) : k.to = c => Before(m, k.message)

\* m was handed over to c: its change is one that was committed, and earlier than the one
\* that its thread has yet to hand to c.
HandedOver(m, c) ==
    /\ m.change <= Len(changes)
    /\ pub[m.by].change # 0 /\ (~pub[m.by].copied \/ c \in pub[m.by].targets)
          => m.change < pub[m.by].change

PubOK(p, n) == p.change <= n /\ (~p.copied \/ p.change = 0 => p.targets = {})

OrderInv ==
    /\ \A c \in Conns : /\ OrderedBy(sent[c], Follow) /\ OrderedBy(queue[c], Follow)
                        /\ Ahead(sent[c], queue[c])
                        /\ AheadOfCalls(sent[c], c) /\ AheadOfCalls(queue[c], c)
    /\ OrderedBy(calls, CallsFollow)
    /\ \A t \in Threads : PubOK(pub[t], Len(changes))
    /\ \A c \in Conns : \A m \in Range(sent[c]) \cup Range(queue[c]) : HandedOver(m, c)
    /\ \A k \in Range(calls) : HandedOver(k.message, k.to)

HubInv == TypeInv /\ OrderInv

-----------------------------------------------------------------------------
(***************************************************************************)
(* Sequences.                                                              *)
(***************************************************************************)
LEMMA Appended ==
    ASSUME NEW S, NEW s \in Seq(S), NEW x \in S
    PROVE  /\ Append(s, x) \in Seq(S) /\ DOMAIN Append(s, x) = 1 .. Len(s) + 1
           /\ DOMAIN s = 1 .. Len(s) /\ Len(s) \in Nat
           /\ Append(s, x)[Len(s) + 1] = x
           /\ \A i \in 1 .. Len(s) : Append(s, x)[i] = s[i] /\ s[i] \in S
  OBVIOUS

LEMMA Tailed ==
    ASSUME NEW S, NEW s \in Seq(S), s # <<>>
    PROVE  /\ Tail(s) \in Seq(S) /\ DOMAIN Tail(s) = 1 .. Len(s) - 1
           /\ DOMAIN s = 1 .. Len(s) /\ Len(s) \in Nat \ {0}
           /\ Head(s) = s[1] /\ Head(s) \in S
           /\ \A i \in 1 .. Len(s) - 1 : Tail(s)[i] = s[i + 1] /\ i + 1 \in DOMAIN s
  OBVIOUS

LEMMA RangeType == ASSUME NEW S, NEW s \in Seq(S) PROVE Range(s) \subseteq S
  BY DEF Range

LEMMA RangeAppend ==
    ASSUME NEW S, NEW s \in Seq(S), NEW x \in S
    PROVE  Range(Append(s, x)) = Range(s) \cup {x}
  <1> DEFINE r == Append(s, x)
  <1>1. /\ DOMAIN r = 1 .. Len(s) + 1 /\ DOMAIN s = 1 .. Len(s) /\ Len(s) \in Nat
        /\ r[Len(s) + 1] = x /\ \A i \in 1 .. Len(s) : r[i] = s[i]
    BY Appended
  <1> HIDE DEF r
  <1>2. \A i \in DOMAIN r : i \in DOMAIN s \/ i = Len(s) + 1
    BY <1>1
  <1>3. \A i \in DOMAIN s : i \in DOMAIN r
    BY <1>1
  <1>4. Len(s) + 1 \in DOMAIN r
    BY <1>1
  <1>5. Range(r) = Range(s) \cup {x}
    <2>1. \A i \in DOMAIN r : r[i] \in Range(s) \cup {x}
      BY <1>1, <1>2 DEF Range
    <2>2. \A i \in DOMAIN s : s[i] \in Range(r)
      BY <1>1, <1>3 DEF Range
    <2>3. x \in Range(r)
      BY <1>1, <1>4 DEF Range
    <2>4. QED
      BY <2>1, <2>2, <2>3 DEF Range
  <1>6. QED
    BY <1>5 DEF r

LEMMA RangeTail ==
    ASSUME NEW S, NEW s \in Seq(S), s # <<>>
    PROVE  Range(Tail(s)) \subseteq Range(s) /\ Head(s) \in Range(s)
  <1> DEFINE r == Tail(s)
  <1>1. /\ DOMAIN r = 1 .. Len(s) - 1 /\ DOMAIN s = 1 .. Len(s) /\ Len(s) \in Nat \ {0}
        /\ Head(s) = s[1] /\ \A i \in 1 .. Len(s) - 1 : r[i] = s[i + 1] /\ i + 1 \in DOMAIN s
    BY Tailed
  <1> HIDE DEF r
  <1>2. 1 \in DOMAIN s
    BY <1>1
  <1>3. Range(r) \subseteq Range(s) /\ Head(s) \in Range(s)
    <2>1. \A i \in DOMAIN r : r[i] \in Range(s)
      BY <1>1 DEF Range
    <2>2. Head(s) \in Range(s)
      BY <1>1, <1>2 DEF Range
    <2>3. QED
      BY <2>1, <2>2 DEF Range
  <1>4. QED
    BY <1>3 DEF r

\* One more element at the end, which all may precede.
LEMMA OrderedAppend ==
    ASSUME NEW S, NEW s \in Seq(S), NEW x \in S, NEW R, OrderedBy(s, R),
           \A y \in Range(s) : <<y, x>> \in R
    PROVE  OrderedBy(Append(s, x), R)
  <1> DEFINE r == Append(s, x)
  <1>1. /\ DOMAIN r = 1 .. Len(s) + 1 /\ DOMAIN s = 1 .. Len(s) /\ Len(s) \in Nat
        /\ r[Len(s) + 1] = x /\ \A i \in 1 .. Len(s) : r[i] = s[i]
    BY Appended
  <1> HIDE DEF r
  <1>2. ASSUME NEW i \in DOMAIN r, NEW j \in DOMAIN r, i < j
        PROVE  <<r[i], r[j]>> \in R
    <2>1. i \in DOMAIN s /\ r[i] = s[i] /\ s[i] \in Range(s)
      BY <1>1, <1>2 DEF Range
    <2>2. CASE j = Len(s) + 1
      BY <1>1, <2>1, <2>2
    <2>3. CASE j # Len(s) + 1
      <3>1. j \in DOMAIN s /\ r[j] = s[j]
        BY <1>1, <1>2, <2>3
      <3>2. QED
        BY <1>2, <2>1, <3>1 DEF OrderedBy
    <2>4. QED
      BY <2>2, <2>3
  <1>3. QED
    BY <1>2 DEF OrderedBy, r

\* The first element precedes the rest, which stay in order.
LEMMA OrderedTail ==
    ASSUME NEW S, NEW s \in Seq(S), s # <<>>, NEW R, OrderedBy(s, R)
    PROVE  OrderedBy(Tail(s), R) /\ \A y \in Range(Tail(s)) : <<Head(s), y>> \in R
  <1> DEFINE r == Tail(s)
  <1>1. /\ DOMAIN r = 1 .. Len(s) - 1 /\ DOMAIN s = 1 .. Len(s) /\ Len(s) \in Nat \ {0}
        /\ Head(s) = s[1] /\ \A i \in 1 .. Len(s) - 1 : r[i] = s[i + 1] /\ i + 1 \in DOMAIN s
    BY Tailed
  <1> HIDE DEF r
  <1>2. ASSUME NEW i \in DOMAIN r, NEW j \in DOMAIN r, i < j
        PROVE  <<r[i], r[j]>> \in R
    <2>1. r[i] = s[i + 1] /\ i + 1 \in DOMAIN s /\ r[j] = s[j + 1] /\ j + 1 \in DOMAIN s
      BY <1>1
    <2>2. i + 1 < j + 1
      BY <1>1, <1>2
    <2>3. QED
      BY <2>1, <2>2 DEF OrderedBy
  <1>3. ASSUME NEW i \in DOMAIN r
        PROVE  <<Head(s), r[i]>> \in R
    <2>1. r[i] = s[i + 1] /\ i + 1 \in DOMAIN s /\ 1 \in DOMAIN s /\ 1 < i + 1
      BY <1>1
    <2>2. QED
      BY <1>1, <2>1 DEF OrderedBy
  <1>4. QED
    BY <1>2, <1>3 DEF OrderedBy, Range, r

-----------------------------------------------------------------------------
(***************************************************************************)
(* Types.                                                                  *)
(***************************************************************************)
LEMMA MessageTypes == \A m \in Message : m.by \in Threads /\ m.change \in Nat
  BY DEF Message

LEMMA CallTypes == \A k \in Call : k.to \in Conns /\ k.message \in Message
  BY DEF Call

LEMMA PublishingTypes ==
    /\ \A p \in Publishing : p.change \in Nat /\ p.copied \in BOOLEAN /\ p.targets \subseteq Conns
    /\ Idle \in Publishing /\ Idle.change = 0 /\ Idle.copied = FALSE /\ Idle.targets = {}
  BY DEF Publishing, Idle

\* What a thread publishes is replaced.
LEMMA PubPut ==
    ASSUME TypeInv, NEW t \in Threads, NEW p \in Publishing, pub' = [pub EXCEPT ![t] = p]
    PROVE  /\ pub' \in [Threads -> Publishing] /\ pub'[t] = p
           /\ \A u \in Threads \ {t} : pub'[u] = pub[u]
  BY DEF TypeInv

LEMMA TypeKept ==
    ASSUME TypeInv, Next
    PROVE  TypeInv'
  <1>1. ASSUME NEW t \in Threads, NEW kind \in Kinds, CommitChange(t, kind)
        PROVE  TypeInv'
    <2>1. /\ changes' = Append(changes, kind) /\ changes' \in Seq(Kinds) /\ Len(changes) + 1 \in Nat
      BY <1>1 DEF CommitChange, TypeInv
    <2>2. pub' = [pub EXCEPT ![t].change = Len(changes) + 1] /\ UNCHANGED <<hub, queue, client>>
      BY <1>1 DEF CommitChange
    <2>3. pub' \in [Threads -> Publishing]
      BY <2>1, <2>2 DEF TypeInv, Publishing
    <2>4. QED
      BY <2>1, <2>2, <2>3 DEF TypeInv, hub, client
  <1>2. ASSUME NEW t \in Threads, CopyTargets(t)
        PROVE  TypeInv'
    <2> DEFINE T == {c \in subs : On[c] = Channel(changes[pub[t].change])}
    <2>1. T \subseteq Conns
      BY DEF TypeInv
    <2>2. /\ pub' = [pub EXCEPT ![t].copied = TRUE, ![t].targets = T]
          /\ UNCHANGED <<changes, hub, queue, client>>
      BY <1>2 DEF CopyTargets
    <2> HIDE DEF T
    <2>3. pub' \in [Threads -> Publishing]
      BY <2>1, <2>2 DEF TypeInv, Publishing
    <2>4. QED
      BY <2>2, <2>3 DEF TypeInv, hub, client
  <1>3. ASSUME NEW t \in Threads, Published(t)
        PROVE  TypeInv'
    <2>1. pub' = [pub EXCEPT ![t] = Idle] /\ UNCHANGED <<changes, hub, queue, client>>
      BY <1>3 DEF Published
    <2>2. QED
      BY <2>1, PubPut, PublishingTypes DEF TypeInv, hub, client
  <1>4. ASSUME NEW t \in Threads, NEW c \in Conns, Deliver(t, c)
        PROVE  TypeInv'
    <2> DEFINE call == [to |-> c, message |-> [by |-> t, change |-> pub[t].change]]
    <2>1. /\ pub' = [pub EXCEPT ![t].targets = @ \ {c}]
          /\ subs' \subseteq subs /\ (calls' = calls \/ calls' = Append(calls, call))
          /\ UNCHANGED <<changes, queue, client>>
      BY <1>4 DEF Deliver
    <2>2. call \in Call
      BY PublishingTypes DEF TypeInv, Call, Message
    <2> HIDE DEF call
    <2>3. calls' \in Seq(Call)
      <3>1. calls \in Seq(Call)
        BY DEF TypeInv
      <3>2. Append(calls, call) \in Seq(Call)
        BY <2>2, <3>1, Appended
      <3>3. QED
        BY <2>1, <3>1, <3>2
    <2>4. pub' \in [Threads -> Publishing]
      <3> DEFINE p == [pub[t] EXCEPT !.targets = @ \ {c}]
      <3>1. p \in Publishing
        BY DEF TypeInv, Publishing
      <3>2. pub' = [pub EXCEPT ![t] = p]
        BY <2>1
      <3> HIDE DEF p
      <3>3. QED
        BY <3>1, <3>2, PubPut
    <2>5. QED
      BY <2>1, <2>3, <2>4 DEF TypeInv, client
  <1>5. ASSUME Enqueue
        PROVE  TypeInv'
    <2> DEFINE c == Head(calls).to
               m == Head(calls).message
               q == IF Len(queue[c]) = Depth THEN Tail(queue[c]) ELSE queue[c]
    <2>1. /\ calls # <<>> /\ calls' = Tail(calls) /\ queue' = [queue EXCEPT ![c] = Append(q, m)]
          /\ UNCHANGED <<changes, pub, subs, client>>
      BY <1>5 DEF Enqueue
    <2>2. Head(calls) \in Call /\ calls' \in Seq(Call)
      BY <2>1, Tailed DEF TypeInv
    <2>3. c \in Conns /\ m \in Message
      BY <2>2, CallTypes
    <2>4. queue[c] \in Seq(Message) /\ (Len(queue[c]) = Depth => queue[c] # <<>>)
      BY <2>3, RealtimeAssumption DEF TypeInv
    <2>5. Append(q, m) \in Seq(Message)
      BY <2>3, <2>4
    <2> HIDE DEF q, m, c
    <2>6. QED
      BY <2>1, <2>2, <2>5 DEF TypeInv, client
  <1>6. ASSUME NEW c \in Conns, Pump(c)
        PROVE  TypeInv'
    <2>1. /\ queue[c] # <<>> /\ queue' = [queue EXCEPT ![c] = Tail(queue[c])]
          /\ sent' = [sent EXCEPT ![c] = Append(sent[c], Head(queue[c]))]
          /\ UNCHANGED <<changes, pub, hub>>
      BY <1>6 DEF Pump
    <2>2. queue[c] \in Seq(Message) /\ sent[c] \in Seq(Message)
      BY DEF TypeInv
    <2>3. Tail(queue[c]) \in Seq(Message) /\ Append(sent[c], Head(queue[c])) \in Seq(Message)
      BY <2>1, <2>2, Tailed
    <2>4. QED
      BY <2>1, <2>3 DEF TypeInv, hub
  <1>7. ASSUME NEW c \in Conns,
               Refuse(c) \/ Subscribe(c) \/ SendReady(c) \/ Notice(c) \/ Close(c) \/ Disconnect(c)
        PROVE  TypeInv'
    BY <1>7 DEF Refuse, Subscribe, SendReady, Notice, Close, Disconnect, TypeInv, hub, client
  <1>8. ASSUME LoopCloses
        PROVE  TypeInv'
    BY <1>8 DEF LoopCloses, TypeInv, client
  <1>9. QED
    BY <1>1, <1>2, <1>3, <1>4, <1>5, <1>6, <1>7, <1>8 DEF Next

-----------------------------------------------------------------------------
(***************************************************************************)
(* The order of the messages.                                              *)
(***************************************************************************)
LEMMA Elements ==
    ASSUME TypeInv
    PROVE  /\ \A c \in Conns : Range(sent[c]) \subseteq Message /\ Range(queue[c]) \subseteq Message
           /\ Range(calls) \subseteq Call
  BY RangeType DEF TypeInv

LEMMA Follows ==
    /\ \A m \in Message : \A n \in Message : <<m, n>> \in Follow <=> Before(m, n)
    /\ \A k \in Call : \A l \in Call :
          <<k, l>> \in CallsFollow <=> (k.to = l.to => Before(k.message, l.message))
  BY DEF Follow, CallsFollow

\* A step that moves no message.
LEMMA StillOrdered ==
    ASSUME HubInv, UNCHANGED <<calls, queue, sent>>,
           \A m \in Message : \A c \in Conns : HandedOver(m, c) => HandedOver(m, c)',
           \A t \in Threads : PubOK(pub'[t], Len(changes'))
    PROVE  OrderInv'
  <1>1. /\ \A c \in Conns : Range(sent[c]) \subseteq Message /\ Range(queue[c]) \subseteq Message
        /\ \A k \in Range(calls) : k.message \in Message /\ k.to \in Conns
    BY Elements, CallTypes DEF HubInv
  <1>2. OrderInv
    BY DEF HubInv
  <1>3. \A c \in Conns : /\ OrderedBy(sent[c], Follow)' /\ OrderedBy(queue[c], Follow)'
                         /\ Ahead(sent[c], queue[c])'
                         /\ AheadOfCalls(sent[c], c)' /\ AheadOfCalls(queue[c], c)'
    BY <1>2 DEF OrderInv, OrderedBy, Ahead, AheadOfCalls, Before
  <1>4. OrderedBy(calls, CallsFollow)'
    BY <1>2 DEF OrderInv, OrderedBy
  <1>5. \A c \in Conns : \A m \in Range(sent[c]) \cup Range(queue[c]) : HandedOver(m, c)'
    BY <1>1, <1>2 DEF OrderInv
  <1>6. \A k \in Range(calls) : HandedOver(k.message, k.to)'
    BY <1>1, <1>2 DEF OrderInv
  <1>7. \A t \in Threads : PubOK(pub[t], Len(changes))'
    BY DEF PubOK
  <1>8. QED
    BY <1>3, <1>4, <1>5, <1>6, <1>7 DEF OrderInv

LEMMA CommitOrder ==
    ASSUME HubInv, NEW t \in Threads, NEW kind \in Kinds, CommitChange(t, kind)
    PROVE  OrderInv'
  <1> DEFINE p == [pub[t] EXCEPT !.change = Len(changes) + 1]
  <1>0. pub[t] = Idle /\ changes' = Append(changes, kind) /\ UNCHANGED <<calls, queue, sent>>
    BY DEF CommitChange, hub, client
  <1>1. pub' = [pub EXCEPT ![t] = p]
    BY DEF CommitChange
  <1>2. Len(changes') = Len(changes) + 1 /\ Len(changes) \in Nat
    <2>1. changes \in Seq(Kinds)
      BY DEF HubInv, TypeInv
    <2>2. QED
      BY <1>0, <2>1
  <1>3. p = [change |-> Len(changes) + 1, copied |-> pub[t].copied, targets |-> pub[t].targets]
    <2>1. pub[t] = [change |-> pub[t].change, copied |-> pub[t].copied,
                    targets |-> pub[t].targets]
      BY DEF HubInv, TypeInv, Publishing
    <2>2. QED
      BY <2>1
  <1> HIDE DEF p
  <1>4. p.change = Len(changes) + 1 /\ p.targets = {} /\ p \in Publishing
    <2>1. pub[t].targets = {} /\ pub[t].copied \in BOOLEAN
      BY <1>0, PublishingTypes
    <2>2. QED
      BY <1>2, <1>3, <2>1 DEF Publishing
  <1>5. pub'[t] = p /\ \A u \in Threads \ {t} : pub'[u] = pub[u]
    BY <1>1, <1>4, PubPut DEF HubInv
  <1>6. ASSUME NEW m \in Message, NEW c \in Conns, HandedOver(m, c)
        PROVE  HandedOver(m, c)'
    <2>1. m.by \in Threads /\ m.change \in Nat /\ m.change <= Len(changes)
      BY <1>6, MessageTypes DEF HandedOver
    <2>2. QED
      BY <1>2, <1>4, <1>5, <1>6, <2>1 DEF HandedOver
  <1>7. ASSUME NEW u \in Threads
        PROVE  PubOK(pub'[u], Len(changes'))
    <2>1. pub[u].change \in Nat /\ PubOK(pub[u], Len(changes))
      BY PublishingTypes DEF HubInv, TypeInv, OrderInv
    <2>2. QED
      BY <1>2, <1>4, <1>5, <2>1 DEF PubOK
  <1>8. QED
    BY <1>0, <1>6, <1>7, StillOrdered

\* A step of a thread that gives it nothing more to hand over.
LEMMA PublishOrder ==
    ASSUME HubInv, NEW t \in Threads, NEW p \in Publishing, pub' = [pub EXCEPT ![t] = p],
           UNCHANGED <<changes, calls, queue, sent>>,
           p.change \in {0, pub[t].change}, ~p.copied \/ p.change = 0 => p.targets = {},
           \A c \in Conns : p.change # 0 /\ (~p.copied \/ c \in p.targets)
                               => pub[t].change # 0 /\ (~pub[t].copied \/ c \in pub[t].targets)
    PROVE  OrderInv'
  <1>1. pub'[t] = p /\ \A u \in Threads \ {t} : pub'[u] = pub[u]
    BY PubPut DEF HubInv
  <1>2. Len(changes) \in Nat
    BY DEF HubInv, TypeInv
  <1>3. ASSUME NEW m \in Message, NEW c \in Conns, HandedOver(m, c)
        PROVE  HandedOver(m, c)'
    <2>1. m.by \in Threads
      BY MessageTypes
    <2>2. QED
      BY <1>1, <1>3, <2>1 DEF HandedOver
  <1>4. ASSUME NEW u \in Threads
        PROVE  PubOK(pub'[u], Len(changes'))
    BY <1>1, <1>2 DEF HubInv, OrderInv, PubOK
  <1>5. QED
    BY <1>3, <1>4, StillOrdered

LEMMA CopyOrder ==
    ASSUME HubInv, NEW t \in Threads, CopyTargets(t)
    PROVE  OrderInv'
  <1> DEFINE T == {c \in subs : On[c] = Channel(changes[pub[t].change])}
             p == [pub[t] EXCEPT !.copied = TRUE, !.targets = T]
  <1>1. T \subseteq Conns /\ pub[t] \in Publishing
    BY DEF HubInv, TypeInv
  <1>2. /\ pub' = [pub EXCEPT ![t] = p] /\ UNCHANGED <<changes, calls, queue, sent>>
        /\ pub[t].change # 0 /\ ~pub[t].copied
    BY DEF CopyTargets, hub, client
  <1> HIDE DEF T
  <1>3. p \in Publishing /\ p.change = pub[t].change /\ p.copied
    BY <1>1 DEF Publishing
  <1> HIDE DEF p
  <1>4. QED
    BY <1>2, <1>3, PublishOrder

LEMMA PublishedOrder ==
    ASSUME HubInv, NEW t \in Threads, Published(t)
    PROVE  OrderInv'
  <1>1. pub' = [pub EXCEPT ![t] = Idle] /\ UNCHANGED <<changes, calls, queue, sent>>
    BY DEF Published, hub, client
  <1>2. QED
    BY <1>1, PublishingTypes, PublishOrder

\* sink schedules the put behind all that the thread has handed to c.
LEMMA DeliverOrder ==
    ASSUME HubInv, NEW t \in Threads, NEW c \in Conns, Deliver(t, c)
    PROVE  OrderInv'
  <1> DEFINE p == [pub[t] EXCEPT !.targets = @ \ {c}]
  <1>0. PICK m : m = [by |-> t, change |-> pub[t].change]
    OBVIOUS
  <1> DEFINE call == [to |-> c, message |-> m]
  <1>1. /\ c \in pub[t].targets /\ pub[t] \in Publishing /\ pub[t].change \in Nat
        /\ PubOK(pub[t], Len(changes)) /\ TypeInv /\ OrderInv
    BY PublishingTypes DEF Deliver, HubInv, TypeInv, OrderInv
  <1>2. /\ pub' = [pub EXCEPT ![t] = p] /\ UNCHANGED <<changes, queue, sent>>
        /\ calls' = calls \/ calls' = Append(calls, call)
    BY <1>0 DEF Deliver, client
  <1>3. /\ p \in Publishing /\ p.change = pub[t].change /\ p.copied = pub[t].copied
        /\ p.targets = pub[t].targets \ {c}
    BY <1>1 DEF Publishing
  <1>4. pub[t].change # 0 /\ pub[t].copied /\ pub[t].change <= Len(changes)
    BY <1>1 DEF PubOK
  <1>5. m \in Message /\ m.by = t /\ m.change = pub[t].change
    BY <1>0, <1>1 DEF Message
  <1> HIDE DEF p
  <1>6. call \in Call /\ call.to = c /\ call.message = m
    BY <1>5 DEF Call
  <1> HIDE DEF call
  <1>7. CASE calls' = calls
    BY <1>1, <1>2, <1>3, <1>4, <1>7, PublishOrder
  <1>8. CASE calls' = Append(calls, call)
    <2>1. pub'[t] = p /\ \A u \in Threads \ {t} : pub'[u] = pub[u]
      BY <1>1, <1>2, <1>3, PubPut
    <2>2. calls \in Seq(Call)
      BY <1>1 DEF TypeInv
    <2>3. Range(calls') = Range(calls) \cup {call}
      BY <1>6, <1>8, <2>2, RangeAppend
    <2>4. /\ \A d \in Conns : Range(sent[d]) \subseteq Message /\ Range(queue[d]) \subseteq Message
          /\ Range(calls) \subseteq Call
      BY <1>1, Elements
    <2>5. \A n \in Message : HandedOver(n, c) => Before(n, m)
      BY <1>4, <1>5, <1>1 DEF HandedOver, Before
    <2>6. ASSUME NEW n \in Message, NEW d \in Conns, HandedOver(n, d)
          PROVE  HandedOver(n, d)'
      <3>1. n.by \in Threads
        BY MessageTypes
      <3>2. QED
        BY <1>2, <1>3, <2>1, <2>6, <3>1 DEF HandedOver
    <2>7. HandedOver(call.message, call.to)'
      BY <1>2, <1>3, <1>4, <1>5, <1>6, <2>1 DEF HandedOver
    <2>8. OrderedBy(calls', CallsFollow)
      <3>1. ASSUME NEW k \in Range(calls)
            PROVE  <<k, call>> \in CallsFollow
        <4>1. k \in Call /\ HandedOver(k.message, k.to) /\ k.message \in Message
          BY <1>1, <2>4, CallTypes DEF OrderInv
        <4>2. k.to = call.to => Before(k.message, call.message)
          BY <1>6, <2>5, <4>1
        <4>3. QED
          BY <1>6, <4>1, <4>2, Follows
      <3>2. OrderedBy(calls, CallsFollow)
        BY <1>1 DEF OrderInv
      <3>3. QED
        BY <1>6, <1>8, <2>2, <3>1, <3>2, OrderedAppend
    <2>9. ASSUME NEW d \in Conns, NEW s, Range(s) \subseteq Message, AheadOfCalls(s, d),
                 \A n \in Range(s) : HandedOver(n, d)
          PROVE  \A n \in Range(s) : \A k \in Range(calls') : k.to = d => Before(n, k.message)
      BY <1>6, <2>3, <2>5, <2>9 DEF AheadOfCalls
    <2>10. ASSUME NEW d \in Conns
           PROVE  /\ OrderedBy(sent[d], Follow)' /\ OrderedBy(queue[d], Follow)'
                  /\ Ahead(sent[d], queue[d])'
                  /\ AheadOfCalls(sent[d], d)' /\ AheadOfCalls(queue[d], d)'
                  /\ \A n \in Range(sent[d]) \cup Range(queue[d]) : HandedOver(n, d)'
      <3>1. /\ OrderedBy(sent[d], Follow) /\ OrderedBy(queue[d], Follow)
            /\ Ahead(sent[d], queue[d])
            /\ AheadOfCalls(sent[d], d) /\ AheadOfCalls(queue[d], d)
            /\ \A n \in Range(sent[d]) \cup Range(queue[d]) : HandedOver(n, d)
        BY <1>1 DEF OrderInv
      <3>2. AheadOfCalls(sent[d], d)' /\ AheadOfCalls(queue[d], d)'
        BY <1>2, <2>4, <2>9, <3>1 DEF AheadOfCalls, Before
      <3>3. /\ OrderedBy(sent[d], Follow)' /\ OrderedBy(queue[d], Follow)'
            /\ Ahead(sent[d], queue[d])'
        BY <1>2, <3>1 DEF OrderedBy, Ahead, Before
      <3>4. \A n \in Range(sent[d]) \cup Range(queue[d]) : HandedOver(n, d)'
        BY <2>4, <2>6, <3>1
      <3>5. QED
        BY <3>2, <3>3, <3>4
    <2>11. \A n \in Range(sent'[c]) \cup Range(queue'[c]) : n \in Message
      BY <1>2, <2>4
    <2>12. \A k \in Range(calls') : HandedOver(k.message, k.to)'
      <3>1. \A k \in Range(calls) : HandedOver(k.message, k.to)'
        BY <1>1, <2>4, <2>6, CallTypes DEF OrderInv
      <3>2. QED
        BY <2>3, <2>7, <3>1
    <2>13. ASSUME NEW u \in Threads
           PROVE  PubOK(pub[u], Len(changes))'
      <3>1. PubOK(pub[u], Len(changes))
        BY <1>1 DEF OrderInv
      <3>2. QED
        BY <1>2, <1>3, <1>4, <2>1, <3>1 DEF PubOK
    <2>14. \A d \in Conns : \A n \in Range(sent'[d]) \cup Range(queue'[d]) : HandedOver(n, d)'
      BY <1>2, <2>10
    <2>15. OrderedBy(calls, CallsFollow)'
      BY <2>8 DEF OrderedBy
    <2>16. QED
      BY <1>2, <2>10, <2>12, <2>13, <2>15 DEF OrderInv
  <1>9. QED
    BY <1>2, <1>7, <1>8

\* enqueue puts the first call's message behind those of its queue, which may lose its first.
LEMMA EnqueueOrder ==
    ASSUME HubInv, Enqueue
    PROVE  OrderInv'
  <1>1. PICK k0, c, m, q, r :
            /\ k0 = Head(calls) /\ c = k0.to /\ m = k0.message /\ r = Tail(calls)
            /\ q = IF Len(queue[c]) = Depth THEN Tail(queue[c]) ELSE queue[c]
    OBVIOUS
  <1>2. /\ calls # <<>> /\ calls' = r /\ queue' = [queue EXCEPT ![c] = Append(q, m)]
        /\ UNCHANGED <<changes, pub, sent>>
    BY <1>1 DEF Enqueue, client
  <1>3. /\ TypeInv /\ OrderInv /\ calls \in Seq(Call) /\ OrderedBy(calls, CallsFollow)
        /\ \A d \in Conns : Range(sent[d]) \subseteq Message /\ Range(queue[d]) \subseteq Message
        /\ Range(calls) \subseteq Call
    BY Elements DEF HubInv, TypeInv, OrderInv
  <1>4. Range(r) \subseteq Range(calls) /\ k0 \in Range(calls)
    BY <1>1, <1>2, <1>3, RangeTail
  <1>5. c \in Conns /\ m \in Message
    BY <1>1, <1>3, <1>4, CallTypes
  <1>6. OrderedBy(r, CallsFollow) /\ \A k \in Range(r) : <<k0, k>> \in CallsFollow
    BY <1>1, <1>2, <1>3, OrderedTail
  <1>7. \A k \in Range(r) : k.to = c => Before(m, k.message)
    BY <1>1, <1>3, <1>4, <1>6, Follows
  <1>8. /\ queue[c] \in Seq(Message) /\ OrderedBy(queue[c], Follow)
        /\ Ahead(sent[c], queue[c]) /\ OrderedBy(sent[c], Follow)
        /\ AheadOfCalls(sent[c], c) /\ AheadOfCalls(queue[c], c)
    BY <1>3, <1>5 DEF OrderInv, TypeInv
  <1>9. q \in Seq(Message) /\ OrderedBy(q, Follow) /\ Range(q) \subseteq Range(queue[c])
    <2>1. CASE Len(queue[c]) = Depth
      <3>1. queue[c] # <<>>
        BY <1>8, <2>1, RealtimeAssumption
      <3>2. q = Tail(queue[c])
        BY <1>1, <2>1
      <3>3. QED
        BY <1>8, <3>1, <3>2, RangeTail, OrderedTail, Tailed
    <2>2. CASE Len(queue[c]) # Depth
      BY <1>1, <1>8, <2>2
    <2>3. QED
      BY <2>1, <2>2
  <1>10. \A n \in Range(q) : Before(n, m) /\ n \in Message
    BY <1>1, <1>3, <1>4, <1>5, <1>8, <1>9 DEF AheadOfCalls
  <1>11. \A n \in Range(sent[c]) : Before(n, m)
    BY <1>1, <1>4, <1>8 DEF AheadOfCalls
  <1>12. /\ queue'[c] = Append(q, m) /\ \A d \in Conns \ {c} : queue'[d] = queue[d]
         /\ Range(queue'[c]) = Range(q) \cup {m}
    BY <1>2, <1>3, <1>5, <1>9, RangeAppend DEF TypeInv
  <1>13. OrderedBy(queue'[c], Follow)
    BY <1>5, <1>9, <1>10, <1>12, Follows, OrderedAppend
  <1>14. Ahead(sent[c], queue'[c])
    BY <1>8, <1>9, <1>11, <1>12 DEF Ahead
  <1>15. \A n \in Range(queue'[c]) : \A k \in Range(r) : k.to = c => Before(n, k.message)
    BY <1>4, <1>7, <1>8, <1>9, <1>12 DEF AheadOfCalls
  <1>16. ASSUME NEW d \in Conns
         PROVE  /\ OrderedBy(sent'[d], Follow) /\ OrderedBy(queue'[d], Follow)
                /\ Ahead(sent'[d], queue'[d])
                /\ AheadOfCalls(sent[d], d)' /\ AheadOfCalls(queue[d], d)'
    <2>1. AheadOfCalls(sent[d], d)'
      BY <1>2, <1>3, <1>4 DEF OrderInv, AheadOfCalls, Before
    <2>2. CASE d = c
      BY <1>2, <1>8, <1>13, <1>14, <1>15, <2>1, <2>2 DEF AheadOfCalls, Before
    <2>3. CASE d # c
      <3>1. AheadOfCalls(queue[d], d)'
        BY <1>2, <1>3, <1>4, <1>12, <2>3 DEF OrderInv, AheadOfCalls, Before
      <3>2. queue'[d] = queue[d] /\ sent'[d] = sent[d]
        BY <1>2, <1>12, <2>3
      <3>3. QED
        BY <1>3, <2>1, <3>1, <3>2 DEF OrderInv
    <2>4. QED
      BY <2>2, <2>3
  <1>17. \A n, d : HandedOver(n, d) => HandedOver(n, d)'
    BY <1>2 DEF HandedOver
  <1>18. ASSUME NEW d \in Conns, NEW n \in Range(sent'[d]) \cup Range(queue'[d])
         PROVE  HandedOver(n, d)'
    <2>1. HandedOver(m, c)
      BY <1>1, <1>3, <1>4 DEF OrderInv
    <2>2. \/ n \in Range(sent[d]) \cup Range(queue[d])
          \/ d = c /\ n = m
      BY <1>2, <1>9, <1>12
    <2>3. HandedOver(n, d)
      BY <1>3, <2>1, <2>2 DEF OrderInv
    <2>4. QED
      BY <1>17, <2>3
  <1>19. \A k \in Range(calls') : HandedOver(k.message, k.to)'
    BY <1>2, <1>3, <1>4, <1>17 DEF OrderInv
  <1>20. \A t \in Threads : PubOK(pub[t], Len(changes))'
    BY <1>2, <1>3 DEF OrderInv, PubOK
  <1>21. QED
    BY <1>2, <1>6, <1>16, <1>18, <1>19, <1>20 DEF OrderInv, OrderedBy, Ahead, Before

\* pump sends the first message of the queue, which comes before the rest and after what it
\* has sent.
LEMMA PumpOrder ==
    ASSUME HubInv, NEW c \in Conns, Pump(c)
    PROVE  OrderInv'
  <1>1. PICK m, q : m = Head(queue[c]) /\ q = Tail(queue[c])
    OBVIOUS
  <1>2. /\ queue[c] # <<>> /\ queue' = [queue EXCEPT ![c] = q]
        /\ sent' = [sent EXCEPT ![c] = Append(sent[c], m)]
        /\ UNCHANGED <<changes, pub, calls>>
    BY <1>1 DEF Pump, hub
  <1>3. /\ OrderInv /\ queue[c] \in Seq(Message) /\ sent[c] \in Seq(Message)
        /\ queue \in [Conns -> Seq(Message)] /\ sent \in [Conns -> Seq(Message)]
        /\ Range(queue[c]) \subseteq Message /\ Range(sent[c]) \subseteq Message
    BY Elements DEF HubInv, TypeInv
  <1>4. /\ OrderedBy(sent[c], Follow) /\ OrderedBy(queue[c], Follow) /\ Ahead(sent[c], queue[c])
        /\ AheadOfCalls(sent[c], c) /\ AheadOfCalls(queue[c], c)
    BY <1>3 DEF OrderInv
  <1>5. Range(q) \subseteq Range(queue[c]) /\ m \in Range(queue[c]) /\ m \in Message
    BY <1>1, <1>2, <1>3, RangeTail
  <1>6. OrderedBy(q, Follow) /\ \A n \in Range(q) : <<m, n>> \in Follow
    BY <1>1, <1>2, <1>3, <1>4, OrderedTail
  <1>7. \A n \in Range(sent[c]) : <<n, m>> \in Follow
    BY <1>3, <1>4, <1>5, Follows DEF Ahead
  <1>8. /\ queue'[c] = q /\ sent'[c] = Append(sent[c], m)
        /\ \A d \in Conns \ {c} : queue'[d] = queue[d] /\ sent'[d] = sent[d]
        /\ Range(sent'[c]) = Range(sent[c]) \cup {m}
    BY <1>2, <1>3, <1>5, RangeAppend
  <1>9. OrderedBy(sent'[c], Follow)
    BY <1>3, <1>4, <1>5, <1>7, <1>8, OrderedAppend
  <1>10. Ahead(sent'[c], queue'[c])
    <2>1. \A n \in Range(q) : Before(m, n)
      BY <1>3, <1>5, <1>6, Follows
    <2>2. QED
      BY <1>4, <1>5, <1>8, <2>1 DEF Ahead
  <1>11. AheadOfCalls(sent[c], c)' /\ AheadOfCalls(queue[c], c)'
    BY <1>2, <1>4, <1>5, <1>8 DEF AheadOfCalls, Before
  <1>12. ASSUME NEW d \in Conns
         PROVE  /\ OrderedBy(sent'[d], Follow) /\ OrderedBy(queue'[d], Follow)
                /\ Ahead(sent'[d], queue'[d])
                /\ AheadOfCalls(sent[d], d)' /\ AheadOfCalls(queue[d], d)'
    <2>1. CASE d = c
      BY <1>6, <1>8, <1>9, <1>10, <1>11, <2>1
    <2>2. CASE d # c
      <3>1. queue'[d] = queue[d] /\ sent'[d] = sent[d] /\ calls' = calls
        BY <1>2, <1>8, <2>2
      <3>2. QED
        BY <1>3, <3>1 DEF OrderInv, AheadOfCalls, Before
    <2>3. QED
      BY <2>1, <2>2
  <1>13. \A n, d : HandedOver(n, d) => HandedOver(n, d)'
    BY <1>2 DEF HandedOver
  <1>14. ASSUME NEW d \in Conns, NEW n \in Range(sent'[d]) \cup Range(queue'[d])
         PROVE  HandedOver(n, d)'
    <2>1. n \in Range(sent[d]) \cup Range(queue[d])
      BY <1>5, <1>8
    <2>2. QED
      BY <1>3, <1>13, <2>1 DEF OrderInv
  <1>15. \A k \in Range(calls') : HandedOver(k.message, k.to)'
    BY <1>2, <1>3, <1>13 DEF OrderInv
  <1>16. \A t \in Threads : PubOK(pub[t], Len(changes))'
    BY <1>2, <1>3 DEF OrderInv, PubOK
  <1>17. OrderedBy(calls, CallsFollow)'
    BY <1>2, <1>3 DEF OrderInv, OrderedBy
  <1>18. QED
    BY <1>12, <1>14, <1>15, <1>16, <1>17 DEF OrderInv, OrderedBy, Ahead, Before

\* The steps of the gateway and of clients that move no message.
LEMMA QuietOrder ==
    ASSUME HubInv, UNCHANGED <<changes, pub, calls, queue, sent>>
    PROVE  OrderInv'
  <1>1. \A m, c : HandedOver(m, c) => HandedOver(m, c)'
    BY DEF HandedOver
  <1>2. \A t \in Threads : PubOK(pub'[t], Len(changes'))
    BY DEF HubInv, OrderInv, PubOK
  <1>3. QED
    BY <1>1, <1>2, StillOrdered

-----------------------------------------------------------------------------
(***************************************************************************)
(* The invariant of the hub.                                               *)
(***************************************************************************)
LEMMA HubInit == Init => HubInv
  <1> SUFFICES ASSUME Init PROVE HubInv
    OBVIOUS
  <1>1. TypeInv
    BY PublishingTypes DEF Init, TypeInv
  <1>2. Range(<<>>) = {} /\ DOMAIN <<>> = {} /\ Len(<<>>) = 0
    BY DEF Range
  <1>3. \A t \in Threads : PubOK(pub[t], Len(changes))
    BY <1>2, PublishingTypes DEF Init, PubOK
  <1>4. calls = <<>> /\ \A c \in Conns : sent[c] = <<>> /\ queue[c] = <<>>
    BY DEF Init
  <1>5. OrderInv
    BY <1>2, <1>3, <1>4 DEF OrderInv, OrderedBy, Ahead, AheadOfCalls
  <1>6. QED
    BY <1>1, <1>5 DEF HubInv

LEMMA HubKept == HubInv /\ [Next]_vars => HubInv'
  <1> SUFFICES ASSUME HubInv, [Next]_vars PROVE HubInv'
    OBVIOUS
  <1>1. CASE Next
    <2>1. TypeInv'
      BY <1>1, TypeKept DEF HubInv
    <2>2. ASSUME NEW c \in Conns,
                 Refuse(c) \/ Subscribe(c) \/ SendReady(c) \/ Notice(c) \/ Close(c) \/ Disconnect(c)
          PROVE  OrderInv'
      <3>1. UNCHANGED <<changes, pub, calls, queue, sent>>
        BY <2>2 DEF Refuse, Subscribe, SendReady, Notice, Close, Disconnect, hub, client
      <3>2. QED
        BY <3>1, QuietOrder
    <2>3. ASSUME LoopCloses
          PROVE  OrderInv'
      BY <2>3, QuietOrder DEF LoopCloses, client
    <2>4. OrderInv'
      BY <1>1, <2>2, <2>3, CommitOrder, CopyOrder, PublishedOrder, DeliverOrder, EnqueueOrder,
         PumpOrder
      DEF Next
    <2>5. QED
      BY <2>1, <2>4 DEF HubInv
  <1>2. CASE UNCHANGED vars
    <2>1. UNCHANGED <<changes, pub, subs, calls, queue, sent>>
      BY <1>2 DEF vars, hub, client
    <2>2. TypeInv'
      BY <2>1 DEF HubInv, TypeInv
    <2>3. QED
      BY <2>1, <2>2, QuietOrder DEF HubInv
  <1>3. QED
    BY <1>1, <1>2

LEMMA HubImplies == HubInv => InOrder
  <1> SUFFICES ASSUME HubInv PROVE InOrder
    OBVIOUS
  <1>1. ASSUME NEW c \in Conns, NEW i \in DOMAIN sent[c], NEW j \in DOMAIN sent[c],
               i < j, sent[c][i].by = sent[c][j].by
        PROVE  sent[c][i].change < sent[c][j].change
    <2>1. <<sent[c][i], sent[c][j]>> \in Follow
      BY <1>1 DEF HubInv, OrderInv, OrderedBy
    <2>2. sent[c][i] \in Message /\ sent[c][j] \in Message
      BY <1>1, Elements DEF HubInv, Range
    <2>3. QED
      BY <1>1, <2>1, <2>2, Follows DEF Before
  <1>2. QED
    BY <1>1 DEF InOrder

\* What one thread publishes reaches a client in its order and at most once, though each
\* message passes the event loop and a queue that may lose its oldest (publish, sink,
\* enqueue and pump).
THEOREM ToldInOrder == Spec => []InOrder
  <1>1. Spec => []HubInv
    BY HubInit, HubKept, PTL DEF Spec
  <1>2. QED
    BY <1>1, HubImplies, PTL

-----------------------------------------------------------------------------
(***************************************************************************)
(* The forecast service.                                                   *)
(***************************************************************************)
\* The sum of a function's values is the sum that ArithmeticTheorems is about.
LEMMA SumIsOnDomain ==
    ASSUME NEW f
    PROVE  SumFunction(f) = SumFunctionOnSet(f, DOMAIN f)
  BY DEF SumFunction

LEMMA MaxNat ==
    ASSUME NEW S \in SUBSET Nat, IsFiniteSet(S), S # {}
    PROVE  Max(S) \in S /\ \A x \in S : x <= Max(S)
  <1>1. PICK m \in S : \A x \in S : x <= m
    BY MaxExists
  <1>2. \A x \in S : m >= x
    BY <1>1
  <1>3. Max(S) \in S /\ \A y \in S : Max(S) >= y
    BY <1>1, <1>2 DEF Max
  <1>4. QED
    BY <1>3

-----------------------------------------------------------------------------
Asks == {q \in Requests : q.start < q.end}
Observed == [start : Slots, solar : Nat \cup {Absent}, load : Nat \cup {Absent}]
Histories == {h \in SUBSET Observed : IsFiniteSet(h)}
Confidences == {"none", "some", "beyond"}
Powers == Int \cup {Absent}
PointRecord == [start : Int, end : Int, storable : BOOLEAN, kw : Powers, confidence : Confidences]
RunPoint == {p \in PointRecord : /\ p.start \in Slots /\ p.end \in Slots
                                 /\ p.start < p.end}
PointSets == {S \in SUBSET RunPoint : IsFiniteSet(S)}
Run == [type : Types, start : Slots, end : Slots,
        status : {"uncommitted", "running", "completed", "failed"}, points : PointSets]

Stamped == [at : {"stamped"}, run : Nat, ask : Asks]
Begun == [at : {"begun"}, run : Nat, ask : Asks]
Asked == [at : {"asked"}, run : Nat, ask : Asks, history : Histories]
Answered == [at : {"answered"}, run : Nat, points : PointSets]
Job == {NoJob} \cup Stamped \cup Begun \cup Asked \cup Answered

Busy(w) == job[w] # NoJob

\* A thread at work has a run of its own, which has not ended.
OwnRun ==
    /\ \A w \in Forecasters : Busy(w) => /\ job[w].run \in DOMAIN runs
                                     /\ runs[job[w].run].status \in {"uncommitted", "running"}
    /\ \A v, w \in Forecasters : Busy(v) /\ Busy(w) /\ job[v].run = job[w].run => v = w

ForecastInv ==
    /\ readings \in SUBSET Observations /\ IsFiniteSet(readings)
    /\ runs \in Seq(Run)
    /\ job \in [Forecasters -> Job]
    /\ OwnRun
    /\ FailureRecorded

LEMMA BusyJob ==
    ASSUME ForecastInv, NEW w \in Forecasters
    PROVE  /\ job[w].at = "stamped" => job[w] \in Stamped
           /\ job[w].at = "begun" => job[w] \in Begun
           /\ job[w].at = "asked" => job[w] \in Asked
           /\ job[w].at = "answered" => job[w] \in Answered
           /\ Busy(w) => job[w] \in Stamped \cup Begun \cup Asked \cup Answered
           /\ job[w].at \in {"stamped", "begun", "asked", "answered"} => Busy(w)
  <1>1. job[w] \in Job
    BY DEF ForecastInv
  <1>2. NoJob.at = "idle"
    BY DEF NoJob
  <1>3. /\ job[w] \in Stamped => job[w].at = "stamped"
        /\ job[w] \in Begun => job[w].at = "begun"
        /\ job[w] \in Asked => job[w].at = "asked"
        /\ job[w] \in Answered => job[w].at = "answered"
    BY DEF Stamped, Begun, Asked, Answered
  <1>4. QED
    BY <1>1, <1>2, <1>3 DEF Job, Busy

LEMMA ForecastStarts == ForecastInit => ForecastInv
  <1> SUFFICES ASSUME ForecastInit
               PROVE  ForecastInv
    OBVIOUS
  <1>1. IsFiniteSet({})
    BY FS_EmptySet
  <1>2. /\ readings = {} /\ runs = <<>> /\ job = [w \in Forecasters |-> NoJob]
    BY DEF ForecastInit
  <1>3. runs \in Seq(Run) /\ DOMAIN runs = {}
    BY <1>2
  <1>4. job \in [Forecasters -> Job] /\ \A w \in Forecasters : ~Busy(w)
    BY <1>2 DEF Job, Busy
  <1>5. QED
    BY <1>1, <1>2, <1>3, <1>4 DEF ForecastInv, OwnRun, FailureRecorded

\* What a step leaves behind, when one thread w has turned to something else.
LEMMA JobTurns ==
    ASSUME ForecastInv, NEW w \in Forecasters, NEW j \in Job,
           job' = [job EXCEPT ![w] = j]
    PROVE  /\ job' \in [Forecasters -> Job] /\ job'[w] = j
           /\ \A v \in Forecasters \ {w} : job'[v] = job[v]
  BY DEF ForecastInv

\* w's run ends.
LEMMA EndsRun ==
    ASSUME ForecastInv, NEW w \in Forecasters, Busy(w),
           NEW status \in {"completed", "failed"}, NEW points \in PointSets,
           End(w, status, points)
    PROVE  /\ runs' \in Seq(Run) /\ DOMAIN runs' = DOMAIN runs /\ job[w].run \in DOMAIN runs
           /\ runs'[job[w].run].status = status /\ runs'[job[w].run].points = points
           /\ runs'[job[w].run].type = runs[job[w].run].type
           /\ \A i \in DOMAIN runs : i # job[w].run => runs'[i] = runs[i]
  <1>1. job[w].run \in DOMAIN runs /\ runs \in Seq(Run)
    BY DEF ForecastInv, OwnRun
  <1> DEFINE r == job[w].run
             new == [runs[r] EXCEPT !.status = status, !.points = points]
  <1>2. runs' = [runs EXCEPT ![r] = new]
    BY DEF End
  <1>3. runs[r] \in Run
    BY <1>1
  <1>4. new \in Run /\ new.status = status /\ new.points = points /\ new.type = runs[r].type
    BY <1>3 DEF Run
  <1> HIDE DEF new
  <1>5. runs' \in Seq(Run) /\ DOMAIN runs' = DOMAIN runs /\ runs'[r] = new
    BY <1>1, <1>2, <1>4
  <1>6. QED
    BY <1>1, <1>2, <1>4, <1>5

LEMMA EndKeeps ==
    ASSUME ForecastInv, NEW w \in Forecasters, Busy(w),
           NEW status \in {"completed", "failed"}, NEW points \in PointSets,
           End(w, status, points), UNCHANGED <<readings, lost>>
    PROVE  ForecastInv'
  <1>1. /\ runs' \in Seq(Run) /\ DOMAIN runs' = DOMAIN runs /\ job[w].run \in DOMAIN runs
        /\ runs'[job[w].run].status = status
        /\ \A i \in DOMAIN runs : i # job[w].run => runs'[i] = runs[i]
    BY EndsRun
  <1>2. job' = [job EXCEPT ![w] = NoJob] /\ NoJob \in Job
    BY DEF End, Job
  <1>3. /\ job' \in [Forecasters -> Job] /\ job'[w] = NoJob
        /\ \A v \in Forecasters \ {w} : job'[v] = job[v]
    BY <1>2, JobTurns
  <1>4. OwnRun'
    <2>1. \A v \in Forecasters : Busy(v)' => v # w /\ Busy(v) /\ job'[v] = job[v] /\ job[v].run # job[w].run
      BY <1>3 DEF Busy, ForecastInv, OwnRun
    <2>2. \A v \in Forecasters : Busy(v)' => /\ job'[v].run \in DOMAIN runs'
                                               /\ runs'[job'[v].run].status \in {"uncommitted", "running"}
      BY <1>1, <2>1 DEF ForecastInv, OwnRun
    <2>3. \A u, v \in Forecasters : Busy(u)' /\ Busy(v)' /\ job'[u].run = job'[v].run => u = v
      BY <2>1 DEF ForecastInv, OwnRun
    <2>4. QED
      BY <2>2, <2>3 DEF OwnRun
  <1>5. FailureRecorded'
    <2>1. ASSUME NEW i \in DOMAIN runs', runs'[i].status = "running", i \notin lost'
          PROVE  \E v \in Forecasters : job'[v] # NoJob /\ job'[v].run = i
      <3>1. i # job[w].run /\ runs'[i] = runs[i]
        BY <1>1, <2>1
      <3>2. PICK v \in Forecasters : job[v] # NoJob /\ job[v].run = i
        BY <1>1, <2>1, <3>1 DEF ForecastInv, FailureRecorded
      <3>3. QED
        BY <1>3, <3>1, <3>2
    <2>2. QED
      BY <2>1 DEF FailureRecorded
  <1>6. QED
    BY <1>1, <1>3, <1>4, <1>5 DEF ForecastInv

\* w goes on with its run.
LEMMA GoesOn ==
    ASSUME ForecastInv, NEW w \in Forecasters, Busy(w), NEW j \in Job, j # NoJob,
           j.run = job[w].run, job' = [job EXCEPT ![w] = j], UNCHANGED <<readings, runs, lost>>
    PROVE  ForecastInv'
  <1>1. /\ job' \in [Forecasters -> Job] /\ job'[w] = j
        /\ \A v \in Forecasters \ {w} : job'[v] = job[v]
    BY JobTurns
  <1>2. \A v \in Forecasters : (Busy(v)' <=> Busy(v)) /\ (Busy(v) => job'[v].run = job[v].run)
    BY <1>1 DEF Busy
  <1>3. OwnRun'
    <2>1. \A v \in Forecasters : Busy(v)' => /\ job'[v].run \in DOMAIN runs'
                                               /\ runs'[job'[v].run].status \in {"uncommitted", "running"}
      BY <1>2 DEF ForecastInv, OwnRun
    <2>2. \A u, v \in Forecasters : Busy(u)' /\ Busy(v)' /\ job'[u].run = job'[v].run => u = v
      BY <1>2 DEF ForecastInv, OwnRun
    <2>3. QED
      BY <2>1, <2>2 DEF OwnRun
  <1>4. FailureRecorded'
    BY <1>2 DEF ForecastInv, FailureRecorded, Busy
  <1>5. QED
    BY <1>1, <1>3, <1>4 DEF ForecastInv

\* w is gone, and its run is known to be lost.
LEMMA GoneKeeps ==
    ASSUME ForecastInv, NEW w \in Forecasters, Busy(w), job' = [job EXCEPT ![w] = NoJob],
           lost' = lost \cup {job[w].run}, UNCHANGED <<readings, runs>>
    PROVE  ForecastInv'
  <1>1. NoJob \in Job
    BY DEF Job
  <1>2. /\ job' \in [Forecasters -> Job] /\ job'[w] = NoJob
        /\ \A v \in Forecasters \ {w} : job'[v] = job[v]
    BY <1>1, JobTurns
  <1>3. OwnRun'
    <2>1. \A v \in Forecasters : Busy(v)' => Busy(v) /\ job'[v] = job[v]
      BY <1>2 DEF Busy
    <2>2. \A v \in Forecasters : Busy(v)' => /\ job'[v].run \in DOMAIN runs'
                                               /\ runs'[job'[v].run].status \in {"uncommitted", "running"}
      BY <2>1 DEF ForecastInv, OwnRun
    <2>3. \A u, v \in Forecasters : Busy(u)' /\ Busy(v)' /\ job'[u].run = job'[v].run => u = v
      BY <2>1 DEF ForecastInv, OwnRun
    <2>4. QED
      BY <2>2, <2>3 DEF OwnRun
  <1>4. FailureRecorded'
    <2>1. ASSUME NEW i \in DOMAIN runs', runs'[i].status = "running", i \notin lost'
          PROVE  \E v \in Forecasters : job'[v] # NoJob /\ job'[v].run = i
      <3>1. PICK v \in Forecasters : job[v] # NoJob /\ job[v].run = i
        BY <2>1 DEF ForecastInv, FailureRecorded
      <3>2. QED
        BY <1>2, <2>1, <3>1
    <2>2. QED
      BY <2>1 DEF FailureRecorded
  <1>5. QED
    BY <1>2, <1>3, <1>4 DEF ForecastInv

LEMMA SumTyped ==
    ASSUME NEW taken \in SUBSET Observations, IsFiniteSet(taken),
           NEW channel \in {"generation", "load"}
    PROVE  Sum(taken, channel) \in Nat \cup {Absent}
  <1> DEFINE measured == {r \in taken : r[channel] # Absent}
             f == [r \in measured |-> r[channel]]
  <1>1. IsFiniteSet(measured)
    BY FS_Subset
  <1>2. \A r \in measured : f[r] \in Nat
    BY ForecastsAssumption
  <1>3. Sum(taken, channel) = IF measured = {} THEN Absent ELSE SumFunction(f)
    BY DEF Sum
  <1>4. DOMAIN f = measured
    OBVIOUS
  <1> HIDE DEF measured, f
  <1>5. SumFunction(f) \in Nat
    BY <1>1, <1>2, <1>4, SumIsOnDomain, SumNat
  <1>6. QED
    BY <1>3, <1>5

LEMMA HistoryTyped ==
    ASSUME ForecastInv, NEW start \in Slots
    PROVE  History(start) \in Histories
  <1> DEFINE taken == InWindow(start)
             At(s) == {r \in taken : r.start = s}
             entry == [s \in Slots |->
                          [start |-> s, solar |-> Sum(At(s), "generation"),
                           load |-> Sum(At(s), "load")]]
             starts == {r.start : r \in taken}
  <1>1. taken \in SUBSET Observations /\ IsFiniteSet(taken)
    <2>1. taken \in SUBSET readings /\ IsFiniteSet(readings) /\ readings \in SUBSET Observations
      BY DEF ForecastInv, InWindow
    <2> HIDE DEF taken
    <2>2. QED
      BY <2>1, FS_Subset
  <1>2. starts \in SUBSET Slots /\ IsFiniteSet(starts)
    <2> DEFINE f == [r \in taken |-> r.start]
    <2> HIDE DEF taken
    <2>1. IsFiniteSet({f[r] : r \in taken})
      <3> HIDE DEF f
      <3>1. QED
        BY <1>1, ImageFinite
    <2>2. starts = {f[r] : r \in taken}
      OBVIOUS
    <2>3. starts \in SUBSET Slots
      BY <1>1, ForecastsAssumption
    <2>4. QED
      BY <2>1, <2>2, <2>3
  <1>3. History(start) = {entry[s] : s \in starts}
    <2> DEFINE Entry(s) == [start |-> s, solar |-> Sum(At(s), "generation"),
                            load |-> Sum(At(s), "load")]
    <2>1. \A s \in starts : entry[s] = Entry(s)
      BY <1>2
    <2>2. History(start) = {Entry(s) : s \in starts}
      BY DEF History
    <2> HIDE DEF Entry, starts, entry
    <2>3. QED
      BY <2>1, <2>2
  <1>4. \A s \in Slots : entry[s] \in Observed
    <2> SUFFICES ASSUME NEW s \in Slots
                 PROVE  entry[s] \in Observed
      OBVIOUS
    <2>1. At(s) \in SUBSET Observations /\ IsFiniteSet(At(s))
      <3> HIDE DEF taken
      <3>1. QED
        BY <1>1, FS_Subset
    <2> HIDE DEF taken, At
    <2>2. Sum(At(s), "generation") \in Nat \cup {Absent} /\ Sum(At(s), "load") \in Nat \cup {Absent}
      BY <2>1, SumTyped
    <2>3. QED
      BY <2>2 DEF Observed
  <1> HIDE DEF entry, starts, taken
  <1>5. IsFiniteSet({entry[s] : s \in starts})
    BY <1>2, ImageFinite
  <1>6. QED
    BY <1>2, <1>3, <1>4, <1>5 DEF Histories

LEMMA MeanNat ==
    ASSUME NEW sum \in Nat, NEW n \in Nat \ {0}
    PROVE  Mean(sum, n) \in Nat
  <1>1. sum \div n \in Nat
    BY DivMod
  <1>2. QED
    BY <1>1 DEF Mean

\* The baseline's buckets lie in the horizon.
LEMMA BucketsLie ==
    ASSUME NEW ask \in Asks
    PROVE  \E n \in Nat :
             /\ n >= 1 /\ DOMAIN Buckets(ask) = 1 .. n
             /\ \A k \in 1 .. n :
                  LET b == Buckets(ask)[k]
                  IN  /\ b.start \in Int /\ b.end \in Int
                      /\ ask.start <= b.start /\ b.end <= ask.end
  <1>1. /\ ask.start \in Nat /\ ask.end \in Nat /\ ask.interval \in Nat \ {0}
        /\ ask.start < ask.end
    BY ForecastsAssumption DEF Asks, Slots
  <1> DEFINE x == ask.end - ask.start + ask.interval - 1
             n == x \div ask.interval
  <1>2. x \in Nat /\ x >= ask.interval
    BY <1>1
  <1> HIDE DEF x
  <1>3. x = ask.interval * n + (x % ask.interval) /\ n \in Nat /\ x % ask.interval \in 0 .. ask.interval - 1
    BY <1>1, <1>2, DivMod
  <1>4. n >= 1
    <2> HIDE DEF n
    <2>1. n = 0 => ask.interval * n = 0
      BY <1>1
    <2>2. QED
      BY <1>1, <1>2, <1>3, <2>1
  <1> DEFINE s == [k \in 1 .. n |-> ask.start + (k - 1) * ask.interval]
             e == [k \in 1 .. n |-> Min({s[k] + ask.interval, ask.end})]
  <1>5. Buckets(ask) = [k \in 1 .. n |-> [start |-> s[k], end |-> e[k]]]
    BY DEF Buckets, x
  <1>6. \A k \in 1 .. n : s[k] \in Int /\ ask.start <= s[k]
    <2> SUFFICES ASSUME NEW k \in 1 .. n
                 PROVE  s[k] \in Int /\ ask.start <= s[k]
      OBVIOUS
    <2> HIDE DEF n
    <2>1. k - 1 \in Nat
      BY <1>3
    <2>2. (k - 1) * ask.interval \in Nat
      BY <1>1, <2>1
    <2>3. QED
      BY <1>1, <2>2
  <1>7. \A k \in 1 .. n : e[k] \in Int /\ e[k] <= ask.end
    <2> SUFFICES ASSUME NEW k \in 1 .. n
                 PROVE  e[k] \in Int /\ e[k] <= ask.end
      OBVIOUS
    <2> DEFINE a == s[k] + ask.interval
    <2>1. a \in Int
      BY <1>1, <1>6
    <2>2. e[k] = Min({a, ask.end})
      OBVIOUS
    <2> HIDE DEF a, e, s, n
    <2>3. \E m \in {a, ask.end} : \A y \in {a, ask.end} : m <= y
      BY <1>1, <2>1
    <2>4. e[k] \in {a, ask.end} /\ \A y \in {a, ask.end} : e[k] <= y
      BY <2>2, <2>3 DEF Min
    <2>5. QED
      BY <1>1, <2>1, <2>4
  <1> HIDE DEF n, s, e
  <1>8. DOMAIN Buckets(ask) = 1 .. n
    BY <1>5
  <1>9. ASSUME NEW k \in 1 .. n
        PROVE  LET b == Buckets(ask)[k]
               IN  /\ b.start \in Int /\ b.end \in Int
                   /\ ask.start <= b.start /\ b.end <= ask.end
    <2>1. Buckets(ask)[k] = [start |-> s[k], end |-> e[k]]
      BY <1>5
    <2>2. QED
      BY <1>6, <1>7, <2>1
  <1>10. QED
    BY <1>3, <1>4, <1>8, <1>9

\* A point within the horizon, if it lies in it at all.
Within(ask) == {p \in PointRecord : p.start < p.end /\ ask.start <= p.start /\ p.start < ask.end
                                       => p.end <= ask.end}

LEMMA PredictTyped ==
    ASSUME NEW ask \in Asks, NEW history \in Histories
    PROVE  LET answer == Predict(ask, history)
           IN  /\ answer \in [type : Types, points : Seq(Within(ask))]
               /\ answer.points # <<>>
  <1>1. PICK n \in Nat :
           /\ n >= 1 /\ DOMAIN Buckets(ask) = 1 .. n
           /\ \A k \in 1 .. n :
                LET b == Buckets(ask)[k]
                IN  /\ b.start \in Int /\ b.end \in Int
                    /\ ask.start <= b.start /\ b.end <= ask.end
    BY BucketsLie
  <1> DEFINE point == [k \in 1 .. n |-> Point(Buckets(ask)[k], ask.type, history)]
  <1>2. ask.type \in {"solar", "load"}
    BY ForecastsAssumption DEF Asks, Types
  <1>3. ASSUME NEW k \in 1 .. n
        PROVE  point[k] \in Within(ask)
    <2> DEFINE b == Buckets(ask)[k]
               samples == {o \in history : o[ask.type] # Absent /\ o.start % Day = b.start % Day}
               f == [o \in samples |-> o[ask.type]]
               kw == IF samples = {} THEN 0 ELSE Mean(SumFunction(f), Cardinality(samples))
    <2>1. point[k] = [start |-> b.start, end |-> b.end, storable |-> TRUE, kw |-> kw,
                      confidence |-> IF samples = {} THEN "none" ELSE "some"]
      BY DEF Point
    <2>2. IsFiniteSet(samples) /\ \A o \in samples : f[o] \in Nat
      <3>1. history \in SUBSET Observed /\ IsFiniteSet(history)
        BY DEF Histories
      <3>2. \A o \in history : o[ask.type] \in Nat \cup {Absent}
        BY <1>2, <3>1 DEF Observed
      <3>3. IsFiniteSet(samples)
        BY <3>1, FS_Subset
      <3>4. QED
        BY <3>2, <3>3
    <2>3. DOMAIN f = samples
      OBVIOUS
    <2>4. b.start \in Int /\ b.end \in Int /\ ask.start <= b.start /\ b.end <= ask.end
      BY <1>1
    <2> HIDE DEF samples, f, b, point
    <2>5. SumFunction(f) \in Nat
      BY <2>2, <2>3, SumIsOnDomain, SumNat
    <2>6. samples # {} => Cardinality(samples) \in Nat \ {0}
      BY <2>2, FS_CardinalityType, FS_EmptySet
    <2>7. kw \in Nat
      BY <2>5, <2>6, MeanNat
    <2> HIDE DEF kw
    <2>8. point[k] \in PointRecord /\ point[k].end <= ask.end
      BY <2>1, <2>4, <2>7 DEF PointRecord, Powers, Confidences
    <2>9. QED
      BY <2>8 DEF Within
  <1>4. Predict(ask, history) = [type |-> ask.type, points |-> point]
    BY <1>1 DEF Predict
  <1> HIDE DEF point
  <1>5. point \in Seq(Within(ask)) /\ point # <<>>
    <2>1. point = [k \in 1 .. n |-> point[k]]
      BY DEF point
    <2>2. point \in [1 .. n -> Within(ask)]
      BY <1>3, <2>1
    <2>3. Len(point) = n
      BY <1>1, <2>2
    <2>4. QED
      BY <1>1, <2>2, <2>3
  <1>6. QED
    BY <1>2, <1>4, <1>5 DEF Types

\* What a provider answers wrongly is an answer all the same.
LEMMA DistortedTyped ==
    ASSUME NEW ask \in Asks, NEW fault \in Faults,
           NEW answer \in [type : Types, points : Seq(Within(ask))],
           answer.points # <<>>
    PROVE  Distorted(ask, answer, fault).points \in Seq(Within(ask))
  <1> DEFINE points == answer.points
             head == points[1]
             given == Distorted(ask, answer, fault)
  <1>1. points \in Seq(Within(ask)) /\ points # <<>> /\ 1 \in DOMAIN points /\ head \in Within(ask)
    OBVIOUS
  <1>2. head \in PointRecord /\ ask.end \in Int
    BY <1>1, ForecastsAssumption DEF Within, Asks, Slots
  <1>3. fault \in {"raises", "othertype", "short", "twice", "backward", "outside",
                   "overconfident", "crossed", "huge", "negative", "unknown"}
    BY ForecastsAssumption
  <1>4. CASE fault = "raises"
    <2>1. given = [answer EXCEPT !.points = <<>>]
      BY <1>4 DEF Distorted
    <2>2. QED
      BY <2>1
  <1>5. CASE fault = "othertype"
    <2>1. given = [answer EXCEPT !.type = CHOOSE t \in Types : t # ask.type]
      BY <1>5 DEF Distorted
    <2>2. QED
      BY <1>1, <2>1
  <1>6. CASE fault = "short"
    <2>1. given = [answer EXCEPT !.points = Tail(points)]
      BY <1>6 DEF Distorted
    <2>2. QED
      BY <1>1, <2>1
  <1>7. CASE fault = "twice"
    <2>1. given = [answer EXCEPT !.points = Append(points, Head(points))]
      BY <1>7 DEF Distorted
    <2>2. Head(points) = head
      BY <1>1
    <2> HIDE DEF given, points, head
    <2>3. Append(points, head) \in Seq(Within(ask))
      BY <1>1
    <2>4. QED
      BY <2>1, <2>2, <2>3 DEF given
  <1>8. ASSUME NEW new \in Within(ask), given.points = [points EXCEPT ![1] = new]
        PROVE  given.points \in Seq(Within(ask))
    <2> HIDE DEF given, points
    <2>1. QED
      BY <1>1, <1>8
  <1>9. CASE fault = "backward"
    <2> DEFINE new == [head EXCEPT !.end = head.start]
    <2>1. given = [answer EXCEPT !.points[1].end = answer.points[1].start]
      BY <1>9 DEF Distorted
    <2>2. given.points = [points EXCEPT ![1] = new]
      BY <2>1
    <2>3. new \in PointRecord /\ new.end = head.start /\ new.start = head.start
      BY <1>2 DEF PointRecord
    <2>4. new \in Within(ask)
      <3> HIDE DEF new, head
      <3>1. head.start \in Int
        BY <1>2 DEF PointRecord
      <3>2. QED
        BY <2>3, <3>1 DEF Within
    <2> HIDE DEF new, given
    <2>5. QED
      BY <1>8, <2>2, <2>4 DEF given
  <1>10. CASE fault = "outside"
    <2> DEFINE new == [head EXCEPT !.start = ask.end, !.end = ask.end + 1]
    <2>1. given = [answer EXCEPT !.points[1].start = ask.end, !.points[1].end = ask.end + 1]
      BY <1>10 DEF Distorted
    <2>2. given.points = [points EXCEPT ![1] = new]
      BY <2>1
    <2>3. new \in PointRecord /\ new.start = ask.end
      <3> DEFINE moved == [head EXCEPT !.start = ask.end]
      <3>1. moved \in PointRecord /\ moved.start = ask.end
        BY <1>2 DEF PointRecord
      <3>2. new = [moved EXCEPT !.end = ask.end + 1]
        BY <1>2 DEF PointRecord
      <3>3. ask.end + 1 \in Int
        BY <1>2
      <3> HIDE DEF moved, new
      <3>4. QED
        BY <3>1, <3>2, <3>3 DEF PointRecord
    <2>4. new \in Within(ask)
      <3> HIDE DEF new, head
      <3>1. QED
        BY <1>2, <2>3 DEF Within
    <2> HIDE DEF new, given
    <2>5. QED
      BY <1>8, <2>2, <2>4 DEF given
  <1>11. CASE fault = "overconfident"
    <2> DEFINE new == [head EXCEPT !.confidence = "beyond"]
    <2>1. given = [answer EXCEPT !.points[1].confidence = "beyond"]
      BY <1>11 DEF Distorted
    <2>2. given.points = [points EXCEPT ![1] = new]
      BY <2>1
    <2>3. new \in PointRecord /\ new.start = head.start /\ new.end = head.end
      BY <1>2 DEF PointRecord, Confidences
    <2>4. new \in Within(ask)
      <3> HIDE DEF new, head
      <3>1. QED
        BY <1>1, <2>3 DEF Within
    <2> HIDE DEF new, given
    <2>5. QED
      BY <1>8, <2>2, <2>4 DEF given
  <1>12. CASE fault \in {"crossed", "huge"}
    <2> DEFINE new == [head EXCEPT !.storable = FALSE]
    <2>1. given = [answer EXCEPT !.points[1].storable = FALSE]
      BY <1>12 DEF Distorted
    <2>2. given.points = [points EXCEPT ![1] = new]
      BY <2>1
    <2>3. new \in PointRecord /\ new.start = head.start /\ new.end = head.end
      BY <1>2 DEF PointRecord, Powers
    <2>4. new \in Within(ask)
      <3> HIDE DEF new, head
      <3>1. QED
        BY <1>1, <2>3 DEF Within
    <2> HIDE DEF new, given
    <2>5. QED
      BY <1>8, <2>2, <2>4 DEF given
  <1>13. CASE fault = "negative"
    <2> DEFINE new == [head EXCEPT !.kw = -1]
    <2>1. given = [answer EXCEPT !.points[1].kw = -1]
      BY <1>13 DEF Distorted
    <2>2. given.points = [points EXCEPT ![1] = new]
      BY <2>1
    <2>3. new \in PointRecord /\ new.start = head.start /\ new.end = head.end
      BY <1>2 DEF PointRecord, Powers
    <2>4. new \in Within(ask)
      <3> HIDE DEF new, head
      <3>1. QED
        BY <1>1, <2>3 DEF Within
    <2> HIDE DEF new, given
    <2>5. QED
      BY <1>8, <2>2, <2>4 DEF given
  <1>14. CASE fault = "unknown"
    <2> DEFINE new == [head EXCEPT !.kw = Absent]
    <2>1. given = [answer EXCEPT !.points[1].kw = Absent]
      BY <1>14 DEF Distorted
    <2>2. given.points = [points EXCEPT ![1] = new]
      BY <2>1
    <2>3. new \in PointRecord /\ new.start = head.start /\ new.end = head.end
      BY <1>2 DEF PointRecord, Powers
    <2>4. new \in Within(ask)
      <3> HIDE DEF new, head
      <3>1. QED
        BY <1>1, <2>3 DEF Within
    <2> HIDE DEF new, given
    <2>5. QED
      BY <1>8, <2>2, <2>4 DEF given
  <1>15. QED
    BY <1>3, <1>4, <1>5, <1>6, <1>7, <1>9, <1>10, <1>11, <1>12, <1>13, <1>14

\* What is stored of an answer.
PointsOf(answer) == {answer.points[k] : k \in DOMAIN answer.points}

LEMMA ValidFits ==
    ASSUME NEW ask \in Asks, NEW answer,
           answer.points \in Seq(Within(ask)), ValidResult(ask, answer)
    PROVE  PointsOf(answer) \in PointSets
  <1>0. IsFiniteSet(PointsOf(answer))
    <2>1. Len(answer.points) \in Nat /\ DOMAIN answer.points = 1 .. Len(answer.points)
      OBVIOUS
    <2>2. IsFiniteSet(DOMAIN answer.points)
      <3>1. IsFiniteSet(1 .. Len(answer.points))
        BY <2>1, FS_Interval
      <3>2. QED
        BY <2>1, <3>1
    <2> DEFINE points == answer.points
               D == DOMAIN points
    <2>3. PointsOf(answer) = {points[k] : k \in D}
      BY DEF PointsOf
    <2> HIDE DEF points
    <2>4. IsFiniteSet(D)
      BY <2>2 DEF points
    <2> HIDE DEF D
    <2>5. IsFiniteSet({points[k] : k \in D})
      BY <2>4, ImageFinite
    <2>6. QED
      BY <2>3, <2>5
  <1> SUFFICES ASSUME NEW p \in PointsOf(answer)
               PROVE  p \in RunPoint
    BY <1>0 DEF PointSets
  <1>1. p \in Within(ask)
    BY DEF PointsOf
  <1>2. p.start < p.end /\ ask.start <= p.start /\ p.start < ask.end
    BY DEF ValidResult, PointsOf
  <1>3. p \in PointRecord /\ p.end <= ask.end
    BY <1>1, <1>2 DEF Within
  <1>4. ask.start \in Slots /\ ask.end \in Slots /\ LastSlot \in Nat
    BY ForecastsAssumption DEF Asks
  <1>5. p.start \in Int /\ p.end \in Int
    BY <1>3 DEF PointRecord
  <1>6. p.start \in Slots /\ p.end \in Slots
    BY <1>2, <1>3, <1>4, <1>5 DEF Slots
  <1>7. QED
    BY <1>2, <1>3, <1>6 DEF RunPoint

LEMMA TakeKeeps ==
    ASSUME ForecastInv, NEW w \in Forecasters, NEW answer,
           job[w] \in Asked, answer.points \in Seq(Within(job[w].ask)), Take(w, answer)
    PROVE  ForecastInv'
  <1>1. job[w].ask \in Asks /\ job[w].run \in Nat /\ Busy(w)
    BY DEF Asked, Busy, NoJob
  <1>2. UNCHANGED <<readings, lost>>
    BY DEF Take
  <1>3. CASE ValidResult(job[w].ask, answer)
    <2> DEFINE j == [at |-> "answered", run |-> job[w].run, points |-> PointsOf(answer)]
    <2>1. job' = [job EXCEPT ![w] = j] /\ UNCHANGED runs
      BY <1>3 DEF Take, PointsOf
    <2>2. j \in Answered /\ j.run = job[w].run /\ j # NoJob
      BY <1>1, <1>3, ValidFits DEF Answered, NoJob
    <2> HIDE DEF j
    <2>3. QED
      BY <1>1, <1>2, <2>1, <2>2, GoesOn DEF Job
  <1>4. CASE ~ValidResult(job[w].ask, answer)
    <2>1. End(w, "failed", {})
      BY <1>4 DEF Take
    <2>2. {} \in PointSets /\ "failed" \in {"completed", "failed"}
      BY FS_EmptySet DEF PointSets
    <2>3. QED
      BY <1>1, <1>2, <2>1, <2>2, EndKeeps
  <1>5. QED
    BY <1>3, <1>4

LEMMA RunForecastKeeps ==
    ASSUME ForecastInv, NEW w \in Forecasters, NEW ask \in Requests,
           RunForecast(w, ask)
    PROVE  ForecastInv'
  <1> DEFINE new == [type |-> ask.type, start |-> ask.start, end |-> ask.end,
                     status |-> "uncommitted", points |-> {}]
             n == Len(runs) + 1
             j == [at |-> "stamped", run |-> n, ask |-> ask]
  <1>1. /\ runs' = Append(runs, new) /\ job' = [job EXCEPT ![w] = j] /\ ~Busy(w)
        /\ UNCHANGED <<readings, lost>> /\ ask \in Asks
    BY DEF RunForecast, Busy, Asks
  <1>2. new \in Run /\ new.status = "uncommitted"
    BY FS_EmptySet, ForecastsAssumption DEF Run, PointSets
  <1>3. runs \in Seq(Run) /\ n \in Nat
    BY DEF ForecastInv
  <1>4. j \in Stamped /\ j.run = n /\ j # NoJob
    BY <1>1, <1>3 DEF Stamped, NoJob
  <1> HIDE DEF new, j
  <1>5. /\ runs' \in Seq(Run) /\ DOMAIN runs' = DOMAIN runs \cup {n} /\ n \notin DOMAIN runs
        /\ runs'[n] = new /\ \A i \in DOMAIN runs : runs'[i] = runs[i]
    BY <1>1, <1>2, <1>3
  <1>6. j \in Job
    BY <1>4 DEF Job
  <1>7. /\ job' \in [Forecasters -> Job] /\ job'[w] = j
        /\ \A v \in Forecasters \ {w} : job'[v] = job[v]
    BY <1>1, <1>6, JobTurns
  <1> HIDE DEF n
  <1>8. OwnRun'
    <2>1. \A v \in Forecasters \ {w} : Busy(v)' => /\ Busy(v) /\ job'[v].run = job[v].run
                                               /\ job[v].run \in DOMAIN runs /\ job[v].run # n
      BY <1>5, <1>7 DEF Busy, ForecastInv, OwnRun
    <2>2. \A v \in Forecasters : Busy(v)' => /\ job'[v].run \in DOMAIN runs'
                                               /\ runs'[job'[v].run].status \in {"uncommitted", "running"}
      BY <1>2, <1>4, <1>5, <1>7, <2>1 DEF ForecastInv, OwnRun
    <2>3. \A u, v \in Forecasters : Busy(u)' /\ Busy(v)' /\ job'[u].run = job'[v].run => u = v
      BY <1>4, <1>7, <2>1 DEF ForecastInv, OwnRun
    <2>4. QED
      BY <2>2, <2>3 DEF OwnRun
  <1>9. FailureRecorded'
    <2>1. ASSUME NEW i \in DOMAIN runs', runs'[i].status = "running", i \notin lost'
          PROVE  \E v \in Forecasters : job'[v] # NoJob /\ job'[v].run = i
      <3>1. i # n
        BY <1>2, <1>5, <2>1
      <3>2. PICK v \in Forecasters : job[v] # NoJob /\ job[v].run = i
        BY <1>1, <1>5, <2>1, <3>1 DEF ForecastInv, FailureRecorded
      <3>3. QED
        BY <1>1, <1>7, <3>2 DEF Busy
    <2>2. QED
      BY <2>1 DEF FailureRecorded
  <1>10. QED
    BY <1>1, <1>5, <1>7, <1>8, <1>9 DEF ForecastInv

LEMMA CommitRunKeeps ==
    ASSUME ForecastInv, NEW w \in Forecasters, CommitRun(w)
    PROVE  ForecastInv'
  <1> DEFINE r == job[w].run
             new == [runs[r] EXCEPT !.status = "running"]
             j == [job[w] EXCEPT !.at = "begun"]
  <1>1. /\ runs' = [runs EXCEPT ![r] = new] /\ job' = [job EXCEPT ![w] = j]
        /\ UNCHANGED <<readings, lost>> /\ job[w].at = "stamped"
    BY DEF CommitRun
  <1>2. job[w] \in Stamped /\ Busy(w)
    BY <1>1, BusyJob
  <1>3. j \in Begun /\ j.run = r /\ j # NoJob
    BY <1>2 DEF Stamped, Begun, NoJob
  <1>4. runs \in Seq(Run) /\ r \in DOMAIN runs /\ runs[r] \in Run
    BY <1>2 DEF ForecastInv, OwnRun
  <1>5. new \in Run /\ new.status = "running"
    BY <1>4 DEF Run
  <1> HIDE DEF new, j
  <1>6. /\ runs' \in Seq(Run) /\ DOMAIN runs' = DOMAIN runs /\ runs'[r] = new
        /\ \A i \in DOMAIN runs : i # r => runs'[i] = runs[i]
    BY <1>1, <1>4, <1>5
  <1>7. j \in Job
    BY <1>3 DEF Job
  <1>8. /\ job' \in [Forecasters -> Job] /\ job'[w] = j
        /\ \A v \in Forecasters \ {w} : job'[v] = job[v]
    BY <1>1, <1>7, JobTurns
  <1>9. \A v \in Forecasters : (Busy(v)' <=> Busy(v)) /\ (Busy(v) => job'[v].run = job[v].run)
    BY <1>2, <1>3, <1>8 DEF Busy
  <1>10. OwnRun'
    <2>1. \A v \in Forecasters : Busy(v)' =>
              /\ job'[v].run \in DOMAIN runs'
              /\ runs'[job'[v].run].status \in {"uncommitted", "running"}
      BY <1>5, <1>6, <1>9 DEF ForecastInv, OwnRun
    <2>2. \A u, v \in Forecasters : Busy(u)' /\ Busy(v)' /\ job'[u].run = job'[v].run => u = v
      BY <1>9 DEF ForecastInv, OwnRun
    <2>3. QED
      BY <2>1, <2>2 DEF OwnRun
  <1>11. FailureRecorded'
    <2>1. ASSUME NEW i \in DOMAIN runs', runs'[i].status = "running", i \notin lost'
          PROVE  \E v \in Forecasters : job'[v] # NoJob /\ job'[v].run = i
      <3>1. CASE i = r
        BY <1>3, <1>8, <3>1
      <3>2. CASE i # r
        <4>1. PICK v \in Forecasters : job[v] # NoJob /\ job[v].run = i
          BY <1>1, <1>6, <2>1, <3>2 DEF ForecastInv, FailureRecorded
        <4>2. QED
          BY <1>9, <4>1 DEF Busy
      <3>3. QED
        BY <3>1, <3>2
    <2>2. QED
      BY <2>1 DEF FailureRecorded
  <1>12. QED
    BY <1>1, <1>6, <1>8, <1>10, <1>11 DEF ForecastInv

LEMMA GatherHistoryKeeps ==
    ASSUME ForecastInv, NEW w \in Forecasters, GatherHistory(w)
    PROVE  ForecastInv'
  <1> DEFINE h == History(job[w].ask.start)
             j == [at |-> "asked", run |-> job[w].run, ask |-> job[w].ask, history |-> h]
  <1>1. job' = [job EXCEPT ![w] = j] /\ UNCHANGED <<readings, runs, lost>> /\ job[w].at = "begun"
    BY DEF GatherHistory
  <1>2. job[w] \in Begun /\ Busy(w)
    BY <1>1, BusyJob
  <1>3. job[w].run \in Nat /\ job[w].ask \in Asks /\ job[w].ask.start \in Slots
    BY <1>2, ForecastsAssumption DEF Begun, Asks
  <1>4. h \in Histories
    BY <1>3, HistoryTyped
  <1> HIDE DEF h
  <1>5. j \in Asked /\ j.run = job[w].run /\ j # NoJob
    BY <1>3, <1>4 DEF Asked, NoJob
  <1> HIDE DEF j
  <1>6. QED
    BY <1>1, <1>2, <1>5, GoesOn DEF Job

LEMMA AnswerKeeps ==
    ASSUME ForecastInv, NEW w \in Forecasters,
           Answer(w) \/ \E fault \in Faults : OtherAnswer(w, fault)
    PROVE  ForecastInv'
  <1> DEFINE answer == Predict(job[w].ask, job[w].history)
  <1>1. job[w].at = "asked"
    BY DEF Answer, OtherAnswer
  <1>2. job[w] \in Asked
    BY <1>1, BusyJob
  <1>3. job[w].ask \in Asks /\ job[w].history \in Histories
    BY <1>2 DEF Asked
  <1>4. answer \in [type : Types, points : Seq(Within(job[w].ask))] /\ answer.points # <<>>
    BY <1>3, PredictTyped
  <1>5. CASE Answer(w)
    <2>1. Take(w, answer)
      BY <1>5 DEF Answer
    <2> HIDE DEF answer
    <2>2. QED
      BY <1>2, <1>4, <2>1, TakeKeeps
  <1>6. CASE \E fault \in Faults : OtherAnswer(w, fault)
    <2>1. PICK fault \in Faults : OtherAnswer(w, fault)
      BY <1>6
    <2>2. Take(w, Distorted(job[w].ask, answer, fault))
      BY <2>1 DEF OtherAnswer
    <2> HIDE DEF answer
    <2>3. Distorted(job[w].ask, answer, fault).points \in Seq(Within(job[w].ask))
      BY <1>3, <1>4, DistortedTyped
    <2>4. QED
      BY <1>2, <2>2, <2>3, TakeKeeps
  <1>7. QED
    BY <1>5, <1>6

LEMMA StoreKeeps ==
    ASSUME ForecastInv, NEW w \in Forecasters, StorePoints(w)
    PROVE  ForecastInv'
  <1>1. job[w].at = "answered" /\ UNCHANGED readings
    BY DEF StorePoints
  <1>2. job[w] \in Answered /\ Busy(w)
    BY <1>1, BusyJob
  <1>3. job[w].points \in PointSets
    BY <1>2 DEF Answered
  <1>4. CASE \A p \in job[w].points : p.storable
    <2>1. End(w, "completed", job[w].points) /\ UNCHANGED lost
      BY <1>4 DEF StorePoints
    <2>2. "completed" \in {"completed", "failed"}
      OBVIOUS
    <2>3. QED
      BY <1>1, <1>2, <1>3, <2>1, <2>2, EndKeeps
  <1>5. CASE ~\A p \in job[w].points : p.storable
    <2>1. /\ job' = [job EXCEPT ![w] = NoJob]
          /\ lost' = lost \cup {job[w].run} /\ UNCHANGED <<readings, runs>>
      BY <1>5 DEF StorePoints
    <2>2. QED
      BY <1>2, <2>1, GoneKeeps
  <1>6. QED
    BY <1>4, <1>5

LEMMA MeasureKeeps ==
    ASSUME ForecastInv, NEW row \in Observations, Measure(row)
    PROVE  ForecastInv'
  <1>1. readings' = readings \cup {row} /\ UNCHANGED <<runs, job, lost>>
    BY DEF Measure
  <1>2. readings' \in SUBSET Observations /\ IsFiniteSet(readings')
    BY <1>1, FS_AddElement DEF ForecastInv
  <1>3. OwnRun' /\ FailureRecorded'
    BY <1>1 DEF ForecastInv, OwnRun, Busy, FailureRecorded
  <1>4. QED
    BY <1>1, <1>2, <1>3 DEF ForecastInv

LEMMA ForecastStep ==
    ASSUME ForecastInv, [ForecastNext]_forecastVars
    PROVE  ForecastInv'
  <1>1. CASE UNCHANGED forecastVars
    BY <1>1 DEF forecastVars, ForecastInv, OwnRun, Busy, FailureRecorded
  <1>2. ASSUME NEW w \in Forecasters, NEW ask \in Requests, RunForecast(w, ask)
        PROVE  ForecastInv'
    BY <1>2, RunForecastKeeps
  <1>3. ASSUME NEW w \in Forecasters, Crash(w)
        PROVE  ForecastInv'
    <2>1. /\ Busy(w) /\ job' = [job EXCEPT ![w] = NoJob]
          /\ lost' = lost \cup {job[w].run} /\ UNCHANGED <<readings, runs>>
      BY <1>3 DEF Crash, Busy
    <2>2. QED
      BY <2>1, GoneKeeps
  <1>4. QED
    BY <1>1, <1>2, <1>3, CommitRunKeeps, GatherHistoryKeeps, AnswerKeeps, StoreKeeps, MeasureKeeps
       DEF ForecastNext

\* A run that is still "running" has a thread at work on it, or is known to be lost.
\* (run_forecast, _mark_failed.)
THEOREM FailuresAreRecorded == ForecastSpec => []FailureRecorded
  <1>1. ForecastInv /\ [ForecastNext]_forecastVars => ForecastInv'
    BY ForecastStep
  <1>2. ForecastInv => FailureRecorded
    BY DEF ForecastInv
  <1>3. QED
    BY <1>1, <1>2, ForecastStarts, PTL DEF ForecastSpec

\* A completed run is never touched again.
LEMMA CompletedStays ==
    ASSUME ForecastInv, [ForecastNext]_forecastVars
    PROVE  \A i \in DOMAIN runs : /\ i \in DOMAIN runs'
                                  /\ runs[i].status = "completed" => runs'[i] = runs[i]
  <1>1. CASE UNCHANGED runs
    BY <1>1
  <1>2. ASSUME NEW w \in Forecasters, NEW ask \in Requests, RunForecast(w, ask)
        PROVE  \A i \in DOMAIN runs : i \in DOMAIN runs' /\ runs'[i] = runs[i]
    <2>1. runs' = Append(runs, [type |-> ask.type, start |-> ask.start, end |-> ask.end,
                                status |-> "uncommitted", points |-> {}])
      BY <1>2 DEF RunForecast
    <2>2. runs \in Seq(Run)
      BY DEF ForecastInv
    <2>3. QED
      BY <2>1, <2>2
  <1>3. ASSUME NEW w \in Forecasters, NEW status, NEW points, Busy(w), End(w, status, points)
        PROVE  \A i \in DOMAIN runs : /\ i \in DOMAIN runs'
                                      /\ runs[i].status = "completed" => runs'[i] = runs[i]
    <2> DEFINE r == job[w].run
               new == [runs[r] EXCEPT !.status = status, !.points = points]
    <2>1. runs' = [runs EXCEPT ![r] = new] /\ runs[r].status # "completed"
      BY <1>3 DEF End, ForecastInv, OwnRun
    <2> HIDE DEF new
    <2>2. QED
      BY <2>1
  <1>4. ASSUME NEW w \in Forecasters, GatherHistory(w) \/ Crash(w)
        PROVE  UNCHANGED runs
    BY <1>4 DEF GatherHistory, Crash
  <1>5. ASSUME NEW w \in Forecasters, NEW answer, job[w].at = "asked", Take(w, answer)
        PROVE  UNCHANGED runs \/ End(w, "failed", {})
    BY <1>5 DEF Take
  <1>6. ASSUME NEW w \in Forecasters, StorePoints(w)
        PROVE  UNCHANGED runs \/ End(w, "completed", job[w].points)
    BY <1>6 DEF StorePoints
  <1>7. \A row \in Observations : Measure(row) => UNCHANGED runs
    BY DEF Measure
  <1>8. \A w \in Forecasters : job[w].at \in {"asked", "answered"} => Busy(w)
    BY BusyJob
  <1>9. ASSUME NEW w \in Forecasters, Answer(w) \/ \E fault \in Faults : OtherAnswer(w, fault)
        PROVE  UNCHANGED runs \/ End(w, "failed", {})
    BY <1>5, <1>9 DEF Answer, OtherAnswer
  <1>10. ASSUME NEW w \in Forecasters, Answer(w) \/ (\E fault \in Faults : OtherAnswer(w, fault))
                                     \/ StorePoints(w)
         PROVE  Busy(w)
    BY <1>8, <1>10 DEF Answer, OtherAnswer, StorePoints
  <1>11. ASSUME NEW w \in Forecasters, CommitRun(w)
         PROVE  \A i \in DOMAIN runs : /\ i \in DOMAIN runs'
                                       /\ runs[i].status = "completed" => runs'[i] = runs[i]
    <2> DEFINE r == job[w].run
               new == [runs[r] EXCEPT !.status = "running"]
    <2>1. Busy(w) /\ runs' = [runs EXCEPT ![r] = new]
      BY <1>11, BusyJob DEF CommitRun
    <2>2. runs[r].status # "completed"
      BY <2>1 DEF ForecastInv, OwnRun
    <2> HIDE DEF new
    <2>3. QED
      BY <2>1, <2>2
  <1>12. CASE UNCHANGED forecastVars
    BY <1>1, <1>12 DEF forecastVars
  <1>13. CASE ForecastNext
    <2>1. \/ UNCHANGED runs
          \/ \E w \in Forecasters, ask \in Requests : RunForecast(w, ask)
          \/ \E w \in Forecasters : CommitRun(w)
          \/ \E w \in Forecasters : Busy(w) /\ End(w, "failed", {})
          \/ \E w \in Forecasters : Busy(w) /\ End(w, "completed", job[w].points)
      BY <1>4, <1>6, <1>7, <1>9, <1>10, <1>13 DEF ForecastNext
    <2>2. QED
      BY <1>1, <1>2, <1>3, <1>11, <2>1
  <1>14. QED
    BY <1>12, <1>13

LEMMA MaxGrows ==
    ASSUME NEW Q \in SUBSET (Nat \ {0}), IsFiniteSet(Q), NEW P \in SUBSET Q,
           NEW q, q = IF Q = {} THEN 0 ELSE Max(Q),
           NEW p, p = IF P = {} THEN 0 ELSE Max(P)
    PROVE  q >= p
  <1>1. IsFiniteSet(P) /\ P \in SUBSET Nat /\ Q \in SUBSET Nat
    BY FS_Subset
  <1>2. Q # {} => q \in Q /\ \A x \in Q : x <= q
    BY <1>1, MaxNat
  <1>3. P # {} => p \in P
    BY <1>1, MaxNat
  <1>4. CASE P # {}
    BY <1>1, <1>2, <1>3, <1>4
  <1>5. CASE P = {}
    <2>1. q \in Nat /\ p = 0
      BY <1>1, <1>2, <1>5
    <2>2. QED
      BY <2>1
  <1>6. QED
    BY <1>4, <1>5

LEMMA PredictingGrows ==
    ASSUME ForecastInv, ForecastInv', [ForecastNext]_forecastVars, NEW type, NEW s
    PROVE  Latest(type, s)' >= Latest(type, s)
  <1> DEFINE P == Predicting(type, s)
             Q == Predicting(type, s)'
  <1>1. \A i \in DOMAIN runs : /\ i \in DOMAIN runs'
                               /\ runs[i].status = "completed" => runs'[i] = runs[i]
    BY CompletedStays
  <1>2. P \in SUBSET Q
    BY <1>1 DEF Predicting
  <1>3. DOMAIN runs' \in SUBSET (Nat \ {0}) /\ IsFiniteSet(DOMAIN runs')
    <2>1. runs' \in Seq(Run)
      BY DEF ForecastInv
    <2>2. Len(runs') \in Nat /\ DOMAIN runs' = 1 .. Len(runs')
      BY <2>1
    <2>3. IsFiniteSet(1 .. Len(runs'))
      BY <2>2, FS_Interval
    <2>4. QED
      BY <2>2, <2>3
  <1>4. Q \in SUBSET DOMAIN runs'
    BY DEF Predicting
  <1>5. /\ Latest(type, s) = IF P = {} THEN 0 ELSE Max(P)
        /\ Latest(type, s)' = IF Q = {} THEN 0 ELSE Max(Q)
    BY DEF Latest
  <1> HIDE DEF P, Q
  <1>6. Q \in SUBSET (Nat \ {0}) /\ IsFiniteSet(Q)
    BY <1>3, <1>4, FS_Subset
  <1>7. QED
    BY <1>2, <1>5, <1>6, MaxGrows

\* What is served for an interval is never replaced by an older prediction, in whatever
\* order concurrent runs end. (list_for_site's order by created_at.)
THEOREM ServedIsNeverOlder == ForecastSpec => NeverOlder
  <1>1. ForecastInv /\ [ForecastNext]_forecastVars => ForecastInv'
    BY ForecastStep
  <1>2. ForecastInv /\ ForecastInv' /\ [ForecastNext]_forecastVars
          => \A type \in Types : \A s \in PredictedStarts(type) : Latest(type, s)' >= Latest(type, s)
    BY PredictingGrows
  <1>3. QED
    BY <1>1, <1>2, ForecastStarts, PTL DEF ForecastSpec, NeverOlder

-----------------------------------------------------------------------------
\* The runs are finitely many, each with finitely many points.
LEMMA RunsTyped ==
    ASSUME ForecastInv
    PROVE  /\ DOMAIN runs \in SUBSET (Nat \ {0}) /\ IsFiniteSet(DOMAIN runs)
           /\ \A i \in DOMAIN runs : /\ runs[i].points \in SUBSET RunPoint
                                     /\ IsFiniteSet(runs[i].points)
  <1>1. runs \in Seq(Run)
    BY DEF ForecastInv
  <1>2. DOMAIN runs = 1 .. Len(runs) /\ Len(runs) \in Nat
    BY <1>1
  <1>3. IsFiniteSet(1 .. Len(runs))
    BY <1>2, FS_Interval
  <1>4. \A i \in DOMAIN runs : runs[i] \in Run
    BY <1>1
  <1>5. QED
    BY <1>2, <1>3, <1>4 DEF Run, PointSets

\* What the newest run for a slot predicts bounds each of its points over the slot.
LEMMA NewestCovers ==
    ASSUME ForecastInv, NEW t
    PROVE  /\ NewestAt(t) \in Nat
           /\ \A i \in Covering("solar", t) :
                 (\A j \in Covering("solar", t) : j <= i) =>
                     \A p \in Over(runs[i].points, t) : p.kw \in Nat => p.kw <= NewestAt(t)
  <1> DEFINE C == Covering("solar", t)
             m == Max(C)
             points == {q \in Over(runs[m].points, t) : q.kw \in Nat}
             f == [p \in points |-> p.kw]
             K == {0} \cup {p.kw : p \in points}
  <1>1. CASE C = {}
    BY <1>1 DEF NewestAt
  <1>2. CASE C # {}
    <2>1. C \in SUBSET DOMAIN runs
      BY DEF Covering, Completed
    <2>2. C \in SUBSET Nat /\ IsFiniteSet(C)
      BY <2>1, RunsTyped, FS_Subset
    <2>3. NewestAt(t) = Max(K)
      BY <1>2 DEF NewestAt
    <2> HIDE DEF C
    <2>4. m \in C /\ \A j \in C : j <= m
      BY <1>2, <2>2, MaxNat
    <2> HIDE DEF m
    <2>5. IsFiniteSet(points)
      <3>1. IsFiniteSet(runs[m].points)
        BY <2>1, <2>4, RunsTyped
      <3>2. points \in SUBSET runs[m].points
        BY DEF Over
      <3>3. QED
        BY <3>1, <3>2, FS_Subset
    <2>6. IsFiniteSet(K) /\ K \in SUBSET Nat /\ K # {}
      <3>1. {p.kw : p \in points} = {f[p] : p \in points} /\ \A p \in points : p.kw \in Nat
        OBVIOUS
      <3> HIDE DEF points, f
      <3>2. IsFiniteSet({f[p] : p \in points})
        BY <2>5, ImageFinite
      <3>3. K = {p.kw : p \in points} \cup {0}
        OBVIOUS
      <3>4. IsFiniteSet(K)
        BY <3>1, <3>2, <3>3, FS_AddElement
      <3>5. QED
        BY <3>1, <3>3, <3>4
    <2>7. \A p \in points : p.kw \in K
      OBVIOUS
    <2> HIDE DEF K
    <2>8. Max(K) \in Nat /\ \A x \in K : x <= Max(K)
      BY <2>6, MaxNat
    <2>9. ASSUME NEW i \in C, \A j \in C : j <= i, NEW p \in Over(runs[i].points, t), p.kw \in Nat
          PROVE  p.kw <= NewestAt(t)
      <3>1. i = m
        <4>1. i \in Nat /\ m \in Nat /\ i <= m /\ m <= i
          BY <2>2, <2>4, <2>9
        <4>2. QED
          BY <4>1
      <3>2. p \in points
        BY <2>9, <3>1
      <3>3. QED
        BY <2>3, <2>7, <2>8, <3>2
    <2>10. QED
      BY <2>3, <2>8, <2>9 DEF C
  <1>3. QED
    BY <1>1, <1>2

\* What is read for an interval is a point that the newest completed run for it has stored.
LEMMA PredictionStored ==
    ASSUME ForecastInv, NEW type, NEW s
    PROVE  LET i == Latest(type, s)
               p == Prediction(type, s)
           IN  /\ i = 0 => p = Absent
               /\ i # 0 => /\ i \in Completed(type) /\ \A j \in Predicting(type, s) : j <= i
                           /\ p \in runs[i].points /\ p \in RunPoint /\ p.start = s
  <1> DEFINE P == Predicting(type, s)
             i == Latest(type, s)
             p == Prediction(type, s)
  <1>1. CASE i = 0
    BY <1>1 DEF Prediction
  <1>2. CASE i # 0
    <2>1. P \in SUBSET DOMAIN runs
      BY DEF Predicting
    <2>2. IsFiniteSet(P) /\ P \in SUBSET Nat
      BY <2>1, RunsTyped, FS_Subset
    <2>3. P # {} /\ i = Max(P)
      BY <1>2 DEF Latest
    <2> HIDE DEF P
    <2>4. i \in P /\ \A j \in P : j <= i
      BY <2>2, <2>3, MaxNat
    <2>5. /\ i \in DOMAIN runs /\ i \in Completed(type)
          /\ \E q \in runs[i].points : q.start = s
      BY <2>4 DEF Predicting, Completed, P
    <2>6. p = CHOOSE q \in runs[i].points : q.start = s
      BY <1>2 DEF Prediction
    <2>7. p \in runs[i].points /\ p.start = s
      BY <2>5, <2>6
    <2>8. p \in RunPoint
      BY <2>5, <2>7, RunsTyped
    <2>9. QED
      BY <1>2, <2>4, <2>5, <2>7, <2>8 DEF P
  <1>3. QED
    BY <1>1, <1>2

\* The larger of zero and a number.
LEMMA MaxZero ==
    ASSUME NEW k \in Int
    PROVE  Max({0, k}) = IF k > 0 THEN k ELSE 0
  <1> DEFINE m == IF k > 0 THEN k ELSE 0
  <1>1. \E x \in {0, k} : \A y \in {0, k} : x >= y
    <2>1. CASE k > 0
      BY <2>1
    <2>2. CASE ~(k > 0)
      BY <2>2
    <2>3. QED
      BY <2>1, <2>2
  <1>2. Max({0, k}) \in {0, k} /\ \A y \in {0, k} : Max({0, k}) >= y
    BY <1>1 DEF Max
  <1>3. QED
    BY <1>2

\* The interval of the surplus that starts at s.
SurplusOf(s) ==
    LET generation == Prediction("solar", s)
        load == Prediction("load", s)
    IN  [start |-> s,
         end |-> IF generation # Absent THEN generation.end ELSE load.end,
         kw |-> IF Absent \in {Kw(generation), Kw(load)} THEN Absent ELSE Kw(generation) - Kw(load)]
SurplusStarts == {t \in Slots : \E type \in Types : Latest(type, t) # 0}

LEMMA SurplusStartsAt ==
    /\ Surplus = {SurplusOf(s) : s \in SurplusStarts}
    /\ \A s \in SurplusStarts : SurplusOf(s).start = s
  BY DEF Surplus, SurplusOf, SurplusStarts

\* An interval offers nothing, or the newest prediction of generation less that of load.
LEMMA OfferOf ==
    ASSUME ForecastInv, NEW s \in SurplusStarts
    PROVE  LET p == SurplusOf(s)
               g == Prediction("solar", s)
               l == Prediction("load", s)
           IN  /\ ExportableKw(p) \in Nat
               /\ ExportableKw(p) # 0 =>
                     /\ Latest("solar", s) # 0 /\ Latest("load", s) # 0
                     /\ p.end = g.end /\ g.kw \in Int /\ l.kw \in Int /\ l.kw # Absent
                     /\ ExportableKw(p) = g.kw - l.kw
  <1> DEFINE p == SurplusOf(s)
             g == Prediction("solar", s)
             l == Prediction("load", s)
  <1>1. /\ Latest("solar", s) = 0 => g = Absent
        /\ Latest("solar", s) # 0 => g \in RunPoint
        /\ Latest("load", s) = 0 => l = Absent
        /\ Latest("load", s) # 0 => l \in RunPoint
    BY PredictionStored
  <1>2. \A q \in RunPoint : q.kw \in Int \/ q.kw = Absent
    BY DEF RunPoint, PointRecord, Powers
  <1>3. /\ p.end = IF g # Absent THEN g.end ELSE l.end
        /\ p.kw = IF Absent \in {Kw(g), Kw(l)} THEN Absent ELSE Kw(g) - Kw(l)
    BY DEF SurplusOf
  <1> HIDE DEF p, g, l
  <1>4. CASE Absent \in {Kw(g), Kw(l)}
    <2>1. ExportableKw(p) = 0
      BY <1>3, <1>4 DEF ExportableKw
    <2>2. QED
      BY <2>1 DEF p
  <1>5. CASE Absent \notin {Kw(g), Kw(l)}
    <2>1. g # Absent /\ l # Absent /\ Kw(g) = g.kw /\ Kw(l) = l.kw
      BY <1>5 DEF Kw
    <2>2. g \in RunPoint /\ l \in RunPoint /\ Latest("solar", s) # 0 /\ Latest("load", s) # 0
      BY <1>1, <2>1
    <2>3. g.kw \in Int /\ l.kw \in Int /\ l.kw # Absent
      BY <1>2, <1>5, <2>1, <2>2
    <2>4. p.kw = g.kw - l.kw /\ p.end = g.end
      BY <1>3, <1>5, <2>1
    <2>5. g.kw - l.kw # Absent
      BY <2>3, ForecastsAssumption
    <2>6. ExportableKw(p) = Max({0, g.kw - l.kw})
      BY <2>4, <2>5 DEF ExportableKw
    <2>7. ExportableKw(p) = IF g.kw - l.kw > 0 THEN g.kw - l.kw ELSE 0
      BY <2>3, <2>6, MaxZero
    <2>8. ExportableKw(p) \in Nat /\ (ExportableKw(p) # 0 => ExportableKw(p) = g.kw - l.kw)
      BY <2>3, <2>7
    <2>9. QED
      BY <2>2, <2>3, <2>4, <2>8 DEF p, g, l
  <1>6. QED
    BY <1>4, <1>5

\* An interval over a slot that offers something has its generation from a point over the
\* slot, which is within what the newest run for the slot predicts.
LEMMA OfferWithinNewest ==
    ASSUME ForecastInv, NEW t \in Slots, OneStart(t), NoNegativeLoad(t), NEW s \in SurplusStarts,
           SurplusOf(s).start <= t, t < SurplusOf(s).end, ExportableKw(SurplusOf(s)) # 0
    PROVE  /\ \E q \in PointsOver("solar", t) : q.start = s
           /\ ExportableKw(SurplusOf(s)) <= NewestAt(t)
  <1> DEFINE p == SurplusOf(s)
             i == Latest("solar", s)
             k == Latest("load", s)
             g == Prediction("solar", s)
             l == Prediction("load", s)
  <1>1. /\ i # 0 /\ k # 0 /\ p.start = s /\ p.end = g.end /\ g.kw \in Int /\ l.kw \in Int
        /\ l.kw # Absent /\ ExportableKw(p) = g.kw - l.kw /\ ExportableKw(p) \in Nat
    BY OfferOf, SurplusStartsAt
  <1>2. /\ i \in Completed("solar") /\ \A j \in Predicting("solar", s) : j <= i
        /\ g \in runs[i].points /\ g.start = s
        /\ k \in Completed("load") /\ l \in runs[k].points /\ l.start = s
    BY <1>1, PredictionStored
  <1>3. p.start <= t /\ t < p.end
    OBVIOUS
  <1> HIDE DEF p, i, k, g, l
  <1>4. g \in Over(runs[i].points, t)
    BY <1>1, <1>2, <1>3 DEF Over
  <1>5. i \in Covering("solar", t)
    BY <1>2, <1>4 DEF Covering
  <1>6. g \in PointsOver("solar", t)
    BY <1>4, <1>5 DEF PointsOver
  <1>7. \A j \in Covering("solar", t) : j <= i
    <2> SUFFICES ASSUME NEW j \in Covering("solar", t)
                 PROVE  j <= i
      OBVIOUS
    <2>1. PICK q \in Over(runs[j].points, t) : TRUE
      BY DEF Covering
    <2>2. q \in PointsOver("solar", t) /\ q \in runs[j].points
      BY <2>1 DEF PointsOver, Over
    <2>3. q.start = s
      BY <1>2, <1>6, <2>2 DEF OneStart
    <2>4. j \in Predicting("solar", s)
      BY <2>2, <2>3 DEF Covering, Completed, Predicting
    <2>5. QED
      BY <1>2, <2>4
  <1>8. l.kw >= 0
    BY <1>1, <1>2, <1>6 DEF NoNegativeLoad
  <1>9. g.kw \in Nat /\ ExportableKw(p) <= g.kw
    BY <1>1, <1>8
  <1>10. g.kw <= NewestAt(t) /\ NewestAt(t) \in Nat
    BY <1>4, <1>5, <1>7, <1>9, NewestCovers
  <1>11. QED
    BY <1>1, <1>2, <1>6, <1>9, <1>10 DEF p

\* At most one interval offers something in a slot, and no more than the newest prediction.
LEMMA OfferedWithinNewest ==
    ASSUME ForecastInv, NEW t \in Slots, OneStart(t), NoNegativeLoad(t)
    PROVE  Offered(Surplus, t) <= NewestAt(t)
  <1> DEFINE D == Over(Surplus, t)
             f == [p \in D |-> ExportableKw(p)]
  <1>1. Offered(Surplus, t) = SumFunctionOnSet(f, D)
    <2>1. DOMAIN f = D
      OBVIOUS
    <2>2. QED
      BY <2>1, SumIsOnDomain DEF Offered
  <1>2. IsFiniteSet(D)
    <2> DEFINE h == [s \in SurplusStarts |-> SurplusOf(s)]
    <2>1. LastSlot \in Nat
      BY ForecastsAssumption
    <2>2. IsFiniteSet(Slots) /\ SurplusStarts \in SUBSET Slots
      BY <2>1, FS_Interval DEF Slots, SurplusStarts
    <2>3. IsFiniteSet(SurplusStarts)
      BY <2>2, FS_Subset
    <2>4. Surplus = {h[s] : s \in SurplusStarts}
      BY SurplusStartsAt
    <2> HIDE DEF h
    <2>5. IsFiniteSet(Surplus)
      BY <2>3, <2>4, ImageFinite
    <2>6. D \in SUBSET Surplus
      BY DEF Over
    <2>7. QED
      BY <2>5, <2>6, FS_Subset
  <1>3. \A p \in D : /\ p.start \in SurplusStarts /\ p = SurplusOf(p.start)
                     /\ p.start <= t /\ t < p.end
    BY SurplusStartsAt DEF Over
  <1>4. \A p \in D : f[p] = ExportableKw(p) /\ f[p] \in Nat
    BY <1>3, OfferOf
  <1>5. \A p \in D : f[p] # 0 => f[p] <= NewestAt(t)
    BY <1>3, <1>4, OfferWithinNewest
  <1>6. \A p, q \in D : f[p] # 0 /\ f[q] # 0 => p = q
    <2> SUFFICES ASSUME NEW p \in D, NEW q \in D, f[p] # 0, f[q] # 0
                 PROVE  p = q
      OBVIOUS
    <2>1. PICK x \in PointsOver("solar", t) : x.start = p.start
      BY <1>3, <1>4, OfferWithinNewest
    <2>2. PICK y \in PointsOver("solar", t) : y.start = q.start
      BY <1>3, <1>4, OfferWithinNewest
    <2>3. p.start = q.start
      BY <2>1, <2>2 DEF OneStart
    <2>4. QED
      BY <1>3, <2>3
  <1>7. NewestAt(t) \in Nat
    BY NewestCovers
  <1> HIDE DEF D, f
  <1>8. CASE \A p \in D : f[p] = 0
    <2>1. SumFunctionOnSet(f, D) = 0
      BY <1>2, <1>8, SumZero
    <2>2. QED
      BY <1>1, <1>7, <2>1
  <1>9. CASE \E p \in D : f[p] # 0
    <2>1. PICK p \in D : f[p] # 0
      BY <1>9
    <2> DEFINE rest == D \ {p}
    <2>2. SumFunctionOnSet(f, D) = f[p] + SumFunctionOnSet(f, rest)
      BY <1>2, <1>4, SumSplit
    <2>3. IsFiniteSet(rest) /\ \A q \in rest : f[q] = 0
      BY <1>2, <1>6, <2>1, FS_Subset
    <2> HIDE DEF rest
    <2>4. SumFunctionOnSet(f, rest) = 0
      BY <2>3, SumZero
    <2>5. QED
      BY <1>1, <1>4, <1>5, <1>7, <2>1, <2>2, <2>4
  <1>10. QED
    BY <1>8, <1>9

\* The power that the surplus offers for sale in a slot is never more than the newest solar
\* run for that slot predicts there, where the solar intervals over the slot start together
\* and the loads for them are not negative. (latest_per_interval_for_site,
\* calculate_surplus.)
THEOREM NothingOfferedTwice == ForecastSpec => []NoMoreThanForecast
  <1>1. ForecastInv /\ [ForecastNext]_forecastVars => ForecastInv'
    BY ForecastStep
  <1>2. ForecastInv => NoMoreThanForecast
    BY OfferedWithinNewest DEF NoMoreThanForecast
  <1>3. QED
    BY <1>1, <1>2, ForecastStarts, PTL DEF ForecastSpec

-----------------------------------------------------------------------------
(***************************************************************************)
(* Ingestion of meter readings.                                            *)
(***************************************************************************)
Statuses == {"source_unavailable", "invalid_value", "missing", "duplicate", "out_of_order",
             "stale", "valid"}

\* A row, the outcome of a reading, and an upload being classified.
Kept == [series : Series, start : Int, end : Int, values : Values, status : Statuses]
Outcome == [reading : Reading, status : Statuses]
Batch == [op : {"classify"}, readings : Seq(Reading), at : Nat, outcomes : Seq(Outcome),
          staged : Seq(Kept), alone : BOOLEAN]

MeterTyped ==
    /\ now \in Nat
    /\ rows \in Seq(Kept)
    /\ ingest \in [Workers -> {Free} \cup Batch]

LEMMA MeterMax ==
    ASSUME NEW a \in Int, NEW b \in Int
    PROVE  Max({a, b}) \in Int
  <1> DEFINE S == {a, b}
  <1>1. \E m \in S : \A x \in S : x <= m
    OBVIOUS
  <1>2. Max(S) = CHOOSE m \in S : \A x \in S : m >= x
    BY DEF Max
  <1>3. \E m \in S : \A x \in S : m >= x
    BY <1>1
  <1>4. Max(S) \in S
    BY <1>2, <1>3
  <1>5. QED
    BY <1>4

LEMMA ValueTyped ==
    ASSUME NEW v \in Values, NEW ch \in Quantities
    PROVE  v[ch] \in Int \cup {None} /\ Zero(v[ch]) \in Int
  BY TelemetryAssumption DEF Values, Zero, Known

LEMMA CellTyped ==
    ASSUME NEW row \in Row, NEW ch \in Quantities
    PROVE  Zero(row.values[ch]) \in Int /\ (Known(row.values[ch]) => row.values[ch] \in Int)
  BY TelemetryAssumption DEF Row, Zero, Known

LEMMA ParsedTyped ==
    ASSUME NEW row \in Row, row.start \in Int
    PROVE  Parse(row) \in Reading
  <1> DEFINE v == [ch \in Quantities |-> Zero(row.values[ch])]
             given == \/ row.values["grid_import"] # None
                      \/ row.values["grid_export"] # None
             energy == IF Known(row.values["energy"]) THEN row.values["energy"] ELSE None
             net == v["load"] - v["generation"]
             w == [v EXCEPT !["energy"] = energy,
                            !["grid_import"] = IF given THEN @ ELSE Max({net, 0}),
                            !["grid_export"] = IF given THEN @ ELSE Max({-net, 0})]
             e == IF Known(row.end) THEN row.end ELSE row.start + 1
  <1>1. row.end \in Int \cup {None}
    BY DEF Row
  <1>2. \A ch \in Quantities : v[ch] \in Int
    BY CellTyped
  <1>3. {"load", "generation", "energy", "grid_import", "grid_export"} \subseteq Quantities
    BY DEF Quantities
  <1>4. net \in Int /\ -net \in Int
    <2>1. v["load"] \in Int /\ v["generation"] \in Int
      BY <1>2, <1>3
    <2> HIDE DEF v
    <2>2. QED
      BY <2>1
  <1> HIDE DEF net
  <1>5. Max({net, 0}) \in Int /\ Max({-net, 0}) \in Int
    BY <1>4, MeterMax
  <1>6. energy \in Int \cup {None}
    BY <1>3, CellTyped
  <1>7. v \in Values
    BY <1>2 DEF Values
  <1>8. w \in Values
    <2> DEFINE a == IF given THEN v["grid_import"] ELSE Max({net, 0})
               b == IF given THEN v["grid_export"] ELSE Max({-net, 0})
    <2>1. v["grid_import"] \in Int /\ v["grid_export"] \in Int
      BY <1>2, <1>3
    <2> HIDE DEF v
    <2>2. a \in Int /\ b \in Int
      BY <1>5, <2>1
    <2>3. w = [v EXCEPT !["energy"] = energy, !["grid_import"] = a,
                        !["grid_export"] = b]
      BY <1>7 DEF Values
    <2> HIDE DEF a, b, given, energy, w
    <2>4. QED
      BY <1>6, <1>7, <2>2, <2>3 DEF Values
  <1>9. e \in Int
    BY <1>1, TelemetryAssumption DEF Known, Row
  <1>10. Parse(row) = [row EXCEPT !.end = e, !.values = w]
    BY DEF Parse, Row, net, energy
  <1> HIDE DEF v, w, e
  <1>11. QED
    BY <1>8, <1>9, <1>10 DEF Row, Reading

LEMMA NormalizedTyped ==
    ASSUME NEW row \in Row, row.start \in Int, row.values \in Values
    PROVE  Normalized(row) \in Reading
  <1> DEFINE e == IF Known(row.end) THEN row.end ELSE row.start
  <1>1. e \in Int
    BY TelemetryAssumption DEF Known, Row
  <1>2. Normalized(row) = [row EXCEPT !.end = e]
    BY DEF Normalized, Row
  <1> HIDE DEF e
  <1>3. QED
    BY <1>1, <1>2 DEF Row, Reading

\* The lines of a file can be put in the order of their readings.
LEMMA Orderable ==
    ASSUME NEW file \in Seq(Row), NEW lines \in SUBSET (DOMAIN file),
           \A i \in lines : file[i].start \in Int
    PROVE  OldestFirst(file, lines) \in [1 .. Cardinality(lines) -> lines]
  <1> DEFINE R == {p \in lines \X lines : Earlier(file, p[1], p[2])}
             n == Cardinality(lines)
  <1>1. \A i, j \in lines : <<i, j>> \in R <=> Earlier(file, i, j)
    OBVIOUS
  <1>2. IsFiniteSet(lines)
    <2>1. DOMAIN file = 1 .. Len(file) /\ Len(file) \in Nat
      OBVIOUS
    <2>2. IsFiniteSet(1 .. Len(file))
      BY <2>1, FS_Interval
    <2>3. QED
      BY <2>1, <2>2, FS_Subset
  <1>3. \A i \in lines : i \in Int /\ file[i].start \in Int
    <2>1. DOMAIN file = 1 .. Len(file) /\ Len(file) \in Nat
      OBVIOUS
    <2>2. QED
      BY <2>1
  <1> HIDE DEF R
  <1>4. StrictOrder(R, lines)
    BY <1>1, <1>3 DEF StrictOrder, Earlier
  <1>5. PICK s \in [1 .. n -> lines] : \A i, j \in 1 .. n : i < j => <<s[i], s[j]>> \in R
    BY <1>2, <1>4, OrderExists
  <1>6. Cardinality(lines) = n
    OBVIOUS
  <1> HIDE DEF n
  <1>7. s \in [1 .. n -> lines] /\ \A i, j \in 1 .. n : i < j => Earlier(file, s[i], s[j])
    BY <1>1, <1>5
  <1>8. OldestFirst(file, lines) = CHOOSE order \in [1 .. n -> lines] :
           \A i, j \in 1 .. n : i < j => Earlier(file, order[i], order[j])
    BY <1>6 DEF OldestFirst
  <1>9. QED
    BY <1>7, <1>8 DEF n

\* Whatever is uploaded, what is ingested are readings.
LEMMA ReadingsTyped ==
    ASSUME NEW u \in Uploads
    PROVE  Readings(u) \in Seq(Reading)
  <1>1. /\ u.via \in {"api", "csv", "source"} /\ u.rows \in Seq(Row)
        /\ u.via # "csv" => \A i \in DOMAIN u.rows : /\ u.rows[i].start \in Int
                                                     /\ u.rows[i].values \in Values
        /\ u.via = "source" => u.rows \in Seq(Reading)
    BY TelemetryAssumption
  <1>2. PICK file \in Seq(Row) : file = u.rows
    BY <1>1
  <1>3. DOMAIN file = 1 .. Len(file) /\ Len(file) \in Nat /\ \A i \in DOMAIN file : file[i] \in Row
    OBVIOUS
  <1>4. << >> \in Seq(Reading)
    OBVIOUS
  <1>5. CASE u.via = "api"
    <2>1. \A i \in 1 .. Len(file) : Normalized(file[i]) \in Reading
      BY <1>1, <1>2, <1>3, <1>5, NormalizedTyped
    <2>2. [i \in 1 .. Len(file) |-> Normalized(file[i])] \in Seq(Reading)
      BY <1>3, <2>1
    <2>3. \/ Readings(u) = << >>
          \/ Readings(u) = [i \in 1 .. Len(file) |-> Normalized(file[i])]
      BY <1>2, <1>3, <1>5 DEF Readings
    <2>4. QED
      BY <1>4, <2>2, <2>3
  <1>6. CASE u.via = "csv"
    <2> DEFINE good == {i \in DOMAIN file : Parses(file[i])}
               order == OldestFirst(file, good)
    <2>1. \A i \in good : file[i].start \in Int
      <3>1. \A row \in Row : row.start \in Int \cup {None}
        BY DEF Row
      <3>2. QED
        BY <1>3, <3>1 DEF Parses, Known
    <2>2. good \in SUBSET DOMAIN file
      OBVIOUS
    <2>3. \/ Readings(u) = << >>
          \/ Readings(u) = [n \in DOMAIN order |-> Parse(file[order[n]])]
      BY <1>2, <1>6 DEF Readings
    <2> HIDE DEF good
    <2>4. order \in [1 .. Cardinality(good) -> good]
      BY <2>1, <2>2, Orderable
    <2>5. Cardinality(good) \in Nat
      <3>1. IsFiniteSet(1 .. Len(file))
        BY <1>3, FS_Interval
      <3>2. IsFiniteSet(good)
        BY <1>3, <2>2, <3>1, FS_Subset
      <3>3. QED
        BY <3>2, FS_CardinalityType
    <2> HIDE DEF order
    <2>6. PICK c \in Nat : c = Cardinality(good)
      BY <2>5
    <2>7. DOMAIN order = 1 .. c /\ \A n \in 1 .. c : order[n] \in good
      BY <2>4, <2>6
    <2>8. \A n \in 1 .. c : Parse(file[order[n]]) \in Reading
      BY <1>3, <2>1, <2>2, <2>7, ParsedTyped
    <2>9. [n \in 1 .. c |-> Parse(file[order[n]])] \in Seq(Reading)
      BY <2>8
    <2>10. QED
      BY <1>4, <2>3, <2>7, <2>9
  <1>7. CASE u.via = "source"
    BY <1>1, <1>7 DEF Readings
  <1>8. QED
    BY <1>1, <1>5, <1>6, <1>7

\* What a series has, and what one more reading adds to it.
LEMMA StartsIn ==
    ASSUME NEW s, NEW series
    PROVE  \A x : x \in Starts(s, series)
                    <=> \E j \in DOMAIN s : s[j].series = series /\ s[j].start = x
  BY DEF Starts

LEMMA StartsAppend ==
    ASSUME NEW T, NEW s \in Seq(T), NEW r \in T, NEW series
    PROVE  \A x : x \in Starts(Append(s, r), series)
                    <=> \/ x \in Starts(s, series)
                        \/ r.series = series /\ r.start = x
  <1> DEFINE t == Append(s, r)
             n == Len(s)
  <1>1. /\ n \in Nat /\ DOMAIN s = 1 .. n /\ DOMAIN t = 1 .. n + 1
        /\ \A j \in 1 .. n : t[j] = s[j]
        /\ t[n + 1] = r
    BY AppendProperties
  <1> HIDE DEF t, n
  <1>2. \A j : j \in 1 .. n + 1 <=> j \in 1 .. n \/ j = n + 1
    BY <1>1
  <1>3. \A x : x \in Starts(t, series)
                 <=> \E j \in 1 .. n + 1 : t[j].series = series /\ t[j].start = x
    BY <1>1, StartsIn
  <1>4. \A x : x \in Starts(s, series)
                 <=> \E j \in 1 .. n : s[j].series = series /\ s[j].start = x
    BY <1>1, StartsIn
  <1>5. QED
    BY <1>1, <1>2, <1>3, <1>4 DEF t

LEMMA StatusTyped ==
    ASSUME NEW r, NEW at, NEW starts
    PROVE  Status(r, at, starts) \in Statuses
  BY DEF Status, Statuses

LEMMA ModelTyped ==
    ASSUME NEW r \in Reading, NEW status \in Statuses
    PROVE  /\ ToModel(r, status) \in Kept
           /\ ToModel(r, status).series = r.series
           /\ ToModel(r, status).start = r.start
           /\ ToModel(r, status).end = r.end
           /\ ToModel(r, status).values = r.values
           /\ ToModel(r, status).status = status
  BY DEF ToModel, Reading, Kept

LEMMA StageTyped ==
    ASSUME NEW staged \in Seq(Kept), NEW r \in Reading, NEW status \in Statuses
    PROVE  Stage(staged, r, status) \in Seq(Kept)
  <1>1. Append(staged, ToModel(r, status)) \in Seq(Kept)
    BY ModelTyped, AppendProperties
  <1>2. QED
    BY <1>1 DEF Stage

\* f holds what is stored after each of the calls that the outcomes would have been.
ReplayAt(f, base, outcomes, at, n) ==
    IF n = 0 THEN base
    ELSE IF Storable(Status(outcomes[n].reading, at,
                               Starts(f[n - 1], outcomes[n].reading.series)))
         THEN Append(f[n - 1], outcomes[n].reading) ELSE f[n - 1]
IsReplay(f, base, outcomes, at) ==
    f = [n \in 0 .. Len(outcomes) |-> ReplayAt(f, base, outcomes, at, n)]

LEMMA ReplaysAgree ==
    ASSUME NEW f, NEW g, NEW base, NEW outcomes \in Seq(Outcome), NEW at,
           IsReplay(f, base, outcomes, at), IsReplay(g, base, outcomes, at)
    PROVE  f = g
  <1> DEFINE L == Len(outcomes)
             Good == {n \in 0 .. L : f[n] = g[n]}
  <1>1. L \in Nat
    OBVIOUS
  <1>2. /\ f = [n \in 0 .. L |-> ReplayAt(f, base, outcomes, at, n)]
        /\ g = [n \in 0 .. L |-> ReplayAt(g, base, outcomes, at, n)]
    BY DEF IsReplay
  <1> HIDE DEF L
  <1>3. \A n \in 0 .. L : /\ f[n] = ReplayAt(f, base, outcomes, at, n)
                          /\ g[n] = ReplayAt(g, base, outcomes, at, n)
    <2> DEFINE F(n) == ReplayAt(f, base, outcomes, at, n)
               G(n) == ReplayAt(g, base, outcomes, at, n)
    <2> HIDE DEF F, G
    <2>1. f = [n \in 0 .. L |-> F(n)] /\ g = [n \in 0 .. L |-> G(n)]
      BY <1>2 DEF F, G
    <2>2. \A n \in 0 .. L : f[n] = F(n) /\ g[n] = G(n)
      BY <2>1
    <2>3. QED
      BY <2>2 DEF F, G
  <1>4. 0 \in Good
    <2>1. 0 \in 0 .. L
      BY <1>1
    <2>2. f[0] = base /\ g[0] = base
      BY <1>3, <2>1 DEF ReplayAt
    <2>3. QED
      BY <2>1, <2>2
  <1>5. ASSUME NEW k \in 1 .. L, k - 1 \in Good
        PROVE  k \in Good
    <2>1. k \in 0 .. L /\ f[k - 1] = g[k - 1]
      BY <1>1, <1>5
    <2>2. ReplayAt(f, base, outcomes, at, k) = ReplayAt(g, base, outcomes, at, k)
      BY <2>1 DEF ReplayAt
    <2>3. QED
      BY <1>3, <2>1, <2>2
  <1> HIDE DEF Good
  <1>6. 0 .. L \subseteq Good
    BY <1>1, <1>4, <1>5, UpTo
  <1>7. \A n \in 0 .. L : f[n] = g[n]
    BY <1>6 DEF Good
  <1>8. DOMAIN f = 0 .. L /\ DOMAIN g = 0 .. L
    BY <1>2
  <1>9. f = [n \in 0 .. L |-> f[n]] /\ g = [n \in 0 .. L |-> g[n]]
    BY <1>2, <1>8
  <1>10. QED
    BY <1>7, <1>9

\* The status that the nth call would have got.
CallStatus(f, outcomes, at, n) ==
    Status(outcomes[n].reading, at, Starts(f[n - 1], outcomes[n].reading.series))

\* The calls that outcomes would have been are classified against what they left.
LEMMA CallsUnfold ==
    ASSUME NEW f, NEW outcomes \in Seq(Outcome), NEW at, IsReplay(f, rows, outcomes, at)
    PROVE  OneByOne(outcomes, at)
             = [n \in DOMAIN outcomes |-> CallStatus(f, outcomes, at, n)]
  <1> DEFINE g == CHOOSE after : IsReplay(after, rows, outcomes, at)
  <1>1. IsReplay(g, rows, outcomes, at)
    OBVIOUS
  <1> HIDE DEF g
  <1>2. g = f
    BY <1>1, ReplaysAgree
  <1>3. OneByOne(outcomes, at)
          = [n \in DOMAIN outcomes |-> CallStatus(g, outcomes, at, n)]
    BY DEF OneByOne, g, IsReplay, ReplayAt, CallStatus
  <1>4. QED
    BY <1>2, <1>3

\* new[i] is of an interval that neither base nor what comes before it has a reading of.
Fresh(base, new, i) ==
    /\ \A j \in DOMAIN base : base[j].series = new[i].series => base[j].start # new[i].start
    /\ \A j \in 1 .. i - 1 : new[j].series = new[i].series => new[j].start # new[i].start

\* What a batch has staged fits the table, but for readings that are classified before they
\* are compared.
Vetted(base, b) ==
    \A i \in DOMAIN b.staged :
        \/ b.staged[i].status \in {"missing", "source_unavailable"}
        \/ (Accepted(b.staged[i]) /\ Fresh(base, b.staged, i))

\* Its outcomes are those of single calls, which would have left what it has staged.
Listed == Kept \cup Reading
Replayed(base, b) ==
    \E f : /\ IsReplay(f, base, b.outcomes, b.at)
           /\ f[Len(b.outcomes)] \in Seq(Listed)
           /\ \A series : Starts(f[Len(b.outcomes)], series)
                            = Starts(base \o b.staged, series)
           /\ \A n \in DOMAIN b.outcomes :
                 b.outcomes[n].status = CallStatus(f, b.outcomes, b.at, n)

\* The batch b after its next reading, r.
After(b, c, r, status) ==
    /\ c.at = b.at
    /\ c.outcomes = Append(b.outcomes, [reading |-> r, status |-> status])
    /\ c.staged = Stage(b.staged, r, status)

LEMMA VettedStep ==
    ASSUME NEW base \in Seq(Kept), NEW b \in Batch, NEW c \in Batch, NEW r \in Reading,
           NEW status, status = Status(r, b.at, Starts(base \o b.staged, r.series)),
           After(b, c, r, status), Vetted(base, b)
    PROVE  Vetted(base, c)
  <1> DEFINE m == ToModel(r, status)
  <1>1. PICK s \in Seq(Kept) : s = b.staged
    BY DEF Batch
  <1>2. PICK t \in Seq(Kept) : t = c.staged
    BY DEF Batch
  <1>3. status \in Statuses
    BY StatusTyped
  <1>4. /\ m \in Kept /\ m.series = r.series /\ m.start = r.start /\ m.end = r.end
        /\ m.values = r.values /\ m.status = status
    BY <1>3, ModelTyped
  <1>5. t = s \/ (t = Append(s, m) /\ Storable(status))
    BY <1>1, <1>2 DEF After, Stage
  <1> HIDE DEF m
  <1>6. CASE t = s
    BY <1>1, <1>2, <1>6 DEF Vetted
  <1>7. CASE t = Append(s, m) /\ Storable(status)
    <2> DEFINE n == Len(s)
    <2>1. /\ n \in Nat /\ DOMAIN s = 1 .. n /\ DOMAIN t = 1 .. n + 1
          /\ \A j \in 1 .. n : t[j] = s[j]
          /\ t[n + 1] = m
      BY <1>4, <1>7, AppendProperties
    <2> HIDE DEF n
    <2>2. ASSUME NEW i \in 1 .. n
          PROVE  \/ t[i].status \in {"missing", "source_unavailable"}
                 \/ Accepted(t[i]) /\ Fresh(base, t, i)
      <3>1. t[i] = s[i] /\ \A j \in 1 .. i - 1 : t[j] = s[j]
        BY <2>1
      <3>2. \/ s[i].status \in {"missing", "source_unavailable"}
            \/ Accepted(s[i]) /\ Fresh(base, s, i)
        BY <1>1, <2>1 DEF Vetted
      <3>3. QED
        BY <3>1, <3>2 DEF Fresh
    <2>3. ASSUME status \notin {"missing", "source_unavailable"}
          PROVE  Accepted(m) /\ Fresh(base, t, n + 1)
      <3>1. /\ ~(r.end < r.start \/ Negative(r))
            /\ r.start \notin Starts(base \o s, r.series)
        BY <1>1, <1>7, <2>3 DEF Status, Storable
      <3>2. r.end \in Int /\ r.start \in Int
        BY DEF Reading
      <3>3. Accepted(m)
        BY <1>4, <3>1, <3>2 DEF Accepted, Negative
      <3> DEFINE all == base \o s
                 k == Len(base)
      <3>4. /\ k \in Nat /\ DOMAIN base = 1 .. k /\ DOMAIN all = 1 .. k + n
            /\ \A j \in 1 .. k : all[j] = base[j]
            /\ \A j \in 1 .. n : all[k + j] = s[j]
        <4>1. /\ all \in Seq(Kept) /\ Len(all) = k + Len(s)
              /\ \A j \in 1 .. k + Len(s) : all[j] = IF j <= k THEN base[j] ELSE s[j - k]
          BY ConcatProperties
        <4>2. k \in Nat /\ DOMAIN base = 1 .. k
          OBVIOUS
        <4>3. n = Len(s)
          BY DEF n
        <4> HIDE DEF all, k
        <4>4. DOMAIN all = 1 .. k + n
          BY <4>1, <4>3
        <4>5. \A j \in 1 .. k : all[j] = base[j]
          BY <2>1, <4>1, <4>2, <4>3
        <4>6. ASSUME NEW j \in 1 .. n
              PROVE  all[k + j] = s[j]
          <5>1. k + j \in 1 .. k + n /\ ~(k + j <= k) /\ (k + j) - k = j
            BY <2>1, <4>2
          <5>2. QED
            BY <4>1, <4>3, <5>1
        <4>7. QED
          BY <4>2, <4>4, <4>5, <4>6
      <3>5. \A j \in DOMAIN all : all[j].series = r.series => all[j].start # r.start
        BY <3>1, StartsIn
      <3> HIDE DEF all, k
      <3>6. \A j \in 1 .. k : base[j].series = r.series => base[j].start # r.start
        <4>1. \A j \in 1 .. k : j \in DOMAIN all
          BY <2>1, <3>4
        <4>2. QED
          BY <3>4, <3>5, <4>1
      <3>7. \A j \in 1 .. n : s[j].series = r.series => s[j].start # r.start
        <4>1. \A j \in 1 .. n : k + j \in DOMAIN all
          BY <2>1, <3>4
        <4>2. QED
          BY <3>4, <3>5, <4>1
      <3>8. (n + 1) - 1 = n
        BY <2>1
      <3>9. Fresh(base, t, n + 1)
        BY <1>4, <2>1, <3>4, <3>6, <3>7, <3>8 DEF Fresh
      <3>10. QED
        BY <3>3, <3>9
    <2>4. \A i \in 1 .. n + 1 : i \in 1 .. n \/ i = n + 1
      BY <2>1
    <2>5. QED
      BY <1>2, <1>4, <2>1, <2>2, <2>3, <2>4 DEF Vetted
  <1>8. QED
    BY <1>5, <1>6, <1>7

LEMMA ReplayedStep ==
    ASSUME NEW base \in Seq(Kept), NEW b \in Batch, NEW c \in Batch, NEW r \in Reading,
           NEW status, status = Status(r, b.at, Starts(base \o b.staged, r.series)),
           After(b, c, r, status), Replayed(base, b)
    PROVE  Replayed(base, c)
  <1>1. PICK s \in Seq(Kept) : s = b.staged
    BY DEF Batch
  <1>2. PICK o \in Seq(Outcome) : o = b.outcomes
    BY DEF Batch
  <1>3. PICK at : at = b.at
    OBVIOUS
  <1> DEFINE L == Len(o)
             p == Append(o, [reading |-> r, status |-> status])
             t == Stage(s, r, status)
  <1>4. c.outcomes = p /\ c.staged = t /\ c.at = at
    BY <1>1, <1>2, <1>3 DEF After
  <1>5. PICK f : /\ IsReplay(f, base, o, at)
                 /\ f[L] \in Seq(Listed)
                 /\ \A series : Starts(f[L], series) = Starts(base \o s, series)
                 /\ \A n \in DOMAIN o :
                       o[n].status = CallStatus(f, o, at, n)
    BY <1>1, <1>2, <1>3 DEF Replayed
  <1>6. status = Status(r, at, Starts(f[L], r.series)) /\ status \in Statuses
    BY <1>1, <1>3, <1>5, StatusTyped
  <1>7. /\ L \in Nat /\ DOMAIN o = 1 .. L /\ DOMAIN p = 1 .. L + 1 /\ Len(p) = L + 1
        /\ \A j \in 1 .. L : p[j] = o[j]
        /\ p[L + 1] = [reading |-> r, status |-> status]
    <2>1. [reading |-> r, status |-> status] \in Outcome
      BY <1>6 DEF Outcome
    <2>2. QED
      BY <2>1, AppendProperties
  <1>8. p[L + 1].reading = r /\ p[L + 1].status = status
    BY <1>7
  <1> HIDE DEF L, p
  <1> DEFINE next == IF Storable(status) THEN Append(f[L], r) ELSE f[L]
             g == [n \in 0 .. L + 1 |-> IF n = L + 1 THEN next ELSE f[n]]
  <1>9. /\ g[L + 1] = next
        /\ \A n \in 0 .. L : g[n] = f[n]
        /\ g = [n \in 0 .. L + 1 |-> g[n]]
    BY <1>7
  <1> HIDE DEF g
  <1>10. \A n \in 0 .. L : f[n] = ReplayAt(f, base, o, at, n)
    <2> DEFINE F(n) == ReplayAt(f, base, o, at, n)
    <2> HIDE DEF F
    <2>1. f = [n \in 0 .. L |-> F(n)]
      BY <1>5 DEF IsReplay, F, L
    <2>2. \A n \in 0 .. L : f[n] = F(n)
      BY <2>1
    <2>3. QED
      BY <2>2 DEF F
  <1>11. ASSUME NEW n \in 0 .. L
         PROVE  g[n] = ReplayAt(g, base, p, at, n)
    <2>1. g[n] = ReplayAt(f, base, o, at, n)
      BY <1>9, <1>10
    <2>2. n # 0 => n \in 1 .. L /\ n - 1 \in 0 .. L
      BY <1>7
    <2>3. n # 0 => p[n] = o[n] /\ g[n - 1] = f[n - 1]
      BY <1>7, <1>9, <2>2
    <2>4. ReplayAt(f, base, o, at, n) = ReplayAt(g, base, p, at, n)
      BY <2>3 DEF ReplayAt
    <2>5. QED
      BY <2>1, <2>4
  <1>12. g[L + 1] = ReplayAt(g, base, p, at, L + 1)
    <2>1. L + 1 # 0 /\ (L + 1) - 1 = L /\ L \in 0 .. L
      BY <1>7
    <2>2. g[L] = f[L]
      BY <1>9, <2>1
    <2>3. ReplayAt(g, base, p, at, L + 1) = next
      BY <1>6, <1>8, <2>1, <2>2 DEF ReplayAt
    <2>4. QED
      BY <1>9, <2>3
  <1>13. IsReplay(g, base, p, at)
    <2> DEFINE G(n) == ReplayAt(g, base, p, at, n)
    <2>1. \A n \in 0 .. L + 1 : g[n] = G(n)
      <3>1. \A n \in 0 .. L + 1 : n \in 0 .. L \/ n = L + 1
        BY <1>7
      <3>2. QED
        BY <1>11, <1>12, <3>1
    <2> HIDE DEF G
    <2>2. g = [n \in 0 .. L + 1 |-> G(n)]
      BY <1>9, <2>1
    <2>3. QED
      BY <1>7, <2>2 DEF IsReplay, G
  <1> DEFINE m == ToModel(r, status)
  <1>14. m \in Kept /\ m.series = r.series /\ m.start = r.start
    BY <1>6, ModelTyped
  <1> HIDE DEF m
  <1>15. r \in Listed
    BY DEF Listed
  <1>16. next \in Seq(Listed)
    <2>1. Append(f[L], r) \in Seq(Listed)
      BY <1>5, <1>15, AppendProperties
    <2>2. QED
      BY <1>5, <2>1
  <1>17. ASSUME NEW series
         PROVE  Starts(next, series) = Starts(base \o t, series)
    <2>1. CASE Storable(status)
      <3>1. next = Append(f[L], r)
        BY <2>1
      <3>2. t = Append(s, m)
        BY <2>1 DEF Stage, m
      <3>3. base \o Append(s, m) = Append(base \o s, m) /\ base \o s \in Seq(Kept)
        BY <1>14
      <3>4. \A x : x \in Starts(Append(f[L], r), series)
                     <=> \/ x \in Starts(f[L], series)
                         \/ r.series = series /\ r.start = x
        BY <1>5, <1>15, StartsAppend
      <3>5. \A x : x \in Starts(Append(base \o s, m), series)
                     <=> \/ x \in Starts(base \o s, series)
                         \/ m.series = series /\ m.start = x
        BY <1>14, <3>3, StartsAppend
      <3>6. Starts(f[L], series) = Starts(base \o s, series)
        BY <1>5
      <3>7. \A x : x \in Starts(Append(f[L], r), series)
                     <=> x \in Starts(Append(base \o s, m), series)
        BY <1>14, <3>4, <3>5, <3>6
      <3>8. Starts(Append(f[L], r), series) = Starts(Append(base \o s, m), series)
        BY <3>7
      <3>9. QED
        BY <3>1, <3>2, <3>3, <3>8
    <2>2. CASE ~Storable(status)
      <3>1. next = f[L] /\ t = s
        BY <2>2 DEF Stage
      <3>2. QED
        BY <1>5, <3>1
    <2>3. QED
      BY <2>1, <2>2
  <1> HIDE DEF next, t
  <1>18. ASSUME NEW n \in 1 .. L + 1
         PROVE  p[n].status = CallStatus(g, p, at, n)
    <2>1. CASE n = L + 1
      <3>1. n - 1 = L /\ L \in 0 .. L
        BY <1>7, <2>1
      <3>2. g[n - 1] = f[L]
        BY <1>9, <3>1
      <3>3. QED
        BY <1>6, <1>8, <2>1, <3>2 DEF CallStatus
    <2>2. CASE n # L + 1
      <3>1. n \in 1 .. L /\ n - 1 \in 0 .. L
        BY <1>7, <2>2
      <3>2. p[n] = o[n] /\ g[n - 1] = f[n - 1]
        BY <1>7, <1>9, <3>1
      <3>3. QED
        BY <1>5, <1>7, <3>1, <3>2 DEF CallStatus
    <2>3. QED
      BY <2>1, <2>2
  <1>19. g[L + 1] \in Seq(Listed)
         /\ \A series : Starts(g[L + 1], series) = Starts(base \o t, series)
    BY <1>9, <1>16, <1>17
  <1>20. \E h : /\ IsReplay(h, base, p, at)
                /\ h[Len(p)] \in Seq(Listed)
                /\ \A series : Starts(h[Len(p)], series) = Starts(base \o t, series)
                /\ \A n \in DOMAIN p :
                      p[n].status = CallStatus(h, p, at, n)
    BY <1>7, <1>13, <1>18, <1>19
  <1>21. QED
    BY <1>4, <1>20 DEF Replayed

\* A batch that meets no other works against what was stored when it began.
Alone(w) == ingest[w] # Free /\ ingest[w].alone

NoRepeat(base) ==
    \A i, j \in DOMAIN base :
        base[i].series = base[j].series /\ base[i].start = base[j].start => i = j
RefusedAlone ==
    \A f \in failed : f.alone => f.refused \subseteq {"missing", "source_unavailable"}

MeterInv ==
    /\ MeterTyped
    /\ NoRepeat(rows)
    /\ RefusedAlone
    /\ \A w \in Workers : Alone(w) => /\ \A x \in Workers \ {w} : ingest[x] = Free
                                      /\ Vetted(rows, ingest[w])
                                      /\ Replayed(rows, ingest[w])

LEMMA FreeIsNoBatch == \A b \in Batch : b # Free /\ b.op # Free.op
  BY DEF Batch, Free

LEMMA MeterStarts == IngestInit => MeterInv
  <1> SUFFICES ASSUME IngestInit
               PROVE  MeterInv
    OBVIOUS
  <1>1. rows = << >> /\ rows \in Seq(Kept) /\ failed = {} /\ DOMAIN rows = {}
    BY DEF IngestInit
  <1>2. \A w \in Workers : ingest[w] = Free
    BY DEF IngestInit
  <1>3. MeterTyped
    BY <1>1 DEF IngestInit, MeterTyped
  <1>4. QED
    BY <1>1, <1>2, <1>3 DEF MeterInv, NoRepeat, RefusedAlone, Alone

\* An upload begins with nothing staged.
LEMMA UploadKeeps ==
    ASSUME MeterInv, NEW w \in Workers, NEW u \in Uploads,
           Upload(w, u)
    PROVE  MeterInv'
  <1>1. rows' = rows /\ failed' = failed /\ now' = now
    BY DEF Upload
  <1>2. rows \in Seq(Kept) /\ now \in Nat /\ ingest \in [Workers -> {Free} \cup Batch]
    BY DEF MeterInv, MeterTyped
  <1> DEFINE begun == [op |-> "classify", readings |-> Readings(u), at |-> now,
                       outcomes |-> << >>, staged |-> << >>, alone |-> Others(w) = {}]
             seen(x) == IF x \in Others(w) THEN [ingest[x] EXCEPT !.alone = FALSE] ELSE ingest[x]
  <1>3. ingest' = [x \in Workers |-> IF x = w THEN begun ELSE seen(x)]
    BY DEF Upload
  <1>4. begun \in Batch
    <2>1. Readings(u) \in Seq(Reading)
      BY ReadingsTyped
    <2>2. << >> \in Seq(Outcome) /\ << >> \in Seq(Kept)
      OBVIOUS
    <2>3. QED
      BY <1>2, <2>1, <2>2 DEF Batch
  <1>5. \A x \in Workers \ {w} : x \in Others(w) <=> ingest[x] # Free
    BY DEF Others
  <1>6. ASSUME NEW x \in Workers \ {w}
        PROVE  seen(x) = Free \/ (seen(x) \in Batch /\ ~seen(x).alone)
    <2>1. CASE ingest[x] = Free
      BY <1>5, <2>1
    <2>2. CASE ingest[x] # Free
      <3>1. PICK b \in Batch : b = ingest[x]
        BY <1>2, <2>2
      <3>2. seen(x) = [b EXCEPT !.alone = FALSE]
        BY <1>5, <2>2, <3>1
      <3> HIDE DEF seen
      <3>3. QED
        BY <3>2 DEF Batch
    <2>3. QED
      BY <2>1, <2>2
  <1>7. begun.outcomes = << >> /\ begun.staged = << >> /\ (begun.alone <=> Others(w) = {})
    OBVIOUS
  <1> HIDE DEF begun
  <1>8. ingest'[w] = begun /\ \A x \in Workers \ {w} : ingest'[x] = seen(x)
    BY <1>3
  <1> HIDE DEF seen
  <1>9. MeterTyped'
    <2>1. ingest' \in [Workers -> {Free} \cup Batch]
      BY <1>3, <1>4, <1>6
    <2>2. QED
      BY <1>1, <1>2, <2>1 DEF MeterTyped
  <1>10. Vetted(rows, begun)
    BY <1>7 DEF Vetted
  <1>11. Replayed(rows, begun)
    <2> DEFINE f == [n \in 0 .. 0 |-> rows]
    <2>1. f[0] = rows /\ f = [n \in 0 .. 0 |-> f[n]] /\ \A n \in 0 .. 0 : n = 0
      OBVIOUS
    <2> HIDE DEF f
    <2>2. Len(<< >>) = 0 /\ rows \o << >> = rows /\ DOMAIN << >> = {}
      BY <1>2
    <2>3. f = [n \in 0 .. 0 |-> ReplayAt(f, rows, begun.outcomes, begun.at, n)]
      <3> DEFINE F(n) == ReplayAt(f, rows, begun.outcomes, begun.at, n)
      <3>1. \A n \in 0 .. 0 : f[n] = F(n)
        BY <2>1 DEF ReplayAt
      <3> HIDE DEF F
      <3>2. f = [n \in 0 .. 0 |-> F(n)]
        BY <2>1, <3>1
      <3>3. QED
        BY <3>2 DEF F
    <2>4. IsReplay(f, rows, begun.outcomes, begun.at)
      BY <1>7, <2>2, <2>3 DEF IsReplay
    <2>5. Kept \subseteq Listed
      BY DEF Listed
    <2>6. f[0] \in Seq(Listed)
      BY <1>2, <2>1, <2>5
    <2>7. \A series : Starts(f[0], series) = Starts(rows \o << >>, series)
      BY <2>1, <2>2
    <2>8. QED
      BY <1>7, <2>2, <2>4, <2>6, <2>7 DEF Replayed
  <1>12. ASSUME NEW x \in Workers, Alone(x)'
         PROVE  x = w /\ \A y \in Workers \ {w} : ingest'[y] = Free
    <2>1. x = w
      BY <1>6, <1>8, <1>12 DEF Alone
    <2>2. Others(w) = {}
      BY <1>7, <1>8, <1>12, <2>1 DEF Alone
    <2>3. \A y \in Workers \ {w} : ingest'[y] = Free
      BY <1>5, <1>8, <2>2 DEF seen
    <2>4. QED
      BY <2>1, <2>3
  <1>13. NoRepeat(rows)' /\ RefusedAlone'
    BY <1>1 DEF MeterInv, NoRepeat, RefusedAlone
  <1>14. QED
    BY <1>1, <1>8, <1>9, <1>10, <1>11, <1>12, <1>13 DEF MeterInv

LEMMA ClassifyKeeps ==
    ASSUME MeterInv, NEW w \in Workers, ClassifyNext(w)
    PROVE  MeterInv'
  <1>1. rows' = rows /\ failed' = failed /\ now' = now
    BY DEF ClassifyNext
  <1>2. rows \in Seq(Kept) /\ now \in Nat /\ ingest \in [Workers -> {Free} \cup Batch]
    BY DEF MeterInv, MeterTyped
  <1>3. ingest[w].op = "classify"
    BY DEF ClassifyNext
  <1>4. PICK b \in Batch : b = ingest[w]
    BY <1>2, <1>3 DEF Free
  <1>5. /\ b.readings \in Seq(Reading) /\ b.readings # << >>
        /\ b.outcomes \in Seq(Outcome) /\ b.staged \in Seq(Kept)
    BY <1>4 DEF ClassifyNext, Batch
  <1>6. PICK r \in Reading : r = Head(b.readings)
    BY <1>5
  <1>7. PICK s : s = Status(r, b.at, Starts(rows \o b.staged, r.series))
    OBVIOUS
  <1>8. s \in Statuses
    BY <1>7, StatusTyped
  <1> DEFINE c == [b EXCEPT !.readings = Tail(b.readings),
                            !.outcomes = Append(b.outcomes, [reading |-> r, status |-> s]),
                            !.staged = Stage(b.staged, r, s)]
  <1>9. ingest' = [ingest EXCEPT ![w] = c]
    BY <1>2, <1>4, <1>6, <1>7 DEF ClassifyNext, Classify
  <1>10. c \in Batch
    <2>1. Tail(b.readings) \in Seq(Reading)
      BY <1>5
    <2>2. Append(b.outcomes, [reading |-> r, status |-> s]) \in Seq(Outcome)
      <3>1. [reading |-> r, status |-> s] \in Outcome
        BY <1>8 DEF Outcome
      <3>2. QED
        BY <1>5, <3>1
    <2>3. Stage(b.staged, r, s) \in Seq(Kept)
      BY <1>5, <1>8, StageTyped
    <2>4. QED
      BY <2>1, <2>2, <2>3 DEF Batch
  <1>11. After(b, c, r, s) /\ c.alone = b.alone
    BY DEF After, Batch
  <1> HIDE DEF c
  <1>12. ingest'[w] = c /\ \A x \in Workers \ {w} : ingest'[x] = ingest[x]
    BY <1>2, <1>9
  <1>13. MeterTyped'
    <2>1. ingest' \in [Workers -> {Free} \cup Batch]
      BY <1>2, <1>9, <1>10
    <2>2. QED
      BY <1>1, <1>2, <2>1 DEF MeterTyped
  <1>14. ASSUME NEW x \in Workers, Alone(x)'
         PROVE  /\ \A y \in Workers \ {x} : ingest'[y] = Free
                /\ Vetted(rows, ingest'[x])
                /\ Replayed(rows, ingest'[x])
    <2>1. CASE x # w
      <3>1. Alone(x)
        BY <1>12, <1>14, <2>1 DEF Alone
      <3>2. ingest[w] = Free
        BY <2>1, <3>1 DEF MeterInv
      <3>3. QED
        BY <1>4, <3>2, FreeIsNoBatch
    <2>2. CASE x = w
      <3>1. Alone(w)
        BY <1>4, <1>11, <1>12, <1>14, <2>2, FreeIsNoBatch DEF Alone
      <3>2. /\ \A y \in Workers \ {w} : ingest[y] = Free
            /\ Vetted(rows, b) /\ Replayed(rows, b)
        BY <1>4, <3>1 DEF MeterInv
      <3>3. PICK base \in Seq(Kept) : base = rows
        BY <1>2
      <3>4. Vetted(base, c) /\ Replayed(base, c)
        BY <1>7, <1>10, <1>11, <3>2, <3>3, VettedStep, ReplayedStep
      <3>5. QED
        BY <1>12, <2>2, <3>2, <3>3, <3>4
    <2>3. QED
      BY <2>1, <2>2
  <1>15. NoRepeat(rows)' /\ RefusedAlone'
    BY <1>1 DEF MeterInv, NoRepeat, RefusedAlone
  <1>16. QED
    BY <1>1, <1>13, <1>14, <1>15 DEF MeterInv

\* What is inserted collides with nothing; and the database refuses nothing of a batch that
\* met no other but what is not compared.
LEMMA InsertKeeps ==
    ASSUME MeterInv, NEW w \in Workers, Store(w)
    PROVE  MeterInv'
  <1>1. rows \in Seq(Kept) /\ now \in Nat /\ ingest \in [Workers -> {Free} \cup Batch]
    BY DEF MeterInv, MeterTyped
  <1>2. ingest[w].op = "classify"
    BY DEF Store
  <1>3. PICK b \in Batch : b = ingest[w]
    BY <1>1, <1>2 DEF Free
  <1>4. PICK new \in Seq(Kept) : new = b.staged
    BY DEF Batch
  <1> DEFINE refused == {i \in DOMAIN new : ~Accepted(new[i]) \/ Taken(new, i)}
  <1>5. /\ now' = now /\ ingest' = [ingest EXCEPT ![w] = Free]
        /\ \/ refused = {} /\ rows' = rows \o new /\ failed' = failed
           \/ /\ rows' = rows
              /\ failed' = failed \cup {[alone |-> b.alone,
                                         refused |-> {new[i].status : i \in refused}]}
    BY <1>3, <1>4 DEF Store
  <1>6. ingest'[w] = Free /\ \A x \in Workers \ {w} : ingest'[x] = ingest[x]
    BY <1>1, <1>5
  <1>7. MeterTyped'
    <2>1. rows \o new \in Seq(Kept)
      BY <1>1
    <2>2. rows' \in Seq(Kept)
      BY <1>1, <1>5, <2>1
    <2>3. ingest' \in [Workers -> {Free} \cup Batch]
      BY <1>1, <1>5
    <2>4. QED
      BY <1>1, <1>5, <2>2, <2>3 DEF MeterTyped
  <1>8. \A i \in DOMAIN new : i \notin refused <=> Accepted(new[i]) /\ Fresh(rows, new, i)
    BY DEF Taken, Fresh
  <1>9. NoRepeat(rows)'
    <2>1. CASE refused = {} /\ rows' = rows \o new
      <3>1. \A i \in DOMAIN new : Fresh(rows, new, i)
        BY <1>8, <2>1
      <3>2. PICK base \in Seq(Kept) : base = rows
        BY <1>1
      <3> DEFINE all == base \o new
                 k == Len(base)
                 n == Len(new)
      <3>3. /\ k \in Nat /\ n \in Nat /\ DOMAIN base = 1 .. k /\ DOMAIN new = 1 .. n
            /\ DOMAIN all = 1 .. k + n
            /\ \A j \in 1 .. k + n : all[j] = IF j <= k THEN base[j] ELSE new[j - k]
        BY ConcatProperties
      <3> HIDE DEF all, k, n, refused
      <3>4. ASSUME NEW i \in DOMAIN all, NEW j \in DOMAIN all, i < j,
                   all[i].series = all[j].series, all[i].start = all[j].start
            PROVE  FALSE
        <4>1. i \in 1 .. k + n /\ j \in 1 .. k + n
          BY <3>3
        <4>2. CASE j <= k
          <5>1. i \in DOMAIN base /\ j \in DOMAIN base /\ all[i] = base[i] /\ all[j] = base[j]
            BY <3>3, <3>4, <4>1, <4>2
          <5>2. i = j
            BY <3>2, <3>4, <5>1 DEF MeterInv, NoRepeat
          <5>3. QED
            BY <3>3, <3>4, <4>1, <5>2
        <4>3. CASE ~(j <= k)
          <5>1. PICK m \in 1 .. n : m = j - k
            BY <3>3, <4>1, <4>3
          <5>2. all[j] = new[m] /\ Fresh(base, new, m)
            BY <3>1, <3>2, <3>3, <4>1, <4>3, <5>1
          <5>3. CASE i <= k
            <6>1. i \in DOMAIN base /\ all[i] = base[i]
              BY <3>3, <4>1, <5>3
            <6>2. QED
              BY <3>4, <5>2, <6>1 DEF Fresh
          <5>4. CASE ~(i <= k)
            <6>1. i - k \in 1 .. m - 1 /\ all[i] = new[i - k]
              BY <3>3, <3>4, <4>1, <5>1, <5>4
            <6>2. QED
              BY <3>4, <5>2, <6>1 DEF Fresh
          <5>5. QED
            BY <5>3, <5>4
        <4>4. QED
          BY <4>2, <4>3
      <3>5. \A i, j \in DOMAIN all : i < j \/ j < i \/ i = j
        BY <3>3
      <3>6. rows' = all
        BY <2>1, <3>2 DEF all
      <3>7. NoRepeat(all)
        BY <3>4, <3>5 DEF NoRepeat
      <3>8. QED
        BY <3>6, <3>7 DEF NoRepeat
    <2>2. CASE rows' = rows
      BY <2>2 DEF MeterInv, NoRepeat
    <2>3. QED
      BY <1>5, <2>1, <2>2
  <1>10. RefusedAlone'
    <2>1. ASSUME b.alone
          PROVE  {new[i].status : i \in refused} \subseteq {"missing", "source_unavailable"}
      <3>1. Vetted(rows, b)
        BY <1>3, <2>1, FreeIsNoBatch DEF MeterInv, Alone
      <3>2. ASSUME NEW i \in refused
            PROVE  new[i].status \in {"missing", "source_unavailable"}
        <4>1. i \in DOMAIN new
          OBVIOUS
        <4> HIDE DEF refused
        <4>2. QED
          BY <1>4, <1>8, <3>1, <3>2, <4>1 DEF Vetted
      <3> HIDE DEF refused
      <3>3. QED
        BY <3>2
    <2> HIDE DEF refused
    <2>2. CASE failed' = failed
      BY <2>2 DEF MeterInv, RefusedAlone
    <2>3. CASE failed' = failed \cup {[alone |-> b.alone,
                                       refused |-> {new[i].status : i \in refused}]}
      <3>1. PICK F : F = {new[i].status : i \in refused}
        OBVIOUS
      <3>2. \A f \in failed' : f \in failed \/ (f.alone = b.alone /\ f.refused = F)
        BY <2>3, <3>1
      <3>3. \A f \in failed : f.alone => f.refused \subseteq {"missing", "source_unavailable"}
        BY DEF MeterInv, RefusedAlone
      <3>4. QED
        BY <2>1, <3>1, <3>2, <3>3 DEF RefusedAlone
    <2>4. QED
      BY <1>5, <2>2, <2>3
  <1> HIDE DEF refused
  <1>11. \A x \in Workers : ~Alone(x)'
    <2>1. ASSUME NEW x \in Workers, Alone(x)'
          PROVE  FALSE
      <3>1. x # w
        BY <1>6, <2>1 DEF Alone
      <3>2. Alone(x)
        BY <1>6, <2>1, <3>1 DEF Alone
      <3>3. ingest[w] = Free
        BY <3>1, <3>2 DEF MeterInv
      <3>4. QED
        BY <1>3, <3>3, FreeIsNoBatch
    <2>2. QED
      BY <2>1
  <1>12. QED
    BY <1>7, <1>9, <1>10, <1>11 DEF MeterInv

LEMMA MeterSteps ==
    ASSUME MeterInv, [IngestNext]_ingestVars
    PROVE  MeterInv'
  <1>1. CASE Tick
    <2>1. now \in Nat
      BY DEF MeterInv, MeterTyped
    <2>2. now' \in Nat /\ rows' = rows /\ ingest' = ingest /\ failed' = failed
      BY <1>1, <2>1 DEF Tick
    <2>3. QED
      BY <2>2 DEF MeterInv, MeterTyped, NoRepeat, RefusedAlone, Alone
  <1>2. CASE UNCHANGED ingestVars
    <2>1. now' = now /\ rows' = rows /\ ingest' = ingest /\ failed' = failed
      BY <1>2 DEF ingestVars
    <2>2. QED
      BY <2>1 DEF MeterInv, MeterTyped, NoRepeat, RefusedAlone, Alone
  <1>3. CASE \E w \in Workers : ClassifyNext(w)
    BY <1>3, ClassifyKeeps
  <1>4. CASE \E w \in Workers : Store(w)
    BY <1>4, InsertKeeps
  <1>5. CASE \E w \in Workers : \E u \in Uploads : Upload(w, u)
    BY <1>5, UploadKeeps
  <1>6. QED
    BY <1>1, <1>2, <1>3, <1>4, <1>5 DEF IngestNext

\* No interval of a series is stored twice, and a batch that meets no other is refused only
\* for readings without a measurement: what it stages is compared with what is stored and
\* staged before it. (ingest_batch, _classify_and_build, uq_telemetry_readings.)
THEOREM IntervalsAreStoredOnce == IngestSpec => []StoredOnce
  <1>1. MeterInv => StoredOnce
    BY DEF MeterInv, NoRepeat, RefusedAlone, StoredOnce
  <1>2. MeterInv /\ [IngestNext]_ingestVars => MeterInv'
    BY MeterSteps
  <1>3. QED
    BY <1>1, <1>2, MeterStarts, PTL DEF IngestSpec

\* A batch is classified "exactly as it would across two separate calls", however many
\* readings it has and in whatever order they come. (ingest_batch.)
THEOREM BatchesAreLikeCalls == IngestSpec => []BatchLikeCalls
  <1>1. MeterInv => BatchLikeCalls
    <2> SUFFICES ASSUME MeterInv, NEW w \in Workers, Alone(w)
                 PROVE  [n \in DOMAIN ingest[w].outcomes |-> ingest[w].outcomes[n].status]
                          = OneByOne(ingest[w].outcomes, ingest[w].at)
      BY DEF BatchLikeCalls, Alone
    <2>1. ingest[w] \in Batch /\ Replayed(rows, ingest[w])
      BY DEF MeterInv, MeterTyped, Alone
    <2>2. PICK outcomes \in Seq(Outcome) : outcomes = ingest[w].outcomes
      BY <2>1 DEF Batch
    <2>3. PICK at : at = ingest[w].at
      OBVIOUS
    <2>4. PICK f : /\ IsReplay(f, rows, outcomes, at)
                   /\ \A n \in DOMAIN outcomes :
                         outcomes[n].status = CallStatus(f, outcomes, at, n)
      BY <2>1, <2>2, <2>3 DEF Replayed
    <2>5. OneByOne(outcomes, at)
            = [n \in DOMAIN outcomes |-> CallStatus(f, outcomes, at, n)]
      BY <2>4, CallsUnfold
    <2>6. OneByOne(outcomes, at) = [n \in DOMAIN outcomes |-> outcomes[n].status]
      BY <2>4, <2>5
    <2>7. QED
      BY <2>2, <2>3, <2>6
  <1>2. MeterInv /\ [IngestNext]_ingestVars => MeterInv'
    BY MeterSteps
  <1>3. QED
    BY <1>1, <1>2, MeterStarts, PTL DEF IngestSpec
=============================================================================
