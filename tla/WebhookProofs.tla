---------------------------- MODULE WebhookProofs ----------------------------
(***************************************************************************)
(* Theorems about WebhookIngestion for every number of deliveries, copies  *)
(* and retries, every way items are shared between deliveries, every page  *)
(* size and expiry.                                                        *)
(***************************************************************************)
EXTENDS WebhookIngestion, FiniteSetTheorems, WellFoundedInduction, TLAPS

USE DEF EventRows, ItemRows, GapRows, IncidentRows, ReplayRows

Received == {d \in Deliveries : ingress[d] # "none"}

\* Everything that speaks of a delivery came after its receipt.
Prepared == {d \in Deliveries : replayer[d] = "prepared"}

Known ==
  /\ row \cup r2 \cup expired \cup dead \cup sweep.page \subseteq Received
  /\ \A s \in Slots : at[s] # "none" => s[1] \in Received
  /\ \A d \in Deliveries : receivedAt[d] <= now /\ (incident[d] # "none" => d \in Received)
  /\ Prepared \subseteq Received

\* An item is counted when it is claimed, and never again.
Counted == \A i \in Items : projected[i] = IF i \in items THEN 1 ELSE 0

\* A consumer has claimed the items before the one it is at, itself or by another's hand,
\* and starts at the first.
Claims ==
  /\ \A s \in Slots : at[s] \in {"queued", "loaded"} => next[s] = 1
  /\ \A s \in Slots : at[s] = "claimed" => \A k \in 1..Len(ItemsOf[s[1]]) : k < next[s] => ItemsOf[s[1]][k] \in items
  /\ CompletedMeansProcessed

\* A completed event keeps its mark until its row expires.
Marks == completed \subseteq finished /\ finished \subseteq completed \cup expired

\* NotStranded, from the moment the object is stored.
Somewhere(d) ==
  \/ d \in finished \cup expired
  \/ Pending(d)
  \/ d \in dead /\ incident[d] = "linked"
  \/ d \in r2 \ row

Held == active => \A d \in Received : Somewhere(d)

IInv == /\ TypeOK /\ Known /\ Counted /\ Claims /\ Marks /\ Held
        /\ GapReachesReceipt /\ FalseGapOnlyAfterExpiry /\ ExpiredSourceIsGone

LEMMA Numbers ==
  /\ N \in Nat /\ MaxRetries \in Nat /\ PageSize \in Nat /\ Grace \in Nat /\ Expiry \in Nat
  /\ LastArrival \in Nat /\ MaxTime \in Nat
  /\ \A d \in Deliveries : /\ d \in 1..N /\ d # NoEvidence /\ Len(ItemsOf[d]) \in Nat
                           /\ \A k \in 1..Len(ItemsOf[d]) : ItemsOf[d][k] \in Items
<1>1. ASSUME NEW d \in Deliveries
      PROVE  d \in 1..N /\ d # NoEvidence /\ Len(ItemsOf[d]) \in Nat /\ \A k \in 1..Len(ItemsOf[d]) : ItemsOf[d][k] \in Items
  <2>1. ItemsOf[d] \in Seq(Items) BY IngestionAssumption DEF Deliveries
  <2> QED BY <2>1, IngestionAssumption DEF Deliveries, NoEvidence
<1> QED BY <1>1, IngestionAssumption

LEMMA SlotIsPair == \A s \in Slots : s[1] \in Deliveries /\ s[2] \in Copies /\ s = <<s[1], s[2]>>
<1> SUFFICES ASSUME NEW s \in Slots PROVE s[1] \in Deliveries /\ s[2] \in Copies /\ s = <<s[1], s[2]>>
  OBVIOUS
<1>1. PICK d \in Deliveries, c \in Copies : s = <<d, c>> BY DEF Slots
<1>2. s[1] = d /\ s[2] = c BY <1>1
<1>3. s[1] \in Deliveries /\ s[2] \in Copies BY <1>2
<1> QED BY <1>1, <1>2, <1>3

LEMMA PendingSlot ==
  \A d \in Deliveries : Pending(d) <=> \E s \in Slots : s[1] = d /\ at[s] \in InQueue
<1> SUFFICES ASSUME NEW d \in Deliveries
             PROVE  Pending(d) <=> \E s \in Slots : s[1] = d /\ at[s] \in InQueue
  OBVIOUS
<1>1. ASSUME NEW c \in Copies, at[<<d, c>>] \in InQueue
      PROVE  \E s \in Slots : s[1] = d /\ at[s] \in InQueue
  <2>1. <<d, c>> \in Slots /\ <<d, c>>[1] = d BY DEF Slots
  <2> QED BY <1>1, <2>1
<1>2. ASSUME NEW s \in Slots, s[1] = d, at[s] \in InQueue PROVE Pending(d)
  BY <1>2, SlotIsPair DEF Pending
<1> QED BY <1>1, <1>2 DEF Pending

LEMMA InitIInv == Init => IInv
<1> SUFFICES ASSUME Init PROVE IInv OBVIOUS
<1> USE Numbers DEF Init, Idle, Open
<1>1. TypeOK BY DEF TypeOK, InQueue
<1>2. Known BY DEF Known, Prepared, Received
<1>3. Counted /\ Claims /\ Marks BY DEF Counted, Claims, Marks, CompletedMeansProcessed
<1>4. Held BY DEF Held, Received
<1>5. GapReachesReceipt /\ FalseGapOnlyAfterExpiry /\ ExpiredSourceIsGone
  BY DEF GapReachesReceipt, FalseGapOnlyAfterExpiry, ExpiredSourceIsGone
<1> QED BY <1>1, <1>2, <1>3, <1>4, <1>5 DEF IInv

-----------------------------------------------------------------------------
\* A message that takes a free slot.
LEMMA Enqueued ==
  ASSUME IInv, NEW d \in Received, Enqueue(d)
  PROVE  /\ at' \in [Slots -> InQueue \cup {"none"}] /\ tries' \in [Slots -> 0..MaxRetries]
         /\ next' \in [Slots -> Nat \ {0}]
         /\ \E t \in Slots : /\ t[1] = d /\ at[t] = "none" /\ at'[t] = "queued" /\ next'[t] = 1
                             /\ \A s \in Slots : s # t => at'[s] = at[s] /\ next'[s] = next[s]
<1> USE Numbers
<1>1. PICK c \in Copies :
        /\ at[<<d, c>>] = "none" /\ at' = [at EXCEPT ![<<d, c>>] = "queued"]
        /\ tries' = [tries EXCEPT ![<<d, c>>] = 0] /\ next' = [next EXCEPT ![<<d, c>>] = 1]
  BY DEF Enqueue
<1>2. <<d, c>> \in Slots /\ <<d, c>>[1] = d BY DEF Slots, Received
<1> HIDE DEF Slots
<1>3. at \in [Slots -> InQueue \cup {"none"}] /\ tries \in [Slots -> 0..MaxRetries] /\ next \in [Slots -> Nat \ {0}]
  BY DEF IInv, TypeOK
<1> DEFINE t == <<d, c>>
<1>4. t \in Slots /\ t[1] = d /\ at[t] = "none" /\ at' = [at EXCEPT ![t] = "queued"]
      /\ tries' = [tries EXCEPT ![t] = 0] /\ next' = [next EXCEPT ![t] = 1]
  BY <1>1, <1>2
<1> HIDE DEF t
<1> QED BY <1>3, <1>4 DEF InQueue

\* What such a message leaves as it was, when nothing else changes but what is known of
\* ingress, the replayers and the sweep.
LEMMA EnqueueKeeps ==
  ASSUME IInv, NEW d \in Received, Enqueue(d), Received' = Received, sweep'.page \subseteq Received,
         Prepared' \subseteq Received,
         UNCHANGED <<now, active, receivedAt, r2, eventVars, gaps, incident, historyVars>>
  PROVE  /\ Known' /\ Counted' /\ Claims' /\ Marks' /\ Held'
         /\ GapReachesReceipt' /\ FalseGapOnlyAfterExpiry' /\ ExpiredSourceIsGone'
<1> USE DEF IInv, eventVars, historyVars
<1>1. PICK t \in Slots : /\ t[1] = d /\ at[t] = "none" /\ at'[t] = "queued" /\ next'[t] = 1
                         /\ \A s \in Slots : s # t => at'[s] = at[s] /\ next'[s] = next[s]
  BY Enqueued
<1>2. Known' BY <1>1 DEF Known, Prepared
<1>3. Claims' BY <1>1 DEF Claims, CompletedMeansProcessed
<1>4. Held'
  <2> SUFFICES ASSUME active', NEW e \in Received' PROVE Somewhere(e)' BY DEF Held
  <2>1. Somewhere(e) /\ e \in Deliveries BY DEF Held, Received
  <2>2. Pending(e) => Pending(e)'
    <3>1. ASSUME NEW s \in Slots, s[1] = e, at[s] \in InQueue PROVE at'[s] \in InQueue
      BY <1>1, <3>1 DEF InQueue
    <3> QED BY <2>1, <3>1, PendingSlot DEF Pending, Slots
  <2> QED BY <2>1, <2>2 DEF Somewhere
<1> QED BY <1>2, <1>3, <1>4 DEF Counted, Marks, GapReachesReceipt, FalseGapOnlyAfterExpiry, ExpiredSourceIsGone

\* A consumer that keeps its message, whatever it claims on the way.
LEMMA MoveKeeps ==
  ASSUME IInv, NEW s \in Slots, NEW place \in InQueue, at[s] \in InQueue,
         at' = [at EXCEPT ![s] = place],
         next' \in [Slots -> Nat \ {0}], \A u \in Slots : u # s => next'[u] = next[u],
         place \in {"queued", "loaded"} => next'[s] = 1,
         place = "claimed" => \A k \in 1..Len(ItemsOf[s[1]]) : k < next'[s] => ItemsOf[s[1]][k] \in items',
         items \subseteq items', row \subseteq row', row' \subseteq row \cup {s[1]},
         UNCHANGED <<now, active, ingressVars, completed, dead, gaps, incident, replayer, sweep,
                     finished, expired>>
  PROVE  /\ Known' /\ Claims' /\ Marks' /\ Held'
         /\ GapReachesReceipt' /\ FalseGapOnlyAfterExpiry' /\ ExpiredSourceIsGone'
<1> USE DEF IInv, ingressVars
<1>1. at \in [Slots -> InQueue \cup {"none"}] /\ s[1] \in Received /\ s[1] \in Deliveries
  BY SlotIsPair DEF TypeOK, Known, Prepared, InQueue, Received
<1>2. at'[s] = place /\ \A u \in Slots : u # s => at'[u] = at[u] BY <1>1
<1>3. Known' BY <1>1, <1>2 DEF Known, Prepared, Received
<1>4. Claims' BY <1>2 DEF Claims, CompletedMeansProcessed
<1>5. Held'
  <2> SUFFICES ASSUME active', NEW e \in Received' PROVE Somewhere(e)' BY DEF Held
  <2>1. Somewhere(e) /\ e \in Deliveries BY DEF Held, Received
  <2>2. Pending(e) => Pending(e)'
    <3>1. ASSUME NEW u \in Slots, u[1] = e, at[u] \in InQueue PROVE at'[u] \in InQueue BY <1>2, <3>1
    <3> QED BY <2>1, <3>1, PendingSlot DEF Pending, Slots
  <2>3. Pending(s[1])'
    <3>1. at'[s] \in InQueue BY <1>2
    <3>2. s = <<s[1], s[2]>> BY DEF Slots
    <3> QED BY <3>1, <3>2, SlotIsPair DEF Pending
  <2> QED BY <2>1, <2>2, <2>3 DEF Somewhere
<1> QED BY <1>3, <1>4, <1>5 DEF Marks, GapReachesReceipt, FalseGapOnlyAfterExpiry, ExpiredSourceIsGone

\* A step that leaves the messages and the rows alone, and takes nothing out of R2 that
\* no row speaks for.
LEMMA StillKeeps ==
  ASSUME IInv, TypeOK', Received' = Received, UNCHANGED <<queueVars, row, completed, dead, gaps, historyVars, items>>,
         r2' \subseteq r2, r2 \ row \subseteq r2', sweep'.page \subseteq Received,
         Prepared' \subseteq Received,
         active' => active, now <= now', UNCHANGED receivedAt, UNCHANGED incident
  PROVE  IInv'
<1> USE DEF IInv, queueVars, historyVars
<1>1. Known'
  <2>1. now \in Nat /\ now' \in Nat /\ \A d \in Deliveries : receivedAt[d] \in Nat BY Numbers DEF TypeOK
  <2> QED BY <2>1 DEF Known, Prepared
<1>2. Claims' BY DEF Claims, CompletedMeansProcessed
<1>3. Held' BY DEF Held, Somewhere, Pending
<1> QED BY <1>1, <1>2, <1>3 DEF Counted, Marks, GapReachesReceipt, FalseGapOnlyAfterExpiry, ExpiredSourceIsGone

-----------------------------------------------------------------------------
\* Every nonempty set of naturals has a least element.
LEMMA Least == ASSUME NEW T, T \subseteq Nat, T # {} PROVE \E x \in T : \A y \in T : x <= y
<1> DEFINE R == {ss \in Nat \X Nat : ss[1] < ss[2]}
<1>0. R = OpToRel(<, Nat) BY DEF OpToRel
<1>a. IsWellFoundedOn(OpToRel(<, Nat), Nat) BY NatLessThanWellFounded
<1>1. IsWellFoundedOn(R, Nat) BY <1>0, <1>a
<1>2. PICK x \in T : \A y \in T : ~(<<y, x>> \in R)
  <2>1. \E x \in T : \A y \in T : ~(<<y, x>> \in R) BY <1>1, WFMin
  <2> QED BY <2>1
<1>3. ASSUME NEW y \in T PROVE x <= y
  <2>1. <<y, x>> \in Nat \X Nat /\ <<y, x>>[1] = y /\ <<y, x>>[2] = x OBVIOUS
  <2>2. ~(y < x) BY <1>2, <2>1
  <2> QED BY <2>2
<1> QED BY <1>3

\* A page that is not empty has a last object.
LEMMA LastOfPage == ASSUME NEW page, page \subseteq Deliveries, page # {} PROVE \E d \in page : page \subseteq 1..d
<1> DEFINE Bounds == {n \in Nat : page \subseteq 1..n}
<1>0. N \in Nat /\ page \subseteq 1..N BY IngestionAssumption DEF Deliveries
<1>1. N \in Bounds /\ 0 \notin Bounds
  <2>1. \A d \in page : d \notin 1..0 BY <1>0
  <2> QED BY <1>0, <2>1
<1>2. PICK x \in Bounds : \A y \in Bounds : x <= y BY <1>1, Least
<1>3. x - 1 \in Nat /\ x - 1 \notin Bounds
  <2>1. x \in Nat /\ x # 0 BY <1>1, <1>2
  <2>2. ~(x <= x - 1) /\ x - 1 \in Nat BY <2>1
  <2> QED BY <1>2, <2>2
<1>4. PICK d \in page : d \notin 1..(x - 1) BY <1>3
<1>5. d = x BY <1>2, <1>4 DEF Deliveries
<1> QED BY <1>2, <1>5

LEMMA CursorTyped ==
  ASSUME NEW after, NEW page \in SUBSET after, after \subseteq Deliveries, page = {} => after = {}
  PROVE  CursorAfter(page, after) \in 0..N
<1>1. CASE page = after BY <1>1, IngestionAssumption DEF CursorAfter
<1>2. CASE page # after
  <2>1. \E d \in page : page \subseteq 1..d
    <3>1. page # {} /\ page \subseteq Deliveries BY <1>2
    <3> QED BY <3>1, LastOfPage
  <2>2. CursorAfter(page, after) \in page BY <1>2, <2>1 DEF CursorAfter
  <2>3. CursorAfter(page, after) \in 1..N BY <2>2 DEF Deliveries
  <2> QED BY <2>3, IngestionAssumption
<1> QED BY <1>1, <1>2

\* A page of R2 is empty only when nothing is left after the checkpoint.
LEMMA PageNotEmpty ==
  ASSUME NEW after, after \subseteq Deliveries, Lowest(after, PageSize) = {}
  PROVE  after = {}
<1> SUFFICES ASSUME after # {} PROVE FALSE OBVIOUS
<1>1. after \subseteq Nat BY Numbers DEF Deliveries
<1>2. PICK x \in after : \A y \in after : x <= y BY <1>1, Least
<1>3. {e \in after : e < x} = {}
  <2>1. ASSUME NEW e \in after PROVE ~(e < x) BY <1>1, <1>2
  <2> QED BY <2>1
<1>4. Cardinality({e \in after : e < x}) = 0 BY <1>3, FS_EmptySet
<1>5. PageSize > 0 BY IngestionAssumption
<1> QED BY <1>4, <1>5, <1>2 DEF Lowest

-----------------------------------------------------------------------------
(* The steps, one by one.                                                  *)

LEMMA ReceiveKeeps == ASSUME IInv, NEW d \in Deliveries, Receive(d) PROVE IInv'
<1> USE Numbers DEF IInv, Receive, queueVars, eventVars, letterVars, sweepVars, historyVars
<1>1. TypeOK' BY DEF TypeOK
<1>2. Received' = Received \cup {d} /\ d \notin Received BY DEF Received, TypeOK
<1>3. Known'
  <2>1. now \in Nat BY DEF TypeOK
  <2>2. \A e \in Deliveries : receivedAt'[e] <= now' BY <2>1 DEF Known, Prepared, TypeOK
  <2> QED BY <1>2, <2>2 DEF Known, Prepared
<1>4. d \notin row \cup r2 \cup expired \cup dead BY <1>2 DEF Known, Prepared
<1>5. Held' BY <1>2, <1>4 DEF Held, Somewhere, Pending
<1>6. GapReachesReceipt'
  <2>1. \A e \in dead : receivedAt'[e] = receivedAt[e] BY <1>4 DEF TypeOK
  <2> QED BY <2>1 DEF GapReachesReceipt
<1>7. ExpiredSourceIsGone' BY <1>4 DEF ExpiredSourceIsGone
<1> QED
  BY <1>1, <1>3, <1>5, <1>6, <1>7
  DEF Counted, Claims, CompletedMeansProcessed, Marks, FalseGapOnlyAfterExpiry

LEMMA IngressKeeps == ASSUME IInv, NEW d \in Deliveries, Publish(d) \/ IngressFails(d) PROVE IInv'
<1> USE DEF IInv, queueVars, eventVars, letterVars, sweepVars, historyVars
<1>1. d \in Received BY DEF Publish, IngressFails, Received
<1>2. CASE Publish(d)
  <2>1. Received' = Received BY <1>2 DEF Publish, Received, TypeOK
  <2>2. TypeOK' BY <1>1, <1>2, Enqueued DEF Publish, TypeOK
  <2> QED BY <1>1, <1>2, <2>1, <2>2, EnqueueKeeps DEF Publish, Known, Prepared
<1>3. CASE IngressFails(d)
  <2>1. Received' = Received BY <1>3 DEF IngressFails, Received, TypeOK
  <2>2. TypeOK' BY <1>3 DEF IngressFails, TypeOK
  <2>3. now \in Nat BY Numbers DEF TypeOK
  <2> QED BY <1>3, <2>1, <2>2, <2>3, StillKeeps DEF IngressFails, Known, Prepared
<1> QED BY <1>2, <1>3

LEMMA ConsumeKeeps ==
  ASSUME IInv, NEW s \in Slots, LoadSource(s) \/ Prepare(s) \/ ProjectItem(s) \/ Fail(s)
  PROVE  IInv'
<1> USE DEF IInv, ingressVars, eventVars, letterVars, sweepVars, historyVars
<1>0. /\ s[1] \in Deliveries /\ at \in [Slots -> InQueue \cup {"none"}]
      /\ next \in [Slots -> Nat \ {0}] /\ tries \in [Slots -> 0..MaxRetries]
  BY SlotIsPair DEF TypeOK
<1>1. CASE LoadSource(s)
  <2>1. PICK place \in {"invalid", "loaded"} : Goto(s, place) BY <1>1 DEF LoadSource
  <2>2. TypeOK' BY <1>0, <1>1, <2>1 DEF LoadSource, Goto, TypeOK, InQueue
  <2>3. at[s] = "queued" /\ next[s] = 1 BY <1>1 DEF LoadSource, Claims
  <2>4. /\ at' = [at EXCEPT ![s] = place] /\ next' = next /\ Counted' /\ row' = row /\ items' = items
        /\ UNCHANGED <<now, active, ingressVars, completed, dead, gaps, incident, replayer, sweep,
                       finished, expired>>
    BY <1>1, <2>1 DEF LoadSource, Goto, Counted
  <2>5. place \in InQueue /\ at[s] \in InQueue /\ place # "claimed" BY <2>1, <2>3 DEF InQueue
  <2> QED BY <1>0, <2>2, <2>3, <2>4, <2>5, MoveKeeps
<1>2. CASE Prepare(s)
  <2>1. TypeOK' BY <1>0, <1>2 DEF Prepare, Goto, TypeOK, InQueue
  <2>2. \A k \in 1..Len(ItemsOf[s[1]]) : ~(k < next[s]) BY <1>0, <1>2, Numbers DEF Prepare, Claims
  <2> QED BY <1>0, <1>2, <2>1, <2>2, MoveKeeps DEF Prepare, Goto, InQueue, Counted
<1>3. CASE ProjectItem(s)
  <2> DEFINE i == ItemsOf[s[1]][next[s]]
  <2>1. next[s] \in 1..Len(ItemsOf[s[1]]) /\ i \in Items
    BY <1>0, <1>3, Numbers DEF ProjectItem
  <2>2. /\ items' = items \cup {i} /\ next' = [next EXCEPT ![s] = @ + 1]
        /\ projected' = [projected EXCEPT ![i] = IF i \notin items THEN @ + 1 ELSE @]
        /\ at[s] = "claimed" /\ at' = [at EXCEPT ![s] = "claimed"]
    BY <1>0, <1>3 DEF ProjectItem, NewItem
  <2>3. projected \in [Items -> Nat] /\ items \subseteq Items BY DEF TypeOK
  <2>4. Counted'
    <3> HIDE DEF i
    <3> QED BY <2>1, <2>2, <2>3 DEF Counted
  <2>5. next' \in [Slots -> Nat \ {0}] /\ next'[s] = next[s] + 1 /\ \A u \in Slots : u # s => next'[u] = next[u]
    BY <1>0, <2>2
  <2>6. items' \subseteq Items /\ projected' \in [Items -> Nat]
    <3> HIDE DEF i
    <3> QED BY <2>1, <2>2, <2>3
  <2>7. TypeOK' BY <1>3, <2>5, <2>6 DEF ProjectItem, TypeOK
  <2>8. \A k \in 1..Len(ItemsOf[s[1]]) : k < next'[s] => ItemsOf[s[1]][k] \in items'
    <3> SUFFICES ASSUME NEW k \in 1..Len(ItemsOf[s[1]]), k < next[s] + 1 PROVE ItemsOf[s[1]][k] \in items'
      BY <2>5
    <3>1. CASE k = next[s] BY <2>2, <3>1
    <3>2. CASE k < next[s] BY <2>2, <3>2 DEF Claims
    <3> QED BY <1>0, <3>1, <3>2, Numbers
  <2> HIDE DEF i
  <2> QED BY <1>3, <2>2, <2>4, <2>5, <2>7, <2>8, MoveKeeps DEF ProjectItem, InQueue
<1>4. CASE Fail(s)
  <2>1. PICK place \in {"queued", "dlq"} : at' = [at EXCEPT ![s] = place] BY <1>4 DEF Fail, LastStop
  <2>2. next' = [next EXCEPT ![s] = 1] /\ tries' \in [Slots -> 0..MaxRetries]
    BY <1>0, <1>4, Numbers DEF Fail, RetriesLeft
  <2>3. next' \in [Slots -> Nat \ {0}] /\ next'[s] = 1 /\ \A u \in Slots : u # s => next'[u] = next[u]
    BY <1>0, <2>2
  <2>4. at' \in [Slots -> InQueue \cup {"none"}] BY <1>0, <2>1 DEF InQueue
  <2>5. UNCHANGED <<now, active, ingressVars, eventVars, letterVars, sweepVars, historyVars>>
    BY <1>4 DEF Fail
  <2>6. TypeOK' BY <2>2, <2>3, <2>4, <2>5 DEF TypeOK
  <2>7. place \in InQueue /\ at[s] \in InQueue /\ place # "claimed" BY <1>4, <2>1 DEF Fail, InQueue
  <2>8. Counted' BY <2>5 DEF Counted
  <2> QED BY <2>1, <2>3, <2>5, <2>6, <2>7, <2>8, MoveKeeps
<1> QED BY <1>1, <1>2, <1>3, <1>4

LEMMA DuplicateKeeps == ASSUME IInv, NEW s \in Slots, Duplicate(s) PROVE IInv'
<1> USE DEF IInv, ingressVars, eventVars, letterVars, sweepVars, historyVars
<1>1. s[1] \in Received BY DEF Duplicate, Known, Prepared
<1>2. Received' = Received BY DEF Duplicate, Received
<1>3. TypeOK' BY <1>1, Enqueued DEF Duplicate, TypeOK
<1> QED BY <1>1, <1>2, <1>3, EnqueueKeeps DEF Duplicate, Known, Prepared

\* A message that is acknowledged: the other messages, and what was claimed, stay.
LEMMA Acked ==
  ASSUME IInv, NEW s \in Slots, Ack(s)
  PROVE  /\ at' \in [Slots -> InQueue \cup {"none"}] /\ UNCHANGED <<tries, next>>
         /\ at'[s] = "none" /\ \A u \in Slots : u # s => at'[u] = at[u]
         /\ s[1] \in Deliveries
         /\ \A e \in Deliveries : e # s[1] /\ Pending(e) => Pending(e)'
<1>1. at \in [Slots -> InQueue \cup {"none"}] BY DEF IInv, TypeOK
<1>2. at' = [at EXCEPT ![s] = "none"] /\ UNCHANGED <<tries, next>> BY DEF Ack, Goto
<1>3. \A u \in Slots : u # s => at'[u] = at[u] BY <1>1, <1>2
<1>4. ASSUME NEW e \in Deliveries, e # s[1], Pending(e) PROVE Pending(e)'
  <2>1. PICK u \in Slots : u[1] = e /\ at[u] \in InQueue BY <1>4, PendingSlot
  <2>2. at'[u] \in InQueue /\ u = <<u[1], u[2]>> /\ u[2] \in Copies BY <1>3, <1>4, <2>1, SlotIsPair
  <2> QED BY <2>1, <2>2 DEF Pending
<1> QED BY <1>1, <1>2, <1>3, <1>4, SlotIsPair

LEMMA CompleteKeeps == ASSUME IInv, NEW s \in Slots, Complete(s) PROVE IInv'
<1> DEFINE d == s[1]
<1> USE DEF IInv, ingressVars, sweepVars
<1>1. /\ Ack(s) /\ at[s] = "claimed" /\ next[s] > Len(ItemsOf[d]) /\ d \in row
      /\ completed' = completed \cup {d} /\ finished' = finished \cup {d}
      /\ gaps' = {Resolved(g, d) : g \in gaps}
      /\ UNCHANGED <<now, active, ingressVars, row, dead, items, incident, replay, replayer, sweepVars, expired, projected>>
  BY DEF Complete, NothingLeft
<1>2. /\ d \in Deliveries /\ \A u \in Slots : at'[u] = at[u] \/ at'[u] = "none"
      /\ UNCHANGED <<tries, next>> /\ at' \in [Slots -> InQueue \cup {"none"}]
  BY <1>1, Acked
<1>3. now \in 0..MaxTime /\ now # Open /\ gaps \subseteq [evidence : 0..N, starts : 0..MaxTime, ends : Open..MaxTime]
  BY Numbers DEF TypeOK, Open
<1>4. \A g \in gaps : /\ Resolved(g, d) \in [evidence : 0..N, starts : 0..MaxTime, ends : Open..MaxTime]
                      /\ Resolved(g, d).evidence = g.evidence
                      /\ IF g.evidence = d /\ g.ends = Open THEN Resolved(g, d).ends = now ELSE Resolved(g, d) = g
  BY <1>3 DEF Resolved, Open
<1> HIDE DEF d
<1>5. gaps' \subseteq [evidence : 0..N, starts : 0..MaxTime, ends : Open..MaxTime] BY <1>1, <1>4
<1>6. TypeOK' BY <1>1, <1>2, <1>5 DEF TypeOK
<1>7. Known' /\ Counted' BY <1>1, <1>2 DEF Known, Prepared, Counted, Received
<1>8. Claims'
  <2>1. \A k \in 1..Len(ItemsOf[d]) : ItemsOf[d][k] \in items
    <3>1. Len(ItemsOf[d]) \in Nat /\ next[s] \in Nat BY <1>2, Numbers DEF TypeOK
    <3>2. \A k \in 1..Len(ItemsOf[d]) : k < next[s] BY <1>1, <3>1
    <3> QED BY <1>1, <3>2 DEF Claims, d
  <2> QED BY <1>1, <1>2, <2>1 DEF Claims, CompletedMeansProcessed
<1>9. Marks' BY <1>1 DEF Marks
<1>10. Held'
  <2>1. \A e \in Deliveries : e # d /\ Pending(e) => Pending(e)' BY <1>1, Acked DEF d
  <2> QED BY <1>1, <2>1 DEF Held, Somewhere, Received
<1>11. GapReachesReceipt'
  <2> SUFFICES ASSUME NEW e \in dead PROVE \E g \in gaps' : g.ends = Open \/ g.ends >= receivedAt[e]
    BY <1>1 DEF GapReachesReceipt
  <2>1. PICK g \in gaps : g.ends = Open \/ g.ends >= receivedAt[e] BY DEF GapReachesReceipt
  <2>2. Resolved(g, d) \in gaps' BY <1>1
  <2>3. receivedAt[e] <= now BY DEF Known, Prepared, TypeOK
  <2>4. receivedAt[e] \in Nat /\ now \in Nat BY Numbers DEF TypeOK
  <2>5. Resolved(g, d).ends = Open \/ Resolved(g, d).ends >= receivedAt[e] BY <1>4, <2>1, <2>3, <2>4
  <2> QED BY <2>2, <2>5
<1>12. FalseGapOnlyAfterExpiry'
  <2> SUFFICES ASSUME NEW h \in gaps', NEW e \in finished', h.evidence = e, h.ends = Open PROVE e \in expired
    BY <1>1 DEF FalseGapOnlyAfterExpiry
  <2>1. PICK g \in gaps : h = Resolved(g, d) BY <1>1
  <2>2. h = g /\ e # d BY <1>3, <1>4, <2>1
  <2> QED BY <1>1, <2>2 DEF FalseGapOnlyAfterExpiry
<1>13. ExpiredSourceIsGone' BY <1>1 DEF ExpiredSourceIsGone
<1> QED BY <1>6, <1>7, <1>8, <1>9, <1>10, <1>11, <1>12, <1>13

LEMMA DeadLetterKeeps == ASSUME IInv, NEW s \in Slots, DeadLetter(s) PROVE IInv'
<1> DEFINE d == s[1]
<1> USE DEF IInv, ingressVars, sweepVars, historyVars
<1>1. /\ Ack(s) /\ at[s] # "none" /\ row' = row \cup {d}
      /\ UNCHANGED <<now, active, ingressVars, completed, items, replay, replayer, sweepVars, historyVars>>
  BY DEF DeadLetter
<1>2. /\ d \in Deliveries /\ \A u \in Slots : at'[u] = at[u] \/ at'[u] = "none"
      /\ UNCHANGED <<tries, next>> /\ at' \in [Slots -> InQueue \cup {"none"}]
      /\ d \in Received
  BY <1>1, Acked DEF Known, Prepared
<1>3. CASE AlreadyCompleted(d)
  <2>1. UNCHANGED <<dead, gaps, incident>> /\ d \in finished
    BY <1>3 DEF DeadLetter, AlreadyCompleted, Marks
  <2> HIDE DEF d
  <2>2. TypeOK' BY <1>1, <1>2, <2>1 DEF TypeOK
  <2>3. Known' /\ Counted' BY <1>1, <1>2, <2>1 DEF Known, Prepared, Counted, Received
  <2>4. Claims' BY <1>1, <1>2 DEF Claims, CompletedMeansProcessed
  <2>5. Held'
    <3>1. \A e \in Deliveries : e # d /\ Pending(e) => Pending(e)' BY <1>1, Acked DEF d
    <3> QED BY <1>1, <2>1, <3>1 DEF Held, Somewhere, Received
  <2> QED BY <1>1, <2>1, <2>2, <2>3, <2>4, <2>5
          DEF Marks, GapReachesReceipt, FalseGapOnlyAfterExpiry, ExpiredSourceIsGone
<1>4. CASE ~AlreadyCompleted(d)
  <2>1. /\ dead' = dead \cup {d} /\ gaps' = GapsAfterDeadLetter(d)
        /\ \E g \in gaps' : g.ends = Open
        /\ incident' = [incident EXCEPT ![d] = "linked"] /\ d \notin completed
    BY <1>4 DEF DeadLetter, AlreadyCompleted
  <2> HIDE DEF d
  <2>2. [evidence |-> d, starts |-> receivedAt[d], ends |-> Open]
          \in [evidence : 0..N, starts : 0..MaxTime, ends : Open..MaxTime]
    BY <1>2, Numbers DEF TypeOK, Open
  <2>3. TypeOK'
    <3>1. gaps' \subseteq [evidence : 0..N, starts : 0..MaxTime, ends : Open..MaxTime]
      BY <2>1, <2>2 DEF GapsAfterDeadLetter, TypeOK
    <3> QED BY <1>1, <1>2, <2>1, <3>1 DEF TypeOK
  <2>4. Known' /\ Counted' BY <1>1, <1>2, <2>1 DEF Known, Prepared, Counted, Received
  <2>5. Claims' BY <1>1, <1>2 DEF Claims, CompletedMeansProcessed
  <2>6. Held'
    <3>1. \A e \in Deliveries : e # d /\ Pending(e) => Pending(e)' BY <1>1, Acked DEF d
    <3>2. incident'[d] = "linked" /\ \A e \in Deliveries : e # d => incident'[e] = incident[e]
      BY <1>2, <2>1 DEF TypeOK
    <3> QED BY <1>1, <2>1, <3>1, <3>2 DEF Held, Somewhere, Received
  <2>7. GapReachesReceipt' BY <2>1 DEF GapReachesReceipt
  <2>8. FalseGapOnlyAfterExpiry'
    <3>1. ASSUME d \in finished PROVE d \in expired BY <2>1, <3>1 DEF Marks
    <3> QED BY <1>1, <2>1, <3>1 DEF GapsAfterDeadLetter, FalseGapOnlyAfterExpiry
  <2> QED BY <1>1, <2>3, <2>4, <2>5, <2>6, <2>7, <2>8 DEF Marks, ExpiredSourceIsGone
<1> QED BY <1>3, <1>4

LEMMA UnavailableKeeps == ASSUME IInv, NEW s \in Slots, DeadLetterUnavailable(s) PROVE IInv'
<1> USE DEF IInv, DeadLetterUnavailable, ingressVars, eventVars, letterVars, sweepVars, historyVars
<1>1. /\ \A u \in Slots : at'[u] = at[u] \/ at'[u] = "none"
      /\ UNCHANGED <<tries, next>> /\ at' \in [Slots -> InQueue \cup {"none"}]
  BY Acked
<1>2. TypeOK' BY <1>1 DEF TypeOK
<1>3. Known' /\ Counted' /\ Held' BY <1>1 DEF Known, Prepared, Counted, Received, Held
<1>4. Claims' BY <1>1 DEF Claims, CompletedMeansProcessed
<1> QED BY <1>2, <1>3, <1>4 DEF Marks, GapReachesReceipt, FalseGapOnlyAfterExpiry, ExpiredSourceIsGone

LEMMA SweepKeeps ==
  ASSUME IInv, SweepList \/ SweepFilter \/ SweepSave \/ SweepFails
  PROVE  IInv'
<1> USE DEF ingressVars, queueVars, eventVars, letterVars, historyVars
<1>1. now \in Nat /\ now <= now BY Numbers DEF IInv, TypeOK
<1>2. UNCHANGED <<now, active, ingressVars, queueVars, eventVars, letterVars, historyVars>>
  BY DEF SweepList, SweepFilter, SweepSave, SweepFails
<1>3. Received' = Received /\ Prepared' \subseteq Received BY <1>2 DEF Received, IInv, Known, Prepared
<1>4. cursor' \in 0..N /\ sweep' \in [phase : {"idle", "listed", "publishing"}, page : SUBSET Deliveries, upto : 0..N]
      /\ sweep'.page \subseteq Received
  <2>1. CASE SweepList
    <3> DEFINE after == {d \in r2 : d > cursor}
               page == Lowest(after, PageSize)
               aged == {d \in page : receivedAt[d] + Grace <= now}
    <3>1. after \subseteq Deliveries /\ page \subseteq after /\ aged \subseteq r2 /\ r2 \subseteq Deliveries /\ r2 \subseteq Received
      BY DEF IInv, TypeOK, Known, Prepared, Lowest
    <3>2. sweep' = [phase |-> "listed", page |-> aged, upto |-> CursorAfter(page, after)] /\ cursor' = cursor
      BY <2>1 DEF SweepList
    <3>3. page = {} => after = {} BY <3>1, PageNotEmpty
    <3> HIDE DEF after, page, aged
    <3>4. CursorAfter(page, after) \in 0..N BY <3>1, <3>3, CursorTyped
    <3> QED BY <3>1, <3>2, <3>4 DEF IInv, TypeOK
  <2>2. CASE SweepFilter
    <3>1. sweep \in [phase : {"idle", "listed", "publishing"}, page : SUBSET Deliveries, upto : 0..N]
          /\ sweep.page \subseteq Received /\ cursor \in 0..N
      BY DEF IInv, TypeOK, Known, Prepared
    <3>2. PICK page \in SUBSET sweep.page : sweep' = [sweep EXCEPT !.phase = "publishing", !.page = page]
      BY <2>2 DEF SweepFilter
    <3> QED BY <2>2, <3>1, <3>2 DEF SweepFilter
  <2>3. CASE SweepSave BY <2>3, IngestionAssumption DEF SweepSave, Idle, IInv, TypeOK
  <2>4. CASE SweepFails BY <2>4, IngestionAssumption DEF SweepFails, Idle, IInv, TypeOK
  <2> QED BY <2>1, <2>2, <2>3, <2>4
<1>5. TypeOK' BY <1>2, <1>4 DEF IInv, TypeOK
<1> QED BY <1>1, <1>2, <1>3, <1>4, <1>5, StillKeeps

LEMMA SweepPublishKeeps == ASSUME IInv, NEW d \in Deliveries, SweepPublish(d) PROVE IInv'
<1> USE DEF IInv, ingressVars, eventVars, letterVars, historyVars
<1>1. d \in Received BY DEF SweepPublish, Known, Prepared
<1>2. Received' = Received /\ Prepared' \subseteq Received BY DEF SweepPublish, Received, Known, Prepared
<1>3. sweep' \in [phase : {"idle", "listed", "publishing"}, page : SUBSET Deliveries, upto : 0..N]
      /\ sweep'.page \subseteq Received
  BY DEF SweepPublish, TypeOK, Known, Prepared
<1>4. TypeOK' BY <1>1, <1>3, Enqueued DEF SweepPublish, TypeOK
<1> QED BY <1>1, <1>2, <1>3, <1>4, EnqueueKeeps DEF SweepPublish

LEMMA ReplayKeeps == ASSUME IInv, NEW d \in Deliveries, ReplayStep(d) PROVE IInv'
<1> USE DEF IInv, ingressVars, queueVars, eventVars, letterVars, sweepVars, historyVars
<1>1. CASE PublishReplay(d)
  <2>1. d \in Received
    BY <1>1 DEF PublishReplay, Known, Prepared
  <2>2. Received' = Received BY <1>1 DEF PublishReplay, Received
  <2>3. replayer' \in [Deliveries -> {"idle", "prepared", "published"}] BY <1>1 DEF PublishReplay, TypeOK
  <2>4. TypeOK' BY <1>1, <2>1, <2>3, Enqueued DEF PublishReplay, TypeOK
  <2> QED BY <1>1, <2>1, <2>2, <2>4, EnqueueKeeps DEF PublishReplay, Known, Prepared
<1>2. CASE PrepareReplay(d) \/ CompleteReplay(d) \/ ReplayFails(d)
  <2>1. UNCHANGED <<now, active, ingressVars, queueVars, eventVars, gaps, incident, sweepVars, historyVars>>
    BY <1>2 DEF PrepareReplay, CompleteReplay, ReplayFails
  <2>2. /\ replay' \in [Deliveries -> {"none", "pending", "dispatched", "unavailable"}]
        /\ replayer' \in [Deliveries -> {"idle", "prepared", "published"}]
    BY <1>2 DEF PrepareReplay, CompleteReplay, ReplayFails, TypeOK
  <2>3. TypeOK' BY <2>1, <2>2 DEF TypeOK
  <2>4. now \in Nat BY Numbers DEF TypeOK
  <2>5. Prepared' \subseteq Received
    BY <1>2 DEF PrepareReplay, CompleteReplay, ReplayFails, TypeOK, Known, Prepared
  <2> QED BY <2>1, <2>3, <2>4, <2>5, StillKeeps DEF Known, Received
<1> QED BY <1>1, <1>2 DEF ReplayStep

LEMMA RetainKeeps == ASSUME IInv, NEW d \in Deliveries, Retain(d) PROVE IInv'
<1> USE DEF IInv, ingressVars, queueVars, sweepVars, historyVars
<1>1. CASE DeleteExpiredSource(d)
  <2>1. TypeOK' BY <1>1 DEF DeleteExpiredSource, TypeOK, eventVars, letterVars
  <2>2. now \in Nat BY Numbers DEF TypeOK
  <2> QED BY <1>1, <2>1, <2>2, StillKeeps DEF DeleteExpiredSource, Listed, Known, Prepared, Received, eventVars, letterVars
<1>2. CASE FinalizeExpiredSource(d)
  <2> DEFINE Forgot(g) == IF g.evidence = d THEN [g EXCEPT !.evidence = NoEvidence] ELSE g
  <2>1. /\ d \in row /\ d \notin r2 /\ d \in Deliveries
        /\ row' = row \ {d} /\ completed' = completed \ {d} /\ dead' = dead \ {d}
        /\ gaps' = {Forgot(g) : g \in gaps} /\ expired' = expired \cup {d}
        /\ incident' = [incident EXCEPT ![d] = IF @ = "linked" THEN "orphan" ELSE @]
        /\ UNCHANGED <<now, active, ingressVars, queueVars, items, replay, replayer, sweepVars, finished, projected>>
    BY <1>2 DEF FinalizeExpiredSource, SourceGone
  <2>2. gaps \subseteq [evidence : 0..N, starts : 0..MaxTime, ends : Open..MaxTime] BY DEF TypeOK
  <2>3. \A g \in gaps : /\ Forgot(g) \in [evidence : 0..N, starts : 0..MaxTime, ends : Open..MaxTime]
                        /\ Forgot(g).ends = g.ends
                        /\ Forgot(g).evidence = IF g.evidence = d THEN NoEvidence ELSE g.evidence
    BY <2>2, Numbers DEF NoEvidence
  <2> HIDE DEF Forgot
  <2>4. TypeOK'
    <3>1. gaps' \subseteq [evidence : 0..N, starts : 0..MaxTime, ends : Open..MaxTime] BY <2>1, <2>3
    <3> QED BY <2>1, <3>1 DEF TypeOK
  <2>5. Known' /\ Counted' BY <2>1 DEF Known, Prepared, Counted, Received
  <2>6. Claims' BY <2>1 DEF Claims, CompletedMeansProcessed
  <2>7. Marks' BY <2>1 DEF Marks
  <2>8. Held'
    <3>1. \A e \in Deliveries : e # d => incident'[e] = incident[e] BY <2>1 DEF TypeOK
    <3> QED BY <2>1, <3>1 DEF Held, Somewhere, Received, Pending
  <2>9. GapReachesReceipt'
    <3> SUFFICES ASSUME NEW e \in dead PROVE \E h \in gaps' : h.ends = Open \/ h.ends >= receivedAt[e]
      BY <2>1 DEF GapReachesReceipt
    <3>1. PICK g \in gaps : g.ends = Open \/ g.ends >= receivedAt[e] BY DEF GapReachesReceipt
    <3> QED BY <2>1, <2>3, <3>1
  <2>10. FalseGapOnlyAfterExpiry'
    <3> SUFFICES ASSUME NEW h \in gaps', NEW e \in finished, h.evidence = e, h.ends = Open PROVE e \in expired'
      BY <2>1 DEF FalseGapOnlyAfterExpiry
    <3>1. PICK g \in gaps : h = Forgot(g) BY <2>1
    <3>2. e # NoEvidence BY Numbers DEF TypeOK
    <3> QED BY <2>1, <2>3, <3>1, <3>2 DEF FalseGapOnlyAfterExpiry
  <2>11. ExpiredSourceIsGone' BY <2>1 DEF ExpiredSourceIsGone
  <2> QED BY <2>4, <2>5, <2>6, <2>7, <2>8, <2>9, <2>10, <2>11
<1> QED BY <1>1, <1>2 DEF Retain

LEMMA SurroundingsKeep == ASSUME IInv, BeginDeletion \/ Tick PROVE IInv'
<1> USE Numbers DEF IInv, ingressVars, queueVars, eventVars, letterVars, sweepVars, historyVars
<1>1. now \in Nat BY DEF TypeOK
<1>2. TypeOK'
  <2>1. CASE BeginDeletion BY <2>1 DEF BeginDeletion, TypeOK
  <2>2. CASE Tick
    <3>1. now' \in 0..MaxTime BY <2>2 DEF Tick, TypeOK
    <3>2. UNCHANGED <<active, ingressVars, queueVars, eventVars, letterVars, sweepVars, historyVars>>
      BY <2>2 DEF Tick
    <3> QED BY <3>1, <3>2 DEF TypeOK
  <2> QED BY <2>1, <2>2
<1> QED BY <1>1, <1>2, StillKeeps DEF BeginDeletion, Tick, Known, Prepared, Received

LEMMA StutterKeeps == ASSUME IInv, UNCHANGED vars PROVE IInv'
<1> USE DEF IInv, vars, ingressVars, queueVars, eventVars, letterVars, sweepVars, historyVars
<1>1. TypeOK' BY DEF TypeOK
<1>2. now \in Nat BY Numbers DEF TypeOK
<1> QED BY <1>1, <1>2, StillKeeps DEF Known, Prepared, Received

LEMMA StepIInv == IInv /\ [Next]_vars => IInv'
<1> SUFFICES ASSUME IInv, [Next]_vars PROVE IInv' OBVIOUS
<1>1. ASSUME NEW d \in Deliveries, Ingress(d) \/ ReplayStep(d) \/ Retain(d) PROVE IInv'
  BY <1>1, ReceiveKeeps, IngressKeeps, ReplayKeeps, RetainKeeps DEF Ingress
<1>2. ASSUME NEW s \in Slots, Consume(s) \/ Settle(s) \/ Duplicate(s) PROVE IInv'
  BY <1>2, ConsumeKeeps, CompleteKeeps, DeadLetterKeeps, UnavailableKeeps, DuplicateKeeps DEF Consume, Settle
<1>3. CASE Sweep \/ SweepFails BY <1>3, SweepKeeps, SweepPublishKeeps DEF Sweep
<1> QED BY <1>1, <1>2, <1>3, SurroundingsKeep, StutterKeeps DEF Next

LEMMA Invariant == Spec => []IInv
BY InitIInv, StepIInv, PTL DEF Spec

-----------------------------------------------------------------------------
\* The variables have their types; an object the sweep continues from is one of R2's.
THEOREM TypeCorrectness == Spec => []TypeOK
BY Invariant, PTL DEF IInv

\* A stored delivery is never forgotten: it is completed, pending, a dead letter with its
\* incident, or still to be found in R2.
THEOREM NotStrandedHolds == Spec => []NotStranded
<1>1. IInv => NotStranded BY DEF IInv, Held, Somewhere, NotStranded, Received
<1> QED BY <1>1, Invariant, PTL

\* An item is projected once, whatever is delivered again (claimWebhookItem).
THEOREM ItemOnceHolds == Spec => []ItemOnce
<1>1. IInv => ItemOnce BY DEF IInv, Counted, ItemOnce
<1> QED BY <1>1, Invariant, PTL

\* An event is complete only when each of its items was claimed (persistence.complete).
THEOREM CompletedMeansProcessedHolds == Spec => []CompletedMeansProcessed
BY Invariant, PTL DEF IInv, Claims

\* The gap of a dead letter reaches its receipt (record_webhook_dead_letter_gap).
THEOREM GapReachesReceiptHolds == Spec => []GapReachesReceipt
BY Invariant, PTL DEF IInv

\* A late copy opens no gap for an event whose row still marks it complete.
THEOREM FalseGapOnlyAfterExpiryHolds == Spec => []FalseGapOnlyAfterExpiry
BY Invariant, PTL DEF IInv

\* Retention forgets an event only when its ciphertext is gone (handleWebhookSourceRetention).
THEOREM ExpiredSourceIsGoneHolds == Spec => []ExpiredSourceIsGone
BY Invariant, PTL DEF IInv
=============================================================================
