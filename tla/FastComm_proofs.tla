--------------------------- MODULE FastComm_proofs ---------------------------
(* Proofs about the two-rank collectives, for every number of channels, of   *)
(* kernel blocks and of slots from two on: CommInv is inductive, no slot is   *)
(* reused too early, and the operations exchange their messages exactly.     *)
EXTENDS FastComm, FiniteSetTheorems, TLAPS

(* Division with remainder.                                                  *)
LEMMA Division ==
  ASSUME NEW S \in Nat, S >= 1, NEW a \in Nat
  PROVE  a = S * (a \div S) + (a % S) /\ a \div S \in Int /\ a % S \in 0..S-1
OBVIOUS

(* Sequences less than the number of slots apart use different slots.        *)
LEMMA SlotsApart ==
  ASSUME NEW p \in Nat, NEW q \in Nat, p < q, q < p + Slots
  PROVE  SlotOf(p) # SlotOf(q)
<1> USE SlotAssumption
<1> DEFINE k == p \div Slots
           m == q \div Slots
<1>1. /\ p = Slots * k + (p % Slots) /\ k \in Int /\ p % Slots \in 0..Slots-1
      /\ q = Slots * m + (q % Slots) /\ m \in Int /\ q % Slots \in 0..Slots-1
  BY Division
<1> HIDE DEF k, m
<1>2. m > k => Slots * m >= Slots * k + Slots
  BY <1>1
<1>3. m <= k => Slots * m <= Slots * k
  BY <1>1
<1> QED
  BY <1>1, <1>2, <1>3 DEF SlotOf

(* Every sequence has a slot of the ring.                                   *)
LEMMA SlotInRing == \A q \in Nat : SlotOf(q) \in SlotIds
  BY SlotAssumption, Division DEF SlotOf, SlotIds

(* The ends of the channels come in pairs.                                   *)
LEMMA Pairs ==
  \A e \in Ends : Peer(e) \in Ends /\ Peer(Peer(e)) = e /\ Peer(e) # e /\ e[1] \in Ranks
  BY DEF Ends, Peer, Ranks

(* How far the parts of the two ranks can be from each other.                *)
LEMMA Near ==
  ASSUME CommInv, NEW e \in Ends
  PROVE  /\ seq[e] <= sent[e] + 2
         /\ kernel[e] # "finish" => seq[e] <= sent[e] + 1
         /\ sent[e] <= last[e] /\ last[e] <= seq[e]
         /\ seq[e] <= ended[Peer(e)] + 2
<1> DEFINE p == Peer(e)
<1>1. p \in Ends /\ Peer(p) = e
  BY Pairs
<1>2. CommTypeOK /\ Order(e) /\ Order(p)
  BY <1>1 DEF CommInv
<1> HIDE DEF p
<1>3. /\ seq[e] \in Nat /\ sent[e] \in Nat /\ last[e] \in Nat /\ ended[e] \in Nat
      /\ seq[p] \in Nat /\ sent[p] \in Nat /\ last[p] \in Nat /\ ended[p] \in Nat
  BY <1>1, <1>2 DEF CommTypeOK
<1>4. /\ sent[e] <= last[e] /\ last[e] <= seq[e]
      /\ seq[e] = IF kernel[e] = "finish" THEN ended[e] + 1 ELSE ended[e]
      /\ sent[p] <= last[p] /\ last[p] <= seq[p]
      /\ seq[p] = IF kernel[p] = "finish" THEN ended[p] + 1 ELSE ended[p]
      /\ ended[p] <= sent[e]
      /\ ended[e] <= sent[p]
  BY <1>1, <1>2 DEF Order, p
<1> QED
  BY <1>3, <1>4 DEF p

(* A kernel has at least one block.                                         *)
LEMMA BlockCount == Cardinality(Blocks) \in Nat \ {0}
  BY BlockAssumption, FS_CardinalityType, FS_EmptySet

(* When all but one block have arrived and that one arrives, all have.       *)
LEMMA LastArrival ==
  ASSUME NEW A \in SUBSET Blocks, NEW b \in Blocks, b \notin A,
         Cardinality(A) + 1 = Cardinality(Blocks)
  PROVE  A \cup {b} = Blocks
<1>1. IsFiniteSet(A) /\ IsFiniteSet(A \cup {b})
  BY BlockAssumption, FS_Subset, FS_AddElement
<1>2. Cardinality(A \cup {b}) = Cardinality(Blocks)
  BY <1>1, FS_AddElement
<1> QED
  BY <1>2, BlockAssumption, FS_Subset

(* One more block that has arrived is counted.                              *)
LEMMA OneMore ==
  ASSUME NEW A \in SUBSET Blocks, NEW b \in Blocks, b \notin A
  PROVE  Cardinality(A \cup {b}) = Cardinality(A) + 1 /\ Cardinality(A) \in Nat
BY BlockAssumption, FS_Subset, FS_AddElement, FS_CardinalityType

(* The nested arrays of the model, one entry changed.                        *)
LEMMA WordSet ==
  ASSUME NEW f \in [Ends -> [SlotIds -> [Blocks -> Nat]]], NEW e \in Ends, NEW s \in SlotIds,
         NEW b \in Blocks, NEW v \in Nat
  PROVE  /\ [f EXCEPT ![e][s][b] = v] \in [Ends -> [SlotIds -> [Blocks -> Nat]]]
         /\ \A d \in Ends, t \in SlotIds, c \in Blocks :
              [f EXCEPT ![e][s][b] = v][d][t][c] =
                IF d = e /\ t = s /\ c = b THEN v ELSE f[d][t][c]
OBVIOUS

(* Writing one slot of one end leaves every other slot as it was.           *)
LEMMA SlotSet ==
  ASSUME NEW f \in [Ends -> [SlotIds -> Nat]], NEW e \in Ends, NEW s \in SlotIds, NEW v \in Nat
  PROVE  /\ [f EXCEPT ![e][s] = v] \in [Ends -> [SlotIds -> Nat]]
         /\ \A d \in Ends, t \in SlotIds :
              [f EXCEPT ![e][s] = v][d][t] = IF d = e /\ t = s THEN v ELSE f[d][t]
OBVIOUS

(* Moving one block of one end leaves every other block as it was.          *)
LEMMA BlockSet ==
  ASSUME NEW V, NEW f \in [Ends -> [Blocks -> V]], NEW e \in Ends, NEW b \in Blocks, NEW v \in V
  PROVE  /\ [f EXCEPT ![e][b] = v] \in [Ends -> [Blocks -> V]]
         /\ \A d \in Ends, c \in Blocks :
              [f EXCEPT ![e][b] = v][d][c] = IF d = e /\ c = b THEN v ELSE f[d][c]
OBVIOUS

-----------------------------------------------------------------------------
(* What CommInv says of one end, and when it carries over.                   *)
Facts(e) == Order(e) /\ Bells(e) /\ Staged(e) /\ Held(e) /\ Output(e) /\ Idle(e)

SameAt(e) ==
  /\ seq'[e] = seq[e] /\ kernel'[e] = kernel[e] /\ block'[e] = block[e]
  /\ arrivals'[e] = arrivals[e] /\ send'[e] = send[e] /\ bell'[e] = bell[e]
  /\ last'[e] = last[e] /\ sent'[e] = sent[e] /\ landed'[e] = landed[e]
  /\ recv'[e] = recv[e] /\ flag'[e] = flag[e] /\ out'[e] = out[e] /\ ended'[e] = ended[e]
  /\ sent'[Peer(e)] = sent[Peer(e)] /\ recv'[Peer(e)] = recv[Peer(e)]

(* What the invariant says of an end depends on these variables only.       *)
LEMMA FactsSame ==
  ASSUME NEW e \in Ends, Facts(e), SameAt(e)
  PROVE  Facts(e)'
<1>1. Order(e)'
  BY DEF Facts, SameAt, Order
<1>2. Bells(e)'
  BY DEF Facts, SameAt, Bells
<1>3. Staged(e)'
  BY DEF Facts, SameAt, Staged, Arrivers, Staging
<1>4. Held(e)'
  BY DEF Facts, SameAt, Held, Sending
<1>5. Output(e)'
  BY DEF Facts, SameAt, Output
<1>6. Idle(e)'
  BY DEF Facts, SameAt, Idle
<1> QED
  BY <1>1, <1>2, <1>3, <1>4, <1>5, <1>6 DEF Facts

(* A step of one end keeps CommInv if it keeps what is said of that end.     *)
LEMMA OneEnd ==
  ASSUME CommInv, CommTypeOK', NEW e \in Ends, \A d \in Ends \ {e} : SameAt(d), Facts(e)'
  PROVE  CommInv'
<1>1. ASSUME NEW d \in Ends
      PROVE  Facts(d)'
  BY FactsSame DEF CommInv, Facts
<1> QED
  BY <1>1 DEF CommInv, Facts

(* A stage kernel that reaches the head of the stream (Issue).              *)
LEMMA IssueKeeps ==
  ASSUME CommInv, NEW e \in Ends, Issue(e)
  PROVE  CommInv'
<1>1. CommTypeOK /\ Facts(e) /\ e[1] \in Ranks
  BY Pairs DEF CommInv, Facts
<1>2. CommTypeOK'
  BY <1>1 DEF Issue, Launch, CommTypeOK, nicVars
<1>3. \A d \in Ends \ {e} : SameAt(d)
  BY <1>1, Pairs DEF Issue, Launch, CommTypeOK, nicVars, SameAt
<1>4. /\ kernel[e] = "none" /\ kernel'[e] = "stage"
      /\ block'[e] = [b \in Blocks |-> "start"]
      /\ UNCHANGED <<seq, arrivals, send, bell, last, sent, landed, recv, flag, out, ended>>
  BY <1>1 DEF Issue, Launch, Runs, CommTypeOK, nicVars
<1>5. Order(e)'
  BY <1>1, <1>4 DEF Facts, Order
<1>6. Staged(e)'
  <2>1. Arrivers(e)' = {} /\ arrivals'[e] = 0
    BY <1>1, <1>4 DEF Arrivers, Facts, Idle
  <2> QED
    BY <1>4, <2>1, FS_EmptySet DEF Staged
<1>7. Bells(e)' /\ Held(e)'
  BY <1>1, <1>4 DEF Facts, Bells, Held, Sending
<1>8. Output(e)' /\ Idle(e)'
  BY <1>4 DEF Output, Idle
<1> QED
  BY <1>2, <1>3, <1>5, <1>6, <1>7, <1>8, OneEnd DEF Facts

(* A block copies its share to the send slot (StageCopy).                   *)
LEMMA StageCopyKeeps ==
  ASSUME CommInv, NEW e \in Ends, NEW b \in Blocks, StageCopy(e, b)
  PROVE  CommInv'
<1>1. CommTypeOK /\ Facts(e) /\ e[1] \in Ranks /\ Staging(e) \in Nat
  BY Pairs DEF CommInv, Facts, CommTypeOK, Staging
<1> DEFINE s == SlotOf(Staging(e))
<1>2. s \in SlotIds
  BY <1>1, SlotInRing
<1>3. /\ kernel[e] = "stage" /\ block[e][b] = "start"
      /\ block' = [block EXCEPT ![e][b] = "copied"]
      /\ send' = [send EXCEPT ![e][s][b] = Staging(e)]
      /\ UNCHANGED <<seq, kernel, arrivals, last, bell, sent, landed, recv, flag, out, ended, got,
                     error, trapped>>
  BY <1>1 DEF StageCopy, Runs, CommTypeOK, nicVars
<1> HIDE DEF s
<1>4. /\ block' \in [Ends -> [Blocks -> {"start", "copied", "done"}]]
      /\ \A d \in Ends, c \in Blocks :
           block'[d][c] = IF d = e /\ c = b THEN "copied" ELSE block[d][c]
  BY <1>1, <1>3, BlockSet DEF CommTypeOK
<1>5. /\ send' \in [Ends -> [SlotIds -> [Blocks -> Nat]]]
      /\ \A d \in Ends, t \in SlotIds, c \in Blocks :
           send'[d][t][c] = IF d = e /\ t = s /\ c = b THEN Staging(e) ELSE send[d][t][c]
  BY <1>1, <1>2, <1>3, WordSet DEF CommTypeOK
<1>6. CommTypeOK'
  BY <1>1, <1>3, <1>4, <1>5 DEF CommTypeOK
<1>7. \A d \in Ends \ {e} : SameAt(d)
  BY <1>1, <1>3, Pairs DEF CommTypeOK, SameAt
<1>8. Order(e)' /\ Bells(e)' /\ Output(e)' /\ Idle(e)'
  BY <1>1, <1>3, <1>4 DEF Facts, Order, Bells, Output, Idle
<1>9. Staged(e)'
  <2>1. Arrivers(e)' = Arrivers(e)
    BY <1>3, <1>4 DEF Arrivers
  <2>2. Staging(e)' = Staging(e)
    BY <1>3 DEF Staging
  <2>3. ASSUME NEW c \in Blocks, block'[e][c] # "start"
        PROVE  send'[e][s][c] = Staging(e)
    BY <1>1, <1>2, <1>3, <1>4, <1>5, <2>3 DEF Facts, Staged, s
  <2> QED
    BY <1>1, <1>3, <2>1, <2>2, <2>3 DEF Facts, Staged, s
<1>10. Held(e)'
  <2>1. ASSUME NEW q \in Nat, sent[e] < q, q <= seq[e], NEW c \in Blocks
        PROVE  send'[e][SlotOf(q)][c] = q
    <3>0. seq[e] \in Nat /\ sent[e] \in Nat /\ seq[e] <= sent[e] + 1
      BY <1>1, <1>3, Near DEF CommTypeOK
    <3>1. q < Staging(e) /\ Staging(e) < q + Slots
      BY <2>1, <3>0, SlotAssumption DEF Staging
    <3>2. SlotOf(q) # s /\ SlotOf(q) \in SlotIds
      BY <1>1, <3>1, SlotsApart, SlotInRing DEF s
    <3> QED
      BY <1>1, <1>5, <2>1, <3>2 DEF Facts, Held
  <2> QED
    BY <1>1, <1>3, <2>1 DEF Facts, Held, Sending
<1> QED
  BY <1>6, <1>7, <1>8, <1>9, <1>10, OneEnd DEF Facts

(* A block arrives, and the last one rings (StageArrive).                   *)
LEMMA StageArriveKeeps ==
  ASSUME CommInv, NEW e \in Ends, NEW b \in Blocks, StageArrive(e, b)
  PROVE  CommInv'
<1>1. CommTypeOK /\ Facts(e) /\ e[1] \in Ranks /\ Staging(e) \in Nat /\ seq[e] \in Nat
  BY Pairs DEF CommInv, Facts, CommTypeOK, Staging
<1> DEFINE s == SlotOf(Staging(e))
<1>2. s \in SlotIds
  BY <1>1, SlotInRing
<1>3. /\ kernel[e] = "stage" /\ block[e][b] = "copied"
      /\ arrivals[e] = Cardinality(Arrivers(e))
      /\ Arrivers(e) \in SUBSET Blocks /\ b \notin Arrivers(e)
  BY <1>1 DEF StageArrive, Runs, Facts, Staged, Arrivers
<1>4. UNCHANGED <<send, last, sent, landed, recv, flag, out, ended, got, error, trapped>>
  BY DEF StageArrive, nicVars
<1>5. \A d \in Ends \ {e} : SameAt(d)
  BY <1>1, <1>4, Pairs DEF CommTypeOK, SameAt, StageArrive, Launch, BellOf
<1>6. CASE LastRings(arrivals[e] + 1)
  <2>1. /\ arrivals' = [arrivals EXCEPT ![e] = 0]
        /\ bell' = [bell EXCEPT ![e][s] = Staging(e)]
        /\ seq' = [seq EXCEPT ![e] = Staging(e)]
        /\ kernel' = [kernel EXCEPT ![e] = "finish"]
        /\ block' = [block EXCEPT ![e] = [c \in Blocks |-> "start"]]
    BY <1>1, <1>6 DEF StageArrive, Launch, AfterLast, BellOf, CommTypeOK
  <2>2. /\ arrivals'[e] = 0 /\ seq'[e] = seq[e] + 1 /\ kernel'[e] = "finish"
        /\ \A c \in Blocks : block'[e][c] = "start"
    BY <1>1, <2>1 DEF CommTypeOK, Staging
  <2> HIDE DEF s
  <2>3. /\ bell' \in [Ends -> [SlotIds -> Nat]]
        /\ \A t \in SlotIds : bell'[e][t] = IF t = s THEN Staging(e) ELSE bell[e][t]
    BY <1>1, <1>2, <2>1, SlotSet DEF CommTypeOK
  <2>4. CommTypeOK'
    <3>1. 0 \in 0..Cardinality(Blocks)-1
      BY BlockCount
    <3> QED
      BY <1>1, <1>4, <2>1, <2>3, <3>1 DEF CommTypeOK
  <2>5. Order(e)'
    BY <1>1, <1>3, <1>4, <2>2 DEF Facts, Order, CommTypeOK
  <2>6. Bells(e)'
    <3>1. ASSUME NEW t \in SlotIds
          PROVE  bell'[e][t] <= seq'[e] /\ (bell'[e][t] # 0 => SlotOf(bell'[e][t]) = t)
      <4>1. bell[e][t] \in Nat /\ bell[e][t] <= seq[e] /\ (bell[e][t] # 0 => SlotOf(bell[e][t]) = t)
        BY <1>1 DEF Facts, Bells, CommTypeOK
      <4>2. Staging(e) = seq[e] + 1
        BY DEF Staging
      <4>3. CASE t = s
        BY <1>1, <2>2, <2>3, <4>2, <4>3 DEF s
      <4>4. CASE t # s
        BY <1>1, <2>2, <2>3, <4>1, <4>4
      <4> QED
        BY <4>3, <4>4
    <3> QED
      BY <3>1 DEF Bells
  <2>7. Held(e)'
    <3>1. \A c \in Blocks : block[e][c] # "start"
      BY <1>3, <1>6, LastArrival DEF LastRings, Arrivers
    <3>2. \A c \in Blocks : send[e][s][c] = Staging(e)
      BY <1>1, <1>3, <3>1 DEF Facts, Staged, s
    <3>3. ASSUME NEW q \in Nat, sent[e] < q, q <= seq[e] + 1, NEW c \in Blocks
          PROVE  send[e][SlotOf(q)][c] = q
      <4>1. CASE q = Staging(e)
        BY <3>2, <4>1 DEF s
      <4>2. CASE q # Staging(e)
        BY <1>1, <3>3, <4>2 DEF Facts, Held, Staging
      <4> QED
        BY <4>1, <4>2
    <3> QED
      BY <1>1, <1>4, <2>2, <3>3 DEF Facts, Held, Sending
  <2>8. Staged(e)' /\ Output(e)' /\ Idle(e)'
    BY <2>2 DEF Staged, Output, Idle
  <2> QED
    BY <1>5, <2>4, <2>5, <2>6, <2>7, <2>8, OneEnd DEF Facts
<1>7. CASE ~LastRings(arrivals[e] + 1)
  <2>1. /\ arrivals' = [arrivals EXCEPT ![e] = @ + 1]
        /\ block' = [block EXCEPT ![e][b] = "done"]
        /\ UNCHANGED <<bell, seq, kernel>>
    BY <1>7 DEF StageArrive
  <2>2. /\ block' \in [Ends -> [Blocks -> {"start", "copied", "done"}]]
        /\ \A c \in Blocks : block'[e][c] = IF c = b THEN "done" ELSE block[e][c]
    BY <1>1, <2>1, BlockSet DEF CommTypeOK
  <2>3. /\ arrivals'[e] = arrivals[e] + 1
        /\ arrivals' \in [Ends -> 0..Cardinality(Blocks)-1]
    <3>1. arrivals[e] + 1 \in 0..Cardinality(Blocks)-1
      <4>1. arrivals[e] \in 0..Cardinality(Blocks)-1 /\ arrivals[e] + 1 # Cardinality(Blocks)
        BY <1>1, <1>7 DEF CommTypeOK, LastRings
      <4> QED
        BY <4>1, BlockCount
    <3> QED
      BY <1>1, <2>1, <3>1 DEF CommTypeOK
  <2>4. CommTypeOK'
    BY <1>1, <1>4, <2>1, <2>2, <2>3 DEF CommTypeOK
  <2>5. Order(e)' /\ Bells(e)' /\ Output(e)' /\ Idle(e)'
    BY <1>1, <1>3, <1>4, <2>1, <2>2 DEF Facts, Order, Bells, Output, Idle
  <2>6. Held(e)'
    BY <1>1, <1>4, <2>1 DEF Facts, Held, Sending
  <2>7. Staged(e)'
    <3>1. Arrivers(e)' = Arrivers(e) \cup {b}
      BY <2>2 DEF Arrivers
    <3>2. arrivals'[e] = Cardinality(Arrivers(e)')
      BY <1>3, <2>3, <3>1, OneMore
    <3>3. \A c \in Blocks : block'[e][c] # "start" => send'[e][s][c] = Staging(e)
      BY <1>1, <1>3, <1>4, <2>2 DEF Facts, Staged
    <3>4. Staging(e)' = Staging(e)
      BY <2>1 DEF Staging
    <3> QED
      BY <3>2, <3>3, <3>4 DEF Staged
  <2> QED
    BY <1>5, <2>4, <2>5, <2>6, <2>7, OneEnd DEF Facts
<1> QED
  BY <1>6, <1>7

(* A block reads its share of the receive slot (FinishBlock).               *)
LEMMA FinishBlockKeeps ==
  ASSUME CommInv, NEW e \in Ends, NEW b \in Blocks, FinishBlock(e, b)
  PROVE  CommInv'
<1>1. /\ CommTypeOK /\ Facts(e) /\ e[1] \in Ranks /\ Peer(e) \in Ends
      /\ seq[e] \in Nat /\ SlotOf(seq[e]) \in SlotIds
  BY Pairs, SlotInRing DEF CommInv, Facts, CommTypeOK
<1>2. /\ kernel[e] = "finish" /\ block[e][b] = "start"
      /\ flag[e][SlotOf(seq[e])] = seq[e]
      /\ out' = [out EXCEPT ![e][b] = recv[e][SlotOf(seq[e])][b]]
      /\ block' = [block EXCEPT ![e][b] = "done"]
      /\ UNCHANGED <<seq, kernel, arrivals, send, bell, last, sent, landed, recv, flag, ended, got,
                     error, trapped>>
  BY DEF FinishBlock, Runs, Arrived, nicVars
<1>3. seq[e] <= sent[Peer(e)] /\ ended[e] < seq[e]
  BY <1>1, <1>2 DEF Facts, Order, CommTypeOK
<1>4. recv[e][SlotOf(seq[e])][b] = seq[e]
  BY <1>1, <1>3 DEF Facts, Held
<1>5. /\ block' \in [Ends -> [Blocks -> {"start", "copied", "done"}]]
      /\ \A c \in Blocks : block'[e][c] = IF c = b THEN "done" ELSE block[e][c]
  BY <1>1, <1>2, BlockSet DEF CommTypeOK
<1>6. /\ out' \in [Ends -> [Blocks -> Nat]]
      /\ \A c \in Blocks : out'[e][c] = IF c = b THEN seq[e] ELSE out[e][c]
  BY <1>1, <1>2, <1>4, BlockSet DEF CommTypeOK
<1>7. CommTypeOK'
  BY <1>1, <1>2, <1>5, <1>6 DEF CommTypeOK
<1>8. \A d \in Ends \ {e} : SameAt(d)
  BY <1>1, <1>2, Pairs DEF CommTypeOK, SameAt
<1>9. Order(e)'
  BY <1>1, <1>2, <1>3, <1>5 DEF Facts, Order
<1>10. Held(e)'
  BY <1>1, <1>2 DEF Facts, Held, Sending
<1>11. Bells(e)' /\ Staged(e)' /\ Output(e)' /\ Idle(e)'
  BY <1>1, <1>2, <1>5, <1>6 DEF Facts, Bells, Staged, Output, Idle
<1> QED
  BY <1>7, <1>8, <1>9, <1>10, <1>11, OneEnd DEF Facts

(* The finish kernel ends the operation (FinishDone).                       *)
LEMMA FinishDoneKeeps ==
  ASSUME CommInv, NEW e \in Ends, FinishDone(e)
  PROVE  CommInv'
<1>1. /\ CommTypeOK /\ Facts(e) /\ e[1] \in Ranks /\ Peer(e) \in Ends
      /\ seq[e] \in Nat /\ ended[e] \in Nat /\ sent[Peer(e)] \in Nat
  BY Pairs DEF CommInv, Facts, CommTypeOK
<1>2. /\ kernel[e] = "finish" /\ \A b \in Blocks : block[e][b] = "done"
      /\ kernel' = [kernel EXCEPT ![e] = "none"]
      /\ ended' = [ended EXCEPT ![e] = seq[e]]
      /\ got' = [got EXCEPT ![e] = out[e]]
      /\ UNCHANGED <<seq, block, arrivals, send, bell, last, sent, landed, recv, flag, out, error,
                     trapped>>
  BY DEF FinishDone, Runs, nicVars
<1>3. CommTypeOK'
  BY <1>1, <1>2 DEF CommTypeOK
<1>4. \A d \in Ends \ {e} : SameAt(d)
  BY <1>1, <1>2, Pairs DEF CommTypeOK, SameAt
<1>5. kernel'[e] = "none" /\ ended'[e] = seq[e]
  BY <1>1, <1>2 DEF CommTypeOK
<1>6. seq[e] = ended[e] + 1 /\ seq[e] <= sent[Peer(e)]
  BY <1>1, <1>2, BlockAssumption DEF Facts, Order
<1>7. Order(e)'
  BY <1>1, <1>2, <1>5, <1>6 DEF Facts, Order
<1>8. Held(e)'
  BY <1>1, <1>2, <1>5, <1>6 DEF Facts, Held, Sending
<1>9. Bells(e)' /\ Staged(e)' /\ Output(e)' /\ Idle(e)'
  BY <1>1, <1>2, <1>5 DEF Facts, Bells, Staged, Output, Idle
<1> QED
  BY <1>3, <1>4, <1>7, <1>8, <1>9, OneEnd DEF Facts

(* A trap or a failed work request (Trap, ProxyFails).                      *)
LEMMA FailKeeps ==
  ASSUME CommInv, (\E e \in Ends : Trap(e)) \/ (\E r \in Ranks : ProxyFails(r))
  PROVE  CommInv'
<1>1. CommTypeOK /\ \A e \in Ends : e[1] \in Ranks
  BY Pairs DEF CommInv
<1>2. UNCHANGED <<seq, kernel, block, arrivals, send, bell, last, sent, landed, recv, flag, out,
                 ended, got>>
  BY DEF Trap, ProxyFails, gpuVars, nicVars
<1>3. trapped' \in [Ranks -> BOOLEAN] /\ error' \in [Ranks -> 0..3]
  <2>1. ASSUME NEW e \in Ends, Trap(e)
        PROVE  trapped' \in [Ranks -> BOOLEAN] /\ error' = error
    BY <1>1, <2>1 DEF Trap, CommTypeOK
  <2>2. ASSUME NEW r \in Ranks, ProxyFails(r)
        PROVE  trapped' = trapped /\ error' \in [Ranks -> 0..3]
    <3>1. error \in [Ranks -> 0..3]
      BY <1>1 DEF CommTypeOK
    <3>2. error' = [error EXCEPT ![r] = 2] \/ error' = [error EXCEPT ![r] = 3]
      BY <2>2 DEF ProxyFails
    <3>3. trapped' = trapped
      BY <2>2 DEF ProxyFails, gpuVars
    <3> QED
      BY <3>1, <3>2, <3>3
  <2> QED
    BY <1>1, <2>1, <2>2 DEF CommTypeOK
<1>4. CommTypeOK'
  BY <1>1, <1>2, <1>3 DEF CommTypeOK
<1>5. \A d \in Ends : SameAt(d)
  BY <1>2 DEF SameAt
<1> QED
  BY <1>4, <1>5, FactsSame DEF CommInv, Facts

(* The NIC writes a word of a message (LandWord).                           *)
LEMMA LandWordKeeps ==
  ASSUME CommInv, NEW e \in Ends, NEW b \in Blocks, LandWord(e, b)
  PROVE  CommInv'
<1> DEFINE p == Peer(e)
           s == SlotOf(Sending(e))
<1>1. /\ CommTypeOK /\ Facts(e) /\ p \in Ends /\ Facts(p) /\ Peer(p) = e /\ p # e
      /\ Sending(e) \in Nat /\ sent[e] \in Nat /\ last[e] \in Nat /\ seq[e] \in Nat
      /\ seq[p] \in Nat /\ ended[p] \in Nat
  BY Pairs DEF CommInv, Facts, CommTypeOK, Sending
<1>2. s \in SlotIds
  BY <1>1, SlotInRing
<1>3. /\ sent[e] < last[e]
      /\ landed' = [landed EXCEPT ![e] = @ \cup {b}]
      /\ recv' = [recv EXCEPT ![p][s][b] = send[e][s][b]]
      /\ UNCHANGED <<seq, kernel, block, arrivals, send, bell, last, sent, flag, out, ended, got,
                     error, trapped>>
  BY DEF LandWord, CanSend, gpuVars
<1>4. Sending(e) = sent[e] + 1 /\ Sending(e) <= seq[e]
  BY <1>1, <1>3 DEF Facts, Order, Sending
<1>5. send[e][s][b] = Sending(e)
  BY <1>1, <1>4 DEF Facts, Held
<1> HIDE DEF s, p
<1>6. /\ recv' \in [Ends -> [SlotIds -> [Blocks -> Nat]]]
      /\ \A d \in Ends, t \in SlotIds, c \in Blocks :
           recv'[d][t][c] = IF d = p /\ t = s /\ c = b THEN Sending(e) ELSE recv[d][t][c]
  BY <1>1, <1>2, <1>3, <1>5, WordSet DEF CommTypeOK
<1>7. CommTypeOK'
  BY <1>1, <1>3, <1>6 DEF CommTypeOK
<1>8. ASSUME NEW d \in Ends, d # e, d # p
      PROVE  Facts(d)'
  <2>1. Peer(d) \in Ends /\ Peer(d) # p
    BY <1>1, <1>8, Pairs DEF p
  <2>2. SameAt(d)
    BY <1>1, <1>3, <1>8, <2>1 DEF SameAt, CommTypeOK
  <2> QED
    BY <2>2, FactsSame DEF CommInv, Facts
<1>9. Facts(e)'
  <2>1. Order(e)' /\ Bells(e)' /\ Staged(e)' /\ Output(e)' /\ Idle(e)'
    BY <1>1, <1>3 DEF Facts, Order, Bells, Staged, Staging, Arrivers, Output, Idle
  <2>2. landed'[e] = landed[e] \cup {b} /\ Sending(e)' = Sending(e)
    BY <1>1, <1>3 DEF CommTypeOK, Sending
  <2>3. \A c \in landed'[e] : recv'[p][s][c] = Sending(e)
    BY <1>1, <1>2, <1>6, <2>2 DEF CommTypeOK, Facts, Held, s, p
  <2>4. recv'[e] = recv[e]
    BY <1>1, <1>3 DEF CommTypeOK
  <2>5. Held(e)'
    BY <1>1, <1>3, <2>2, <2>3, <2>4 DEF Facts, Held, s, p
  <2> QED
    BY <2>1, <2>5 DEF Facts
<1>10. Facts(p)'
  <2>1. Order(p)' /\ Bells(p)' /\ Staged(p)' /\ Output(p)' /\ Idle(p)'
    BY <1>1, <1>3 DEF Facts, Order, Bells, Staged, Staging, Arrivers, Output, Idle
  <2>2. ASSUME NEW q \in Nat, ended[p] < q, q <= sent[e], NEW c \in Blocks
        PROVE  recv'[p][SlotOf(q)][c] = q
    <3>1. seq[e] <= ended[p] + 2
      BY Near DEF p
    <3>2. q < Sending(e) /\ Sending(e) < q + Slots
      BY <1>1, <1>4, <2>2, <3>1, SlotAssumption
    <3>3. SlotOf(q) # s /\ SlotOf(q) \in SlotIds
      BY <1>1, <3>2, SlotsApart, SlotInRing DEF s
    <3>4. recv[p][SlotOf(q)][c] = q
      BY <1>1, <2>2 DEF Facts, Held
    <3> QED
      BY <1>1, <1>6, <3>3, <3>4
  <2>3. landed'[p] = landed[p] /\ recv'[e] = recv[e] /\ Sending(p)' = Sending(p)
    BY <1>1, <1>3 DEF CommTypeOK, Sending
  <2>4. Held(p)'
    BY <1>1, <1>3, <2>2, <2>3 DEF Facts, Held
  <2> QED
    BY <2>1, <2>4 DEF Facts
<1> QED
  BY <1>7, <1>8, <1>9, <1>10 DEF CommInv, Facts

(* The NIC writes the flag of a message (LandFlag).                         *)
LEMMA LandFlagKeeps ==
  ASSUME CommInv, NEW e \in Ends, LandFlag(e)
  PROVE  CommInv'
<1> DEFINE p == Peer(e)
           s == SlotOf(Sending(e))
<1>1. /\ CommTypeOK /\ Facts(e) /\ p \in Ends /\ Facts(p) /\ Peer(p) = e /\ p # e
      /\ Sending(e) \in Nat /\ sent[e] \in Nat /\ last[e] \in Nat /\ seq[e] \in Nat
      /\ seq[p] \in Nat /\ ended[p] \in Nat
  BY Pairs DEF CommInv, Facts, CommTypeOK, Sending
<1>2. s \in SlotIds
  BY <1>1, SlotInRing
<1>3. /\ sent[e] < last[e] /\ landed[e] = Blocks
      /\ landed' = [landed EXCEPT ![e] = {}]
      /\ flag' = [flag EXCEPT ![p][s] = Sending(e)]
      /\ sent' = [sent EXCEPT ![e] = Sending(e)]
      /\ UNCHANGED <<seq, kernel, block, arrivals, send, bell, last, recv, out, ended, got,
                     error, trapped>>
  BY DEF LandFlag, CanSend, gpuVars
<1>4. Sending(e) = sent[e] + 1
  BY DEF Sending
<1>5. \A c \in Blocks : recv[p][s][c] = Sending(e)
  BY <1>1, <1>3 DEF Facts, Held
<1> HIDE DEF s, p
<1>6. /\ flag' \in [Ends -> [SlotIds -> Nat]]
      /\ \A d \in Ends, t \in SlotIds :
           flag'[d][t] = IF d = p /\ t = s THEN Sending(e) ELSE flag[d][t]
  BY <1>1, <1>2, <1>3, SlotSet DEF CommTypeOK
<1>7. sent' \in [Ends -> Nat] /\ sent'[e] = Sending(e) /\ sent'[p] = sent[p] /\ landed'[e] = {}
  BY <1>1, <1>3 DEF CommTypeOK
<1>8. CommTypeOK'
  BY <1>1, <1>3, <1>6, <1>7 DEF CommTypeOK
<1>9. ASSUME NEW d \in Ends, d # e, d # p
      PROVE  Facts(d)'
  <2>1. Peer(d) \in Ends /\ Peer(d) # e
    BY <1>1, <1>9, Pairs DEF p
  <2>2. SameAt(d)
    BY <1>1, <1>3, <1>9, <2>1 DEF SameAt, CommTypeOK
  <2> QED
    BY <2>2, FactsSame DEF CommInv, Facts
<1>10. Facts(e)'
  <2>1. flag'[e] = flag[e]
    BY <1>1, <1>3 DEF CommTypeOK
  <2>2. Order(e)'
    BY <1>1, <1>3, <1>4, <1>7, <2>1 DEF Facts, Order, p
  <2>3. Bells(e)' /\ Staged(e)' /\ Output(e)' /\ Idle(e)'
    BY <1>1, <1>3 DEF Facts, Bells, Staged, Staging, Arrivers, Output, Idle
  <2>4. \A q \in Nat : sent'[e] < q /\ q <= seq'[e] => \A c \in Blocks : send'[e][SlotOf(q)][c] = q
    BY <1>1, <1>3, <1>4, <1>7 DEF Facts, Held
  <2>5. Held(e)'
    BY <1>1, <1>3, <1>7, <2>4 DEF Facts, Held, p
  <2> QED
    BY <2>2, <2>3, <2>5 DEF Facts
<1>11. Facts(p)'
  <2>1. Order(p)'
    <3>1. ASSUME NEW t \in SlotIds
          PROVE  flag'[p][t] <= sent'[e]
      <4>1. flag[p][t] \in Nat /\ flag[p][t] <= sent[e]
        BY <1>1 DEF Facts, Order, CommTypeOK
      <4> QED
        BY <1>1, <1>4, <1>6, <1>7, <4>1
    <3>2. ended'[p] <= sent'[e]
      BY <1>1, <1>3, <1>4, <1>7 DEF Facts, Order
    <3>3. \A c \in Blocks : kernel'[p] = "finish" /\ block'[p][c] = "done" => seq'[p] <= sent'[e]
      BY <1>1, <1>3, <1>4, <1>7 DEF Facts, Order
    <3> QED
      BY <1>1, <1>3, <1>7, <3>1, <3>2, <3>3 DEF Facts, Order
  <2>2. Bells(p)' /\ Staged(p)' /\ Output(p)' /\ Idle(p)'
    BY <1>1, <1>3 DEF Facts, Bells, Staged, Staging, Arrivers, Output, Idle
  <2>3. ASSUME NEW q \in Nat, ended[p] < q, q <= sent'[e], NEW c \in Blocks
        PROVE  recv[p][SlotOf(q)][c] = q
    <3>1. CASE q = Sending(e)
      BY <1>5, <3>1 DEF s
    <3>2. CASE q # Sending(e)
      BY <1>1, <1>4, <1>7, <2>3, <3>2 DEF Facts, Held
    <3> QED
      BY <3>1, <3>2
  <2>4. landed'[p] = landed[p] /\ Sending(p)' = Sending(p)
    BY <1>1, <1>3, <1>7 DEF CommTypeOK, Sending
  <2>5. Held(p)'
    BY <1>1, <1>3, <1>7, <2>3, <2>4 DEF Facts, Held
  <2> QED
    BY <2>1, <2>2, <2>5 DEF Facts
<1> QED
  BY <1>8, <1>9, <1>10, <1>11 DEF CommInv, Facts

(* The proxy never finds a doorbell ahead of the sequence it expects.        *)
LEMMA NoOverrun ==
  ASSUME CommInv, NEW e \in Ends, Rung(e) >= Expected(e)
  PROVE  Rung(e) = Expected(e) /\ Expected(e) <= seq[e]
<1> DEFINE s == SlotOf(Expected(e))
<1>1. last[e] \in Nat /\ seq[e] \in Nat /\ Expected(e) \in Nat /\ Expected(e) = last[e] + 1
  BY DEF CommInv, CommTypeOK, Expected
<1>2. s \in SlotIds
  BY <1>1, SlotInRing
<1>3. Rung(e) = bell[e][s] /\ bell[e][s] \in Nat
  BY <1>2 DEF Rung, BellOf, CommInv, CommTypeOK
<1>4. Rung(e) <= seq[e] /\ (Rung(e) # 0 => SlotOf(Rung(e)) = s)
  BY <1>2, <1>3 DEF CommInv, Bells
<1>5. seq[e] <= last[e] + 2
  BY Near DEF CommInv, CommTypeOK
<1> HIDE DEF s
<1>6. CASE Rung(e) > Expected(e)
  <2>1. Rung(e) < Expected(e) + Slots /\ Rung(e) # 0 /\ Rung(e) \in Nat
    BY <1>1, <1>3, <1>4, <1>5, <1>6, SlotAssumption
  <2>2. SlotOf(Rung(e)) # SlotOf(Expected(e))
    BY <1>1, <1>6, <2>1, SlotsApart
  <2> QED
    BY <1>4, <2>1, <2>2 DEF s
<1> QED
  BY <1>1, <1>3, <1>4, <1>6

(* The proxy posts the next doorbell (Drain).                               *)
LEMMA DrainKeeps ==
  ASSUME CommInv, NEW e \in Ends, Drain(e)
  PROVE  CommInv' /\ UNCHANGED error
<1>1. CommTypeOK /\ Facts(e) /\ Peer(e) \in Ends /\ last[e] \in Nat /\ seq[e] \in Nat
  BY Pairs DEF CommInv, Facts, CommTypeOK
<1>2. Rung(e) = Expected(e) /\ Expected(e) <= seq[e] /\ Expected(e) = last[e] + 1
  BY NoOverrun DEF Drain, Expected
<1>3. /\ last' = [last EXCEPT ![e] = Expected(e)]
      /\ UNCHANGED <<seq, kernel, block, arrivals, send, bell, sent, landed, recv, flag, out, ended,
                     got, error, trapped>>
  BY <1>2 DEF Drain, gpuVars, nicVars
<1>4. last' \in [Ends -> Nat] /\ last'[e] = last[e] + 1
  BY <1>1, <1>2, <1>3 DEF CommTypeOK
<1>5. CommTypeOK'
  BY <1>1, <1>3, <1>4 DEF CommTypeOK
<1>6. \A d \in Ends \ {e} : SameAt(d)
  BY <1>1, <1>3 DEF SameAt, CommTypeOK
<1>7. Order(e)'
  <2>1. sent[e] \in Nat /\ sent[e] <= last[e]
    BY <1>1 DEF Facts, Order, CommTypeOK
  <2>2. sent'[e] <= last'[e] /\ last'[e] <= seq'[e]
    BY <1>1, <1>2, <1>3, <1>4, <2>1
  <2> QED
    BY <1>1, <1>3, <2>2 DEF Facts, Order
<1>8. Held(e)'
  <2>1. landed'[e] # {} => sent'[e] < last'[e]
    BY <1>1, <1>3, <1>4 DEF Facts, Held, CommTypeOK
  <2> QED
    BY <1>1, <1>3, <2>1 DEF Facts, Held, Sending
<1>9. Bells(e)' /\ Staged(e)' /\ Output(e)' /\ Idle(e)'
  BY <1>1, <1>3 DEF Facts, Bells, Staged, Staging, Arrivers, Output, Idle
<1> QED
  BY <1>3, <1>5, <1>6, <1>7, <1>8, <1>9, OneEnd DEF Facts

(* Nothing is under way at the beginning.                                   *)
LEMMA InitInv == Init => CommInv
<1> SUFFICES ASSUME Init
             PROVE  CommInv
  OBVIOUS
<1>1. CommTypeOK
  <2>1. 0 \in 0..Cardinality(Blocks)-1
    BY BlockCount
  <2>2. Blank \in [Blocks -> Nat]
    BY DEF Blank
  <2> QED
    BY <2>1, <2>2 DEF Init, CommTypeOK
<1>2. ASSUME NEW e \in Ends
      PROVE  Facts(e)
  <2>1. Peer(e) \in Ends
    BY Pairs
  <2>2. /\ seq[e] = 0 /\ kernel[e] = "none" /\ arrivals[e] = 0 /\ last[e] = 0 /\ sent[e] = 0
        /\ landed[e] = {} /\ ended[e] = 0 /\ sent[Peer(e)] = 0
        /\ \A s \in SlotIds : bell[e][s] = 0 /\ flag[e][s] = 0
    BY <2>1 DEF Init
  <2>3. Held(e)
    BY <2>2 DEF Held
  <2> QED
    BY <2>2, <2>3 DEF Facts, Order, Bells, Staged, Output, Idle
<1> QED
  BY <1>1, <1>2 DEF CommInv, Facts

(* A stuttering step.                                                       *)
LEMMA StutterKeeps ==
  ASSUME CommInv, UNCHANGED vars
  PROVE  CommInv'
<1>1. UNCHANGED <<seq, kernel, block, arrivals, send, bell, last, sent, landed, recv, flag, out,
                 ended, got, error, trapped>>
  BY DEF vars, gpuVars, nicVars
<1>2. CommTypeOK'
  BY <1>1 DEF CommInv, CommTypeOK
<1>3. \A d \in Ends : SameAt(d)
  BY <1>1 DEF SameAt
<1> QED
  BY <1>2, <1>3, FactsSame DEF CommInv, Facts

(* Every step of the specification.                                         *)
LEMMA StepKeeps ==
  ASSUME CommInv, [Next]_vars
  PROVE  CommInv'
<1>1. CASE UNCHANGED vars
  BY <1>1, StutterKeeps
<1>2. CASE Next
  BY <1>2, IssueKeeps, StageCopyKeeps, StageArriveKeeps, FinishBlockKeeps, FinishDoneKeeps,
     FailKeeps, DrainKeeps, LandWordKeeps, LandFlagKeeps DEF Next, GpuStep, NicStep
<1> QED
  BY <1>1, <1>2

-----------------------------------------------------------------------------
(* CommInv, the strengthening behind the properties of the collectives, is   *)
(* an invariant for every number of channels, blocks and slots from two on.  *)
THEOREM CommInvariant == Spec => []CommInv
<1>1. CommInv /\ [Next]_vars => CommInv'
  BY StepKeeps
<1> QED
  BY <1>1, InitInv, PTL DEF Spec

(* The variables of the collectives keep their types.                        *)
THEOREM CommTypeCorrect == Spec => []CommTypeOK
<1>1. CommInv => CommTypeOK
  BY DEF CommInv
<1> QED
  BY <1>1, CommInvariant, PTL

(* The GPU is at most two operations ahead of the proxy thread, which never  *)
(* finds a doorbell overwritten: proxy_loop's error 1 cannot happen.         *)
THEOREM GpuNearProxy == Spec => []AheadOfProxy
<1> DEFINE Sound == \A r \in Ranks : error[r] # 1
<1>1. Init => Sound
  BY DEF Init
<1>2. CommInv /\ Sound /\ [Next]_vars => Sound'
  <2> SUFFICES ASSUME CommInv, Sound, [Next]_vars
               PROVE  Sound'
    OBVIOUS
  <2>1. CASE \E r \in Ranks : ProxyFails(r)
    <3>1. PICK r \in Ranks : error' = [error EXCEPT ![r] = 2] \/ error' = [error EXCEPT ![r] = 3]
      BY <2>1 DEF ProxyFails
    <3>2. error \in [Ranks -> 0..3]
      BY DEF CommInv, CommTypeOK
    <3> QED
      BY <3>1, <3>2
  <2>2. CASE ~\E r \in Ranks : ProxyFails(r)
    <3>1. error' = error
      BY <2>2, DrainKeeps DEF Next, GpuStep, NicStep, Issue, StageCopy, StageArrive, FinishBlock,
         FinishDone, Trap, LandWord, LandFlag, vars
    <3> QED
      BY <3>1
  <2> QED
    BY <2>1, <2>2
<1>3. CommInv /\ Sound => AheadOfProxy
  <2> SUFFICES ASSUME CommInv, Sound, NEW e \in Ends
               PROVE  seq[e] <= last[e] + 2
    BY DEF AheadOfProxy
  <2> QED
    BY Near DEF CommInv, CommTypeOK
<1> HIDE DEF Sound
<1> QED
  BY <1>1, <1>2, <1>3, CommInvariant, PTL DEF Spec

(* A send slot is reused only after the NIC has read it, a receive slot only *)
(* after the finish kernel has: SlotsNeverLap holds of every instance.       *)
THEOREM SlotsApartAlways == Spec => []SlotsNeverLap
<1>1. CommInv => SlotsNeverLap
  <2> SUFFICES ASSUME CommInv, NEW e \in Ends
               PROVE  /\ kernel[e] = "stage" => Staging(e) <= sent[e] + Slots
                      /\ sent[e] < last[e] => Sending(e) <= ended[Peer(e)] + Slots
    BY DEF SlotsNeverLap
  <2>1. Peer(e) \in Ends
    BY Pairs
  <2>2. /\ seq[e] \in Nat /\ sent[e] \in Nat /\ last[e] \in Nat /\ ended[Peer(e)] \in Nat
    BY <2>1 DEF CommInv, CommTypeOK
  <2>3. /\ kernel[e] # "finish" => seq[e] <= sent[e] + 1
        /\ last[e] <= seq[e] /\ seq[e] <= ended[Peer(e)] + 2
    BY Near
  <2> QED
    BY <2>2, <2>3, SlotAssumption DEF Staging, Sending
<1> QED
  BY <1>1, CommInvariant, PTL

(* The collectives implement PairExchange: every operation ends with the     *)
(* peer's message of the same operation, whole, and never before the peer    *)
(* has begun it.                                                             *)
THEOREM ExchangesExactly == Spec => ExchangeIsExact
<1>1. Init => PX!ExchangeInit
  BY DEF Init, Begun, Blank, PX!ExchangeInit
<1>2. CommInv /\ CommInv' /\ [Next]_vars => [PX!ExchangeNext]_(PX!exchangeVars)
  <2> SUFFICES ASSUME CommInv, CommInv', [Next]_vars
               PROVE  [PX!ExchangeNext]_(PX!exchangeVars)
    OBVIOUS
  <2>1. CommTypeOK
    BY DEF CommInv
  <2>2. ASSUME UNCHANGED <<seq, kernel, ended, got>>
        PROVE  UNCHANGED PX!exchangeVars
    BY <2>2 DEF PX!exchangeVars, Begun, Staging
  <2>3. ASSUME NEW e \in Ends, Issue(e)
        PROVE  PX!Begin(e)
    <3>1. /\ kernel[e] = "none" /\ kernel' = [kernel EXCEPT ![e] = "stage"]
          /\ UNCHANGED <<seq, ended, got>>
      BY <2>3 DEF Issue, Runs, Launch
    <3>2. ended[e] = seq[e]
      BY <3>1 DEF CommInv, Order
    <3>3. \A d \in Ends : Begun(d)' = IF d = e THEN Begun(e) + 1 ELSE Begun(d)
      BY <2>1, <3>1 DEF Begun, Staging, CommTypeOK
    <3>4. Begun(e) = ended[e]
      BY <3>1, <3>2 DEF Begun
    <3> QED
      BY <3>1, <3>3, <3>4 DEF PX!Begin
  <2>4. ASSUME NEW e \in Ends, NEW b \in Blocks, StageArrive(e, b)
        PROVE  UNCHANGED PX!exchangeVars
    <3>1. kernel[e] = "stage" /\ UNCHANGED <<ended, got>>
      BY <2>4 DEF StageArrive, Runs
    <3>2. CASE LastRings(arrivals[e] + 1)
      <4>1. /\ seq' = [seq EXCEPT ![e] = Staging(e)]
            /\ kernel' = [kernel EXCEPT ![e] = "finish"]
        BY <2>4, <3>2 DEF StageArrive, Launch
      <4>2. \A d \in Ends : Begun(d)' = Begun(d)
        BY <2>1, <3>1, <4>1 DEF Begun, Staging, CommTypeOK
      <4> QED
        BY <3>1, <4>2 DEF PX!exchangeVars
    <3>3. CASE ~LastRings(arrivals[e] + 1)
      BY <2>2, <2>4, <3>1, <3>3 DEF StageArrive
    <3> QED
      BY <3>2, <3>3
  <2>5. ASSUME NEW e \in Ends, FinishDone(e)
        PROVE  PX!End(e)
    <3>1. /\ kernel[e] = "finish" /\ \A b \in Blocks : block[e][b] = "done"
          /\ kernel' = [kernel EXCEPT ![e] = "none"]
          /\ ended' = [ended EXCEPT ![e] = seq[e]]
          /\ got' = [got EXCEPT ![e] = out[e]]
          /\ UNCHANGED seq
      BY <2>5 DEF FinishDone, Runs
    <3>2. Peer(e) \in Ends
      BY Pairs
    <3>3. out[e] = [w \in Blocks |-> seq[e]]
      BY <2>1, <3>1 DEF CommInv, Output, CommTypeOK
    <3>4. seq[e] = ended[e] + 1 /\ seq[e] <= sent[Peer(e)]
      BY <3>1, BlockAssumption DEF CommInv, Order
    <3>5. sent[Peer(e)] <= seq[Peer(e)] /\ seq[Peer(e)] \in Nat /\ sent[Peer(e)] \in Nat
      BY <2>1, <3>2 DEF CommInv, Order, CommTypeOK
    <3>6. Begun(e) = seq[e] /\ seq[Peer(e)] <= Begun(Peer(e))
      BY <3>1, <3>5 DEF Begun, Staging
    <3>7. \A d \in Ends : Begun(d)' = Begun(d)
      BY <2>1, <3>1 DEF Begun, Staging, CommTypeOK
    <3>8. ended[e] < Begun(e) /\ Begun(Peer(e)) >= Begun(e)
      BY <2>1, <3>2, <3>4, <3>5, <3>6 DEF CommTypeOK, Begun, Staging
    <3> QED
      BY <3>1, <3>2, <3>3, <3>6, <3>7, <3>8 DEF PX!End
  <2>6. CASE UNCHANGED vars
    BY <2>2, <2>6 DEF vars, gpuVars
  <2>7. CASE Next
    <3>1. ASSUME NEW e \in Ends, GpuStep(e)
          PROVE  PX!End(e) \/ UNCHANGED PX!exchangeVars
      BY <2>2, <2>4, <2>5, <3>1 DEF GpuStep, StageCopy, FinishBlock
    <3>2. ASSUME NEW e \in Ends, Trap(e) \/ Drain(e) \/ NicStep(e)
          PROVE  UNCHANGED PX!exchangeVars
      <4>1. UNCHANGED <<seq, kernel, ended, got>>
        BY <3>2 DEF Trap, Drain, NicStep, LandWord, LandFlag, gpuVars
      <4> QED
        BY <2>2, <4>1
    <3>3. ASSUME NEW r \in Ranks, ProxyFails(r)
          PROVE  UNCHANGED PX!exchangeVars
      BY <2>2, <3>3 DEF ProxyFails, gpuVars
    <3> QED
      BY <2>3, <2>7, <3>1, <3>2, <3>3 DEF Next, PX!ExchangeNext
  <2> QED
    BY <2>6, <2>7
<1> QED
  BY <1>1, <1>2, CommInvariant, PTL DEF Spec, ExchangeIsExact, PX!ExchangeSpec


-----------------------------------------------------------------------------
(* Nobody waits in a circle.                                                 *)

\* Doorbells the proxy has not drained and flags the finish kernel has not met
\* are there.
Signs(e) ==
  /\ \A q \in Nat : last[e] < q /\ q <= seq[e] => bell[e][SlotOf(q)] = q
  /\ \A q \in Nat : ended[e] < q /\ q <= sent[Peer(e)] => flag[e][SlotOf(q)] = q
SignInv == \A e \in Ends : Signs(e)

\* A kernel, the proxy or the NIC of the end has something it need not wait for;
\* without failures, just when GpuStep(e), Drain(e) or NicStep(e) is enabled.
CanStep(e) ==
  \/ kernel[e] = "stage" /\ \E b \in Blocks : block[e][b] \in {"start", "copied"}
  \/ kernel[e] = "finish" /\ Arrived(e)
  \/ Rung(e) >= Expected(e)
  \/ sent[e] < last[e]

\* While an operation that both ranks have begun has not ended, somebody at one
\* of its two ends can step.
NoCircularWait ==
  \A e \in Ends : ended[e] < Begun(e) /\ Begun(e) <= Begun(Peer(e)) => CanStep(e) \/ CanStep(Peer(e))

(* What a step does to what Signs is about.                                  *)
LEMMA SignsSame ==
  ASSUME NEW e \in Ends, Signs(e), seq'[e] = seq[e], bell'[e] = bell[e], flag'[e] = flag[e],
         sent'[Peer(e)] = sent[Peer(e)],
         CommInv, last'[e] \in Nat, last[e] <= last'[e], ended'[e] \in Nat, ended[e] <= ended'[e]
  PROVE  Signs(e)'
<1>1. last[e] \in Nat /\ ended[e] \in Nat /\ seq[e] \in Nat
  BY DEF CommInv, CommTypeOK
<1> QED
  BY <1>1 DEF Signs

(* The stage kernel rings: no undrained doorbell is in the same slot.        *)
LEMMA RingSigns ==
  ASSUME CommInv, CommInv', SignInv, NEW e \in Ends, NEW b \in Blocks, StageArrive(e, b)
  PROVE  SignInv'
<1>1. CommTypeOK /\ CommTypeOK' /\ Signs(e)
  BY DEF CommInv, SignInv
<1>2. UNCHANGED <<last, sent, flag, ended>>
  BY DEF StageArrive, nicVars
<1>3. ASSUME NEW d \in Ends, d # e \/ (bell' = bell /\ seq' = seq)
      PROVE  Signs(d)'
  <2>1. seq'[d] = seq[d] /\ bell'[d] = bell[d]
    BY <1>1, <1>3 DEF StageArrive, Launch, CommTypeOK
  <2>2. last[d] \in Nat /\ ended[d] \in Nat /\ Signs(d)
    BY <1>1 DEF CommTypeOK, SignInv
  <2> QED
    BY <1>2, <2>1, <2>2, SignsSame
<1>4. CASE LastRings(arrivals[e] + 1)
  <2> DEFINE s == SlotOf(Staging(e))
  <2>1. seq[e] \in Nat /\ last[e] \in Nat /\ Staging(e) = seq[e] + 1 /\ s \in SlotIds
    BY <1>1, SlotInRing DEF CommTypeOK, Staging
  <2>2. seq'[e] = seq[e] + 1 /\ bell'[e][s] = seq[e] + 1
    BY <1>1, <1>4, <2>1 DEF StageArrive, BellOf, CommTypeOK
  <2>3. \A t \in SlotIds : t # s => bell'[e][t] = bell[e][t]
    BY <1>1, <1>4, <2>1 DEF StageArrive, BellOf, CommTypeOK
  <2>4. seq'[e] <= last[e] + 2
    <3>1. kernel[e] = "stage"
      BY DEF StageArrive, Runs
    <3>2. seq[e] <= sent[e] + 1 /\ sent[e] <= last[e] /\ sent[e] \in Nat
      BY <1>1, <3>1, Near DEF CommTypeOK
    <3> QED
      BY <2>1, <2>2, <3>2
  <2> HIDE DEF s
  <2>5. ASSUME NEW q \in Nat, last[e] < q, q <= seq[e] + 1
        PROVE  bell'[e][SlotOf(q)] = q
    <3>1. CASE q = seq[e] + 1
      BY <2>1, <2>2, <3>1 DEF s
    <3>2. CASE q # seq[e] + 1
      <4>1. q <= seq[e] /\ q < seq[e] + 1 /\ seq[e] + 1 < q + Slots
        BY <2>1, <2>2, <2>4, <2>5, <3>2, SlotAssumption
      <4>2. SlotOf(q) # s /\ SlotOf(q) \in SlotIds
        BY <2>1, <4>1, SlotsApart, SlotInRing DEF s
      <4> QED
        BY <1>1, <2>3, <2>5, <4>1, <4>2 DEF Signs
    <3> QED
      BY <3>1, <3>2
  <2>6. Signs(e)'
    BY <1>1, <1>2, <2>2, <2>5 DEF Signs
  <2>7. ASSUME NEW d \in Ends
        PROVE  Signs(d)'
    <3>1. CASE d = e
      BY <2>6, <3>1
    <3>2. CASE d # e
      BY <1>3, <3>2
    <3> QED
      BY <3>1, <3>2
  <2> QED
    BY <2>7 DEF SignInv
<1>5. CASE ~LastRings(arrivals[e] + 1)
  <2>1. bell' = bell /\ seq' = seq
    BY <1>5 DEF StageArrive
  <2> QED
    BY <1>3, <2>1 DEF SignInv
<1> QED
  BY <1>4, <1>5

(* The NIC writes a flag: no flag that is still to be met is in the same slot. *)
LEMMA FlagSigns ==
  ASSUME CommInv, SignInv, NEW e \in Ends, LandFlag(e)
  PROVE  SignInv'
<1> DEFINE p == Peer(e)
           n == Sending(e)
<1>1. CommTypeOK /\ p \in Ends /\ Peer(p) = e /\ p # e
  BY Pairs DEF CommInv
<1>2. /\ sent[e] \in Nat /\ last[e] \in Nat /\ ended[p] \in Nat /\ seq[e] \in Nat
      /\ n = sent[e] + 1 /\ n \in Nat
  BY <1>1 DEF CommTypeOK, Sending
<1>3. /\ sent[e] < last[e] /\ last[e] <= seq[e] /\ seq[e] <= ended[p] + 2
  BY <1>1, Near DEF LandFlag, CanSend
<1>4. SlotOf(n) \in SlotIds
  BY <1>2, SlotInRing
<1>5. /\ UNCHANGED <<seq, last, bell, ended>>
      /\ sent' = [sent EXCEPT ![e] = n] /\ flag' = [flag EXCEPT ![p][SlotOf(n)] = n]
  BY DEF LandFlag, gpuVars
<1> HIDE DEF p, n
<1>6. /\ sent'[e] = n /\ \A d \in Ends \ {e} : sent'[d] = sent[d]
      /\ flag'[p][SlotOf(n)] = n /\ \A t \in SlotIds : t # SlotOf(n) => flag'[p][t] = flag[p][t]
      /\ \A d \in Ends \ {p} : flag'[d] = flag[d]
  BY <1>1, <1>2, <1>4, <1>5 DEF CommTypeOK
<1>7. ASSUME NEW d \in Ends, d # p
      PROVE  Signs(d)'
  <2>1. Peer(d) \in Ends /\ Peer(d) # e
    BY <1>1, <1>7, Pairs
  <2>2. last[d] \in Nat /\ ended[d] \in Nat /\ Signs(d)
    BY <1>1 DEF CommTypeOK, SignInv
  <2> QED
    BY <1>5, <1>6, <1>7, <2>1, <2>2, SignsSame
<1>8. Signs(p)'
  <2>1. Signs(p)
    BY <1>1 DEF SignInv
  <2>2. ASSUME NEW q \in Nat, ended[p] < q, q <= n
        PROVE  flag'[p][SlotOf(q)] = q
    <3>1. CASE q = n
      BY <1>6, <3>1
    <3>2. CASE q # n
      <4>1. q < n /\ n < q + Slots /\ q <= sent[e]
        BY <1>2, <1>3, <2>2, <3>2, SlotAssumption
      <4>2. SlotOf(q) # SlotOf(n) /\ SlotOf(q) \in SlotIds
        BY <1>2, <4>1, SlotsApart, SlotInRing
      <4> QED
        BY <1>1, <1>6, <2>1, <2>2, <4>1, <4>2 DEF Signs
    <3> QED
      BY <3>1, <3>2
  <2> QED
    BY <1>1, <1>5, <1>6, <2>1, <2>2 DEF Signs
<1> QED
  BY <1>7, <1>8 DEF SignInv

(* Every step keeps the signs.                                               *)
LEMMA SignsKept ==
  ASSUME CommInv, CommInv', SignInv, [Next]_vars
  PROVE  SignInv'
<1>1. \/ \E e \in Ends, b \in Blocks : StageArrive(e, b)
      \/ \E e \in Ends : LandFlag(e)
      \/ (UNCHANGED <<seq, bell, flag, sent>> /\ UNCHANGED <<last, ended>>)
      \/ (\E e \in Ends : Drain(e) \/ FinishDone(e)) /\ UNCHANGED <<seq, bell, flag, sent>>
  BY DEF Next, GpuStep, NicStep, Issue, StageCopy, FinishBlock, FinishDone, Trap, Drain, LandWord,
         ProxyFails, vars, gpuVars, nicVars
<1>2. CommTypeOK /\ CommTypeOK'
  BY DEF CommInv
<1>3. ASSUME UNCHANGED <<seq, bell, flag, sent>>,
             \A e \in Ends : last[e] <= last'[e] /\ ended[e] <= ended'[e]
      PROVE  SignInv'
  BY <1>2, <1>3, SignsSame DEF SignInv, CommTypeOK
<1>4. ASSUME NEW e \in Ends, Drain(e) \/ FinishDone(e)
      PROVE  \A d \in Ends : last[d] <= last'[d] /\ ended[d] <= ended'[d]
  <2>1. CASE Drain(e)
    <3>1. ended' = ended /\ (last' = last \/ last' = [last EXCEPT ![e] = last[e] + 1])
      BY <2>1 DEF Drain, Expected, gpuVars
    <3>2. last \in [Ends -> Nat] /\ ended \in [Ends -> Nat]
      BY <1>2 DEF CommTypeOK
    <3>3. ASSUME NEW d \in Ends
          PROVE  last[d] <= last'[d] /\ ended[d] <= ended'[d]
      <4>1. last[d] \in Nat /\ ended[d] \in Nat
        BY <3>2
      <4>2. last'[d] = last[d] \/ last'[d] = last[d] + 1
        BY <3>1, <3>2
      <4> QED
        BY <3>1, <4>1, <4>2
    <3> QED
      BY <3>3
  <2>2. CASE FinishDone(e)
    <3>1. last' = last /\ ended' = [ended EXCEPT ![e] = seq[e]] /\ kernel[e] = "finish"
      BY <2>2 DEF FinishDone, Runs
    <3>2. seq[e] = ended[e] + 1
      BY <3>1 DEF CommInv, Order
    <3> QED
      BY <1>2, <3>1, <3>2 DEF CommTypeOK
  <2> QED
    BY <1>4, <2>1, <2>2
<1>5. UNCHANGED <<last, ended>> => \A d \in Ends : last[d] <= last'[d] /\ ended[d] <= ended'[d]
  BY <1>2 DEF CommTypeOK
<1> QED
  BY <1>1, <1>3, <1>4, <1>5, RingSigns, FlagSigns

(* A finish kernel without its flag has a message to wait for that is on its *)
(* way: the peer's kernel, its proxy or its NIC has to act on it, and can.   *)
LEMMA SomebodyCan ==
  ASSUME CommInv, SignInv, NEW e \in Ends, ended[e] < Begun(e), Begun(e) <= Begun(Peer(e))
  PROVE  CanStep(e) \/ CanStep(Peer(e))
<1> DEFINE p == Peer(e)
<1>1. CommTypeOK /\ p \in Ends /\ Peer(p) = e
  BY Pairs DEF CommInv
<1> HIDE DEF p
<1>2. ASSUME NEW d \in Ends, kernel[d] = "stage"
      PROVE  CanStep(d)
  <2>1. arrivals[d] = Cardinality(Arrivers(d)) /\ arrivals[d] \in 0..Cardinality(Blocks)-1
    BY <1>1, <1>2 DEF CommInv, Staged, CommTypeOK
  <2>2. Arrivers(d) # Blocks
    BY <2>1, BlockCount
  <2>3. PICK b \in Blocks : block[d][b] # "done"
    BY <2>2 DEF Arrivers
  <2> QED
    BY <1>1, <1>2, <2>3 DEF CanStep, CommTypeOK
<1>3. CASE kernel[e] = "stage"
  BY <1>2, <1>3
<1>4. CASE kernel[e] # "stage"
  <2>1. /\ Begun(e) = seq[e] /\ ended[e] < seq[e] /\ seq[e] \in Nat /\ ended[e] \in Nat
        /\ sent[p] \in Nat /\ last[p] \in Nat /\ seq[p] \in Nat
    BY <1>1, <1>4 DEF Begun, CommTypeOK
  <2>2. kernel[e] = "finish" /\ seq[e] = ended[e] + 1
    BY <1>1, <1>4, <2>1 DEF CommInv, Order, CommTypeOK
  <2>3. CASE seq[e] <= sent[p]
    BY <2>1, <2>2, <2>3 DEF SignInv, Signs, CanStep, Arrived, p
  <2>4. CASE sent[p] < last[p]
    BY <2>4 DEF CanStep, p
  <2>5. CASE kernel[p] = "stage"
    BY <1>1, <1>2, <2>5 DEF p
  <2>6. CASE kernel[p] # "stage" /\ last[p] <= sent[p] /\ sent[p] < seq[e]
    <3>1. seq[e] <= seq[p]
      BY <2>1, <2>6 DEF Begun, p
    <3>2. last[p] + 1 \in Nat /\ last[p] < last[p] + 1 /\ last[p] + 1 <= seq[p]
      BY <2>1, <2>6, <3>1
    <3>3. bell[p][SlotOf(last[p] + 1)] = last[p] + 1
      BY <1>1, <3>2 DEF SignInv, Signs
    <3>4. Rung(p) >= Expected(p)
      BY <3>2, <3>3 DEF Rung, Expected, BellOf
    <3> QED
      BY <3>4 DEF CanStep, p
  <2> QED
    BY <2>1, <2>3, <2>4, <2>5, <2>6
<1> QED
  BY <1>3, <1>4

(* Kernels, proxies and NICs of two ranks never wait for each other in a      *)
(* circle: doorbells and flags are never lost, so an operation under way at   *)
(* both ranks always has somebody who need not wait.  It is what            *)
(* OperationsEnd rests on, for every number of channels, blocks and slots.   *)
THEOREM NobodyWaitsInACircle == Spec => []NoCircularWait
<1>1. Init => SignInv
  <2> SUFFICES ASSUME Init, NEW e \in Ends
               PROVE  Signs(e)
    BY DEF SignInv
  <2>1. Peer(e) \in Ends
    BY Pairs
  <2>2. seq[e] = 0 /\ last[e] = 0 /\ ended[e] = 0 /\ sent[Peer(e)] = 0
    BY <2>1 DEF Init
  <2> QED
    BY <2>2 DEF Signs
<1>2. CommInv /\ CommInv' /\ SignInv /\ [Next]_vars => SignInv'
  BY SignsKept
<1>3. CommInv /\ SignInv => NoCircularWait
  BY SomebodyCan DEF NoCircularWait
<1> QED
  BY <1>1, <1>2, <1>3, CommInvariant, PTL DEF Spec

-----------------------------------------------------------------------------
(* The work runs out.                                                        *)

ToCopy(e) == {b \in Blocks : block[e][b] = "start"}
ToFinish(e) == {b \in Blocks : block[e][b] # "done"}

\* The steps that the kernels, and the proxy and the NIC of an end owe to the
\* operations begun there.
GpuOwed(e) ==
  IF kernel[e] = "stage"
  THEN Cardinality(ToCopy(e)) + Cardinality(ToFinish(e)) + Cardinality(Blocks) + 1
  ELSE IF kernel[e] = "finish" THEN Cardinality(ToFinish(e)) + 1 ELSE 0
WireOwed(e) ==
  (Begun(e) - last[e])
    + ((Begun(e) - sent[e]) * (Cardinality(Blocks) + 1) - Cardinality(landed[e]))
Owed(e) == GpuOwed(e) + WireOwed(e)
CostOfOne == 4 * Cardinality(Blocks) + 3

\* The count never goes below zero, and at zero everything begun has ended and is
\* sent.
OwedIsCounted ==
  \A e \in Ends :
    Owed(e) \in Nat /\ (Owed(e) = 0 => ended[e] = Begun(e) /\ sent[e] = Begun(e))

\* Every step takes one off the count of its end, unless it is a failure; only
\* the issue of an operation adds to it, and always as much.
WorkRunsOut ==
  [][\/ \E e \in Ends :
          /\ \/ Issue(e) /\ Owed(e)' = Owed(e) + CostOfOne
             \/ Owed(e)' = Owed(e) - 1
          /\ \A d \in Ends \ {e} : Owed(d)' = Owed(d)
     \/ /\ (\E e \in Ends : Trap(e)) \/ (\E r \in Ranks : ProxyFails(r))
        /\ \A e \in Ends : Owed(e)' = Owed(e)]_vars

(* Counting blocks.                                                          *)
LEMMA BlocksCounted ==
  ASSUME NEW A \in SUBSET Blocks
  PROVE  /\ Cardinality(A) \in 0..Cardinality(Blocks)
         /\ Cardinality(A) = 0 => A = {}
         /\ \A b \in A : Cardinality(A \ {b}) = Cardinality(A) - 1
         /\ \A b \in Blocks \ A : Cardinality(A \cup {b}) = Cardinality(A) + 1
<1>1. IsFiniteSet(A) /\ Cardinality(A) <= Cardinality(Blocks)
  BY BlockAssumption, FS_Subset
<1>2. Cardinality(A) \in Nat /\ Cardinality(Blocks) \in Nat
  BY <1>1, BlockCount, FS_CardinalityType
<1>3. Cardinality(A) = 0 => A = {}
  BY <1>1, FS_EmptySet
<1>4. \A b \in A : Cardinality(A \ {b}) = Cardinality(A) - 1
  BY <1>1, FS_RemoveElement
<1>5. \A b \in Blocks \ A : Cardinality(A \cup {b}) = Cardinality(A) + 1
  BY OneMore
<1> QED
  BY <1>1, <1>2, <1>3, <1>4, <1>5

(* What is counted, as numbers.                                              *)
LEMMA OwedTyped ==
  ASSUME CommInv, NEW e \in Ends
  PROVE  /\ seq[e] \in Nat /\ Begun(e) \in Nat /\ last[e] \in Nat /\ sent[e] \in Nat
         /\ sent[e] <= last[e] /\ last[e] <= Begun(e) /\ Begun(e) <= sent[e] + 2
         /\ Cardinality(ToCopy(e)) \in Nat /\ Cardinality(ToFinish(e)) \in Nat
         /\ Cardinality(landed[e]) \in 0..Cardinality(Blocks)
         /\ GpuOwed(e) \in Nat /\ WireOwed(e) \in Nat
         /\ WireOwed(e) = 0 => sent[e] = Begun(e)
<1>1. /\ seq[e] \in Nat /\ last[e] \in Nat /\ sent[e] \in Nat /\ landed[e] \in SUBSET Blocks
      /\ landed[e] # {} => sent[e] < last[e]
  BY DEF CommInv, CommTypeOK, Held
<1>2. Begun(e) = IF kernel[e] = "stage" THEN seq[e] + 1 ELSE seq[e]
  BY DEF Begun, Staging
<1>3. /\ seq[e] <= sent[e] + 2 /\ (kernel[e] # "finish" => seq[e] <= sent[e] + 1)
      /\ sent[e] <= last[e] /\ last[e] <= seq[e]
  BY Near
<1>4. Begun(e) \in Nat /\ last[e] <= Begun(e) /\ Begun(e) <= sent[e] + 2
  BY <1>1, <1>2, <1>3
<1>5. Cardinality(ToCopy(e)) \in Nat /\ Cardinality(ToFinish(e)) \in Nat
  BY BlocksCounted, BlockCount DEF ToCopy, ToFinish
<1>6. /\ Cardinality(landed[e]) \in 0..Cardinality(Blocks)
      /\ Cardinality(landed[e]) # 0 => sent[e] < last[e]
  BY <1>1, BlocksCounted, FS_EmptySet
<1>7. GpuOwed(e) \in Nat
  BY <1>5, BlockCount DEF GpuOwed
<1>8. WireOwed(e) \in Nat /\ (WireOwed(e) = 0 => sent[e] = Begun(e))
  <2> DEFINE B == Cardinality(Blocks)
             L == Cardinality(landed[e])
  <2>1. B \in Nat \ {0} /\ L \in 0..B /\ (L # 0 => sent[e] < last[e])
    BY <1>6, BlockCount
  <2>2. WireOwed(e) = (Begun(e) - last[e]) + ((Begun(e) - sent[e]) * (B + 1) - L)
    BY DEF WireOwed
  <2> HIDE DEF B, L
  <2>3. CASE Begun(e) = sent[e]
    BY <1>1, <1>3, <1>4, <2>1, <2>2, <2>3
  <2>4. CASE Begun(e) = sent[e] + 1
    <3>1. Begun(e) - sent[e] = 1
      BY <1>1, <2>4
    <3>2. WireOwed(e) = (Begun(e) - last[e]) + (B + 1 - L)
      BY <2>1, <2>2, <3>1
    <3> QED
      BY <1>1, <1>4, <2>1, <3>2
  <2>5. CASE Begun(e) = sent[e] + 2
    <3>1. Begun(e) - sent[e] = 2
      BY <1>1, <2>5
    <3>2. WireOwed(e) = (Begun(e) - last[e]) + (2 * (B + 1) - L)
      BY <2>1, <2>2, <3>1
    <3> QED
      BY <1>1, <1>4, <2>1, <3>2
  <2> QED
    BY <1>1, <1>3, <1>4, <2>3, <2>4, <2>5
<1> QED
  BY <1>1, <1>3, <1>4, <1>5, <1>6, <1>7, <1>8

(* What changes nothing of an end leaves its count.                          *)
LEMMA GpuSame ==
  ASSUME NEW e \in Ends, kernel'[e] = kernel[e], block'[e] = block[e]
  PROVE  GpuOwed(e)' = GpuOwed(e)
<1>1. ToCopy(e)' = ToCopy(e) /\ ToFinish(e)' = ToFinish(e)
  BY DEF ToCopy, ToFinish
<1> QED
  BY <1>1 DEF GpuOwed

LEMMA WireSame ==
  ASSUME NEW e \in Ends, Begun(e)' = Begun(e), last'[e] = last[e], sent'[e] = sent[e],
         landed'[e] = landed[e]
  PROVE  WireOwed(e)' = WireOwed(e)
BY DEF WireOwed

LEMMA OwedSame ==
  ASSUME NEW e \in Ends, kernel'[e] = kernel[e], block'[e] = block[e], seq'[e] = seq[e],
         last'[e] = last[e], sent'[e] = sent[e], landed'[e] = landed[e]
  PROVE  Owed(e)' = Owed(e)
<1>1. Begun(e)' = Begun(e)
  BY DEF Begun, Staging
<1> QED
  BY <1>1, GpuSame, WireSame DEF Owed

Spends(e) == Owed(e)' = Owed(e) - 1 /\ \A d \in Ends \ {e} : Owed(d)' = Owed(d)

(* A kernel's step is owed by its end.                                       *)
LEMMA GpuSpends ==
  ASSUME CommInv, NEW e \in Ends, GpuOwed(e)' = GpuOwed(e) - 1, Begun(e)' = Begun(e),
         UNCHANGED <<last, sent, landed>>,
         \A d \in Ends \ {e} : kernel'[d] = kernel[d] /\ block'[d] = block[d] /\ seq'[d] = seq[d]
  PROVE  Spends(e)
<1>1. GpuOwed(e) \in Nat /\ WireOwed(e) \in Nat
  BY OwedTyped
<1>2. WireOwed(e)' = WireOwed(e)
  BY WireSame
<1>3. Owed(e)' = Owed(e) - 1
  BY <1>1, <1>2 DEF Owed
<1> QED
  BY <1>3, OwedSame DEF Spends

LEMMA StageCopySpends ==
  ASSUME CommInv, NEW e \in Ends, NEW b \in Blocks, StageCopy(e, b)
  PROVE  Spends(e)
<1>1. /\ kernel[e] = "stage" /\ block[e][b] = "start" /\ block' = [block EXCEPT ![e][b] = "copied"]
      /\ UNCHANGED <<seq, kernel, last, sent, landed>>
  BY DEF StageCopy, Runs, nicVars
<1>2. block \in [Ends -> [Blocks -> {"start", "copied", "done"}]]
  BY DEF CommInv, CommTypeOK
<1>3. \A d \in Ends, c \in Blocks : block'[d][c] = IF d = e /\ c = b THEN "copied" ELSE block[d][c]
  BY <1>1, <1>2
<1>4. \A d \in Ends \ {e} : block'[d] = block[d]
  BY <1>1, <1>2
<1>5. ToCopy(e)' = ToCopy(e) \ {b} /\ b \in ToCopy(e)
  BY <1>1, <1>3 DEF ToCopy
<1>6. ToFinish(e)' = ToFinish(e)
  BY <1>1, <1>3 DEF ToFinish
<1>7. ToCopy(e) \in SUBSET Blocks
  BY DEF ToCopy
<1>8. Cardinality(ToCopy(e)') = Cardinality(ToCopy(e)) - 1
  BY <1>5, <1>7, BlocksCounted
<1>9. GpuOwed(e)' = GpuOwed(e) - 1
  BY <1>1, <1>6, <1>8, OwedTyped, BlockCount DEF GpuOwed
<1>10. Begun(e)' = Begun(e)
  BY <1>1 DEF Begun, Staging
<1> QED
  BY <1>1, <1>4, <1>9, <1>10, GpuSpends

LEMMA StageArriveSpends ==
  ASSUME CommInv, NEW e \in Ends, NEW b \in Blocks, StageArrive(e, b)
  PROVE  Spends(e)
<1>1. /\ kernel[e] = "stage" /\ block[e][b] = "copied" /\ UNCHANGED <<last, sent, landed>>
  BY DEF StageArrive, Runs, nicVars
<1>2. /\ block \in [Ends -> [Blocks -> {"start", "copied", "done"}]]
      /\ kernel \in [Ends -> {"none", "stage", "finish"}] /\ seq \in [Ends -> Nat]
      /\ arrivals[e] = Cardinality(Arrivers(e))
  BY <1>1 DEF CommInv, CommTypeOK, Staged
<1>3. ToCopy(e) \in SUBSET Blocks /\ ToFinish(e) \in SUBSET Blocks /\ b \in ToFinish(e)
  BY <1>1 DEF ToCopy, ToFinish
<1>4. CASE LastRings(arrivals[e] + 1)
  <2>1. /\ seq' = [seq EXCEPT ![e] = seq[e] + 1] /\ kernel' = [kernel EXCEPT ![e] = "finish"]
        /\ block' = [block EXCEPT ![e] = [c \in Blocks |-> "start"]]
    BY <1>4 DEF StageArrive, Launch, Staging
  <2>2. /\ seq'[e] = seq[e] + 1 /\ kernel'[e] = "finish" /\ \A c \in Blocks : block'[e][c] = "start"
        /\ \A d \in Ends \ {e} : kernel'[d] = kernel[d] /\ block'[d] = block[d] /\ seq'[d] = seq[d]
    BY <1>2, <2>1
  <2>3. Arrivers(e) \cup {b} = Blocks
    <3>1. Arrivers(e) \in SUBSET Blocks /\ b \notin Arrivers(e)
      BY <1>1 DEF Arrivers
    <3>2. Cardinality(Arrivers(e)) + 1 = Cardinality(Blocks)
      BY <1>2, <1>4 DEF LastRings
    <3> QED
      BY <3>1, <3>2, LastArrival
  <2>4. ToCopy(e) = {} /\ ToFinish(e) = {b} /\ ToFinish(e)' = Blocks
    BY <1>1, <2>2, <2>3 DEF ToCopy, ToFinish, Arrivers
  <2>5. Cardinality(ToCopy(e)) = 0 /\ Cardinality(ToFinish(e)) = 1
    BY <2>4, FS_EmptySet, FS_Singleton
  <2>6. GpuOwed(e) = 0 + 1 + Cardinality(Blocks) + 1
    BY <1>1, <2>5 DEF GpuOwed
  <2>7. GpuOwed(e)' = Cardinality(Blocks) + 1
    BY <2>2, <2>4 DEF GpuOwed
  <2>8. GpuOwed(e)' = GpuOwed(e) - 1
    BY <2>6, <2>7, BlockCount
  <2>9. Begun(e)' = Begun(e)
    BY <1>1, <2>2 DEF Begun, Staging
  <2> QED
    BY <1>1, <2>2, <2>8, <2>9, GpuSpends
<1>5. CASE ~LastRings(arrivals[e] + 1)
  <2>1. block' = [block EXCEPT ![e][b] = "done"] /\ UNCHANGED <<seq, kernel>>
    BY <1>5 DEF StageArrive
  <2>2. \A d \in Ends, c \in Blocks : block'[d][c] = IF d = e /\ c = b THEN "done" ELSE block[d][c]
    BY <1>2, <2>1
  <2>3. \A d \in Ends \ {e} : block'[d] = block[d]
    BY <1>2, <2>1
  <2>4. ToCopy(e)' = ToCopy(e)
    BY <1>1, <2>2 DEF ToCopy
  <2>5. ToFinish(e)' = ToFinish(e) \ {b}
    BY <2>2 DEF ToFinish
  <2>6. Cardinality(ToFinish(e)') = Cardinality(ToFinish(e)) - 1
    BY <1>3, <2>5, BlocksCounted
  <2>7. GpuOwed(e)' = GpuOwed(e) - 1
    BY <1>1, <2>1, <2>4, <2>6, OwedTyped, BlockCount DEF GpuOwed
  <2>8. Begun(e)' = Begun(e)
    BY <2>1 DEF Begun, Staging
  <2> QED
    BY <1>1, <2>1, <2>3, <2>7, <2>8, GpuSpends
<1> QED
  BY <1>4, <1>5

LEMMA FinishSpends ==
  ASSUME CommInv, NEW e \in Ends, FinishDone(e) \/ \E b \in Blocks : FinishBlock(e, b)
  PROVE  Spends(e)
<1>1. kernel[e] = "finish" /\ UNCHANGED <<seq, last, sent, landed>>
  BY DEF FinishDone, FinishBlock, Runs, nicVars
<1>2. /\ block \in [Ends -> [Blocks -> {"start", "copied", "done"}]]
      /\ kernel \in [Ends -> {"none", "stage", "finish"}]
  BY DEF CommInv, CommTypeOK
<1>3. CASE FinishDone(e)
  <2>1. block' = block /\ kernel' = [kernel EXCEPT ![e] = "none"]
    BY <1>3 DEF FinishDone
  <2>2. kernel'[e] = "none" /\ \A d \in Ends \ {e} : kernel'[d] = kernel[d]
    BY <1>2, <2>1
  <2>3. ToFinish(e) = {}
    BY <1>3 DEF FinishDone, ToFinish
  <2>4. GpuOwed(e) = 0 + 1 /\ GpuOwed(e)' = 0
    BY <1>1, <2>2, <2>3, FS_EmptySet DEF GpuOwed
  <2>5. Begun(e)' = Begun(e)
    BY <1>1, <2>2 DEF Begun
  <2> QED
    BY <1>1, <2>1, <2>2, <2>4, <2>5, GpuSpends
<1>4. ASSUME NEW b \in Blocks, FinishBlock(e, b)
      PROVE  Spends(e)
  <2>1. block[e][b] = "start" /\ block' = [block EXCEPT ![e][b] = "done"] /\ kernel' = kernel
    BY <1>4 DEF FinishBlock
  <2>2. \A d \in Ends, c \in Blocks : block'[d][c] = IF d = e /\ c = b THEN "done" ELSE block[d][c]
    BY <1>2, <2>1
  <2>3. \A d \in Ends \ {e} : block'[d] = block[d]
    BY <1>2, <2>1
  <2>4. ToFinish(e)' = ToFinish(e) \ {b} /\ b \in ToFinish(e) /\ ToFinish(e) \in SUBSET Blocks
    BY <2>1, <2>2 DEF ToFinish
  <2>5. Cardinality(ToFinish(e)') = Cardinality(ToFinish(e)) - 1
    BY <2>4, BlocksCounted
  <2>6. GpuOwed(e)' = GpuOwed(e) - 1
    BY <1>1, <2>1, <2>5, OwedTyped DEF GpuOwed
  <2>7. Begun(e)' = Begun(e)
    BY <1>1, <2>1 DEF Begun
  <2> QED
    BY <1>1, <2>1, <2>3, <2>6, <2>7, GpuSpends
<1> QED
  BY <1>3, <1>4

(* So is a step of the proxy, or of the NIC.                                 *)
LEMMA WireSpends ==
  ASSUME CommInv, NEW e \in Ends, WireOwed(e)' = WireOwed(e) - 1,
         UNCHANGED <<seq, kernel, block>>,
         \A d \in Ends \ {e} : last'[d] = last[d] /\ sent'[d] = sent[d] /\ landed'[d] = landed[d]
  PROVE  Spends(e)
<1>1. GpuOwed(e) \in Nat /\ WireOwed(e) \in Nat
  BY OwedTyped
<1>2. GpuOwed(e)' = GpuOwed(e)
  BY GpuSame
<1>3. Owed(e)' = Owed(e) - 1
  BY <1>1, <1>2 DEF Owed
<1> QED
  BY <1>3, OwedSame DEF Spends

LEMMA DrainSpends ==
  ASSUME CommInv, NEW e \in Ends, Drain(e)
  PROVE  Spends(e)
<1>1. Rung(e) = Expected(e)
  BY NoOverrun DEF Drain
<1>2. last' = [last EXCEPT ![e] = last[e] + 1] /\ UNCHANGED <<seq, kernel, block, sent, landed>>
  BY <1>1 DEF Drain, Expected, gpuVars, nicVars
<1>3. last'[e] = last[e] + 1 /\ \A d \in Ends \ {e} : last'[d] = last[d]
  BY <1>2 DEF CommInv, CommTypeOK
<1>4. Begun(e)' = Begun(e)
  BY <1>2 DEF Begun, Staging
<1> DEFINE r == (Begun(e) - sent[e]) * (Cardinality(Blocks) + 1) - Cardinality(landed[e])
<1>5. WireOwed(e) = (Begun(e) - last[e]) + r /\ WireOwed(e)' = (Begun(e) - (last[e] + 1)) + r
  BY <1>2, <1>3, <1>4 DEF WireOwed
<1>6. r \in Int /\ Begun(e) \in Nat /\ last[e] \in Nat
  BY OwedTyped, BlockCount
<1> HIDE DEF r
<1>7. WireOwed(e)' = WireOwed(e) - 1
  BY <1>5, <1>6
<1> QED
  BY <1>2, <1>3, <1>7, WireSpends

LEMMA NicSpends ==
  ASSUME CommInv, NEW e \in Ends, NicStep(e)
  PROVE  Spends(e)
<1>1. UNCHANGED <<seq, kernel, block, last>>
  BY DEF NicStep, LandFlag, LandWord, gpuVars
<1>2. /\ sent \in [Ends -> Nat] /\ landed \in [Ends -> SUBSET Blocks] /\ landed[e] \in SUBSET Blocks
  BY DEF CommInv, CommTypeOK
<1>3. Begun(e)' = Begun(e)
  BY <1>1 DEF Begun, Staging
<1> DEFINE B == Cardinality(Blocks)
           L == Cardinality(landed[e])
<1>4. /\ B \in Nat /\ L \in Nat /\ Begun(e) \in Nat /\ sent[e] \in Nat /\ last[e] \in Nat
  BY OwedTyped, BlockCount
<1>5. WireOwed(e) = (Begun(e) - last[e]) + ((Begun(e) - sent[e]) * (B + 1) - L)
  BY DEF WireOwed
<1>6. ASSUME NEW b \in Blocks, LandWord(e, b)
      PROVE  Spends(e)
  <2>1. b \notin landed[e] /\ landed' = [landed EXCEPT ![e] = @ \cup {b}] /\ sent' = sent
    BY <1>6 DEF LandWord
  <2>2. landed'[e] = landed[e] \cup {b} /\ \A d \in Ends \ {e} : landed'[d] = landed[d]
    BY <1>2, <2>1
  <2>3. Cardinality(landed'[e]) = L + 1
    BY <1>2, <2>1, <2>2, BlocksCounted
  <2>4. WireOwed(e)' = (Begun(e) - last[e]) + ((Begun(e) - sent[e]) * (B + 1) - (L + 1))
    BY <1>1, <1>3, <2>1, <2>3 DEF WireOwed
  <2> DEFINE t == (Begun(e) - sent[e]) * (B + 1)
  <2>5. t \in Int
    BY <1>4
  <2> HIDE DEF B, L, t
  <2>6. WireOwed(e)' = WireOwed(e) - 1
    BY <1>4, <1>5, <2>4, <2>5 DEF t
  <2> QED
    BY <1>1, <2>1, <2>2, <2>6, WireSpends
<1>7. CASE LandFlag(e)
  <2>1. /\ landed[e] = Blocks /\ landed' = [landed EXCEPT ![e] = {}]
        /\ sent' = [sent EXCEPT ![e] = sent[e] + 1]
    BY <1>7 DEF LandFlag, Sending
  <2>2. /\ landed'[e] = {} /\ sent'[e] = sent[e] + 1
        /\ \A d \in Ends \ {e} : landed'[d] = landed[d] /\ sent'[d] = sent[d]
    BY <1>2, <2>1
  <2>3. Cardinality(landed'[e]) = 0 /\ L = B
    BY <2>1, <2>2, FS_EmptySet
  <2>4. WireOwed(e)' = (Begun(e) - last[e]) + ((Begun(e) - (sent[e] + 1)) * (B + 1) - 0)
    BY <1>1, <1>3, <2>2, <2>3 DEF WireOwed
  <2> DEFINE m == Begun(e) - (sent[e] + 1)
  <2>5. m \in Int /\ Begun(e) - sent[e] = m + 1
    BY <1>4
  <2> HIDE DEF B, L, m
  <2>6. (m + 1) * (B + 1) = m * (B + 1) + (B + 1) /\ m * (B + 1) \in Int
    BY <1>4, <2>5
  <2>7. WireOwed(e)' = WireOwed(e) - 1
    BY <1>4, <1>5, <2>3, <2>4, <2>5, <2>6 DEF m
  <2> QED
    BY <1>1, <2>2, <2>7, WireSpends
<1> QED
  BY <1>6, <1>7 DEF NicStep

(* An operation costs 4 steps a block and 3 more.                            *)
LEMMA IssueCosts ==
  ASSUME CommInv, NEW e \in Ends, Issue(e)
  PROVE  Owed(e)' = Owed(e) + CostOfOne /\ \A d \in Ends \ {e} : Owed(d)' = Owed(d)
<1>1. /\ kernel[e] = "none" /\ kernel' = [kernel EXCEPT ![e] = "stage"]
      /\ block' = [block EXCEPT ![e] = [b \in Blocks |-> "start"]]
      /\ UNCHANGED <<seq, last, sent, landed>>
  BY DEF Issue, Runs, Launch, nicVars
<1>2. /\ kernel'[e] = "stage" /\ \A b \in Blocks : block'[e][b] = "start"
      /\ \A d \in Ends \ {e} : kernel'[d] = kernel[d] /\ block'[d] = block[d]
  BY <1>1 DEF CommInv, CommTypeOK
<1>3. ToCopy(e)' = Blocks /\ ToFinish(e)' = Blocks
  BY <1>2 DEF ToCopy, ToFinish
<1> DEFINE B == Cardinality(Blocks)
           L == Cardinality(landed[e])
           m == Begun(e) - sent[e]
<1>4. GpuOwed(e) = 0 /\ GpuOwed(e)' = B + B + B + 1
  BY <1>1, <1>2, <1>3 DEF GpuOwed
<1>5. /\ B \in Nat /\ L \in Nat /\ Begun(e) \in Nat /\ sent[e] \in Nat /\ last[e] \in Nat
      /\ seq[e] \in Nat
  BY OwedTyped, BlockCount
<1>6. Begun(e)' = Begun(e) + 1
  BY <1>1, <1>2, <1>5 DEF Begun, Staging
<1>7. /\ WireOwed(e) = (Begun(e) - last[e]) + (m * (B + 1) - L)
      /\ WireOwed(e)' = ((Begun(e) + 1) - last[e]) + (((Begun(e) + 1) - sent[e]) * (B + 1) - L)
  BY <1>1, <1>6 DEF WireOwed
<1>8. m \in Int /\ (Begun(e) + 1) - sent[e] = m + 1
  BY <1>5
<1> HIDE DEF B, L, m
<1>9. (m + 1) * (B + 1) = m * (B + 1) + (B + 1) /\ m * (B + 1) \in Int
  BY <1>5, <1>8
<1>10. WireOwed(e)' = WireOwed(e) + B + 2
  BY <1>5, <1>7, <1>8, <1>9
<1>11. WireOwed(e) \in Nat
  BY OwedTyped
<1>12. Owed(e)' = Owed(e) + (4 * B + 3)
  BY <1>4, <1>5, <1>10, <1>11 DEF Owed
<1>13. ASSUME NEW d \in Ends \ {e}
       PROVE  Owed(d)' = Owed(d)
  BY <1>1, <1>2, OwedSame
<1> QED
  BY <1>12, <1>13 DEF CostOfOne, B

(* Neither kernels nor proxies nor NICs turn in circles: an operation costs a *)
(* fixed number of steps, and what is owed is never negative.  With            *)
(* NobodyWaitsInACircle: an end at which nothing is issued comes to rest, and *)
(* not before its operations and their peers' have ended.                    *)
THEOREM WorkIsFinite == Spec => []OwedIsCounted /\ WorkRunsOut
<1>1. CommInv => OwedIsCounted
  <2> SUFFICES ASSUME CommInv, NEW e \in Ends
               PROVE  /\ Owed(e) \in Nat
                      /\ Owed(e) = 0 => ended[e] = Begun(e) /\ sent[e] = Begun(e)
    BY DEF OwedIsCounted
  <2>1. /\ GpuOwed(e) \in Nat /\ WireOwed(e) \in Nat /\ (WireOwed(e) = 0 => sent[e] = Begun(e))
        /\ Cardinality(ToCopy(e)) \in Nat /\ Cardinality(ToFinish(e)) \in Nat
    BY OwedTyped
  <2>2. Owed(e) \in Nat /\ (Owed(e) = 0 => GpuOwed(e) = 0 /\ WireOwed(e) = 0)
    BY <2>1 DEF Owed
  <2>3. GpuOwed(e) = 0 => kernel[e] \notin {"stage", "finish"}
    BY <2>1, BlockCount DEF GpuOwed
  <2>4. kernel[e] \notin {"stage", "finish"} => ended[e] = Begun(e)
    BY DEF CommInv, Order, Begun
  <2> QED
    BY <2>1, <2>2, <2>3, <2>4
<1>2. CommInv /\ [Next]_vars =>
        [\/ \E e \in Ends :
             /\ \/ Issue(e) /\ Owed(e)' = Owed(e) + CostOfOne
                \/ Owed(e)' = Owed(e) - 1
             /\ \A d \in Ends \ {e} : Owed(d)' = Owed(d)
        \/ /\ (\E e \in Ends : Trap(e)) \/ (\E r \in Ranks : ProxyFails(r))
           /\ \A e \in Ends : Owed(e)' = Owed(e)]_vars
  <2> DEFINE Counts(e) ==
        /\ \/ Issue(e) /\ Owed(e)' = Owed(e) + CostOfOne
           \/ Owed(e)' = Owed(e) - 1
        /\ \A d \in Ends \ {e} : Owed(d)' = Owed(d)
      Fails == (\E e \in Ends : Trap(e)) \/ (\E r \in Ranks : ProxyFails(r))
  <2> SUFFICES ASSUME CommInv, Next
               PROVE  \/ \E e \in Ends : Counts(e)
                      \/ Fails /\ \A e \in Ends : Owed(e)' = Owed(e)
    OBVIOUS
  <2>1. ASSUME NEW e \in Ends, Issue(e)
        PROVE  Counts(e)
    BY <2>1, IssueCosts
  <2>2. ASSUME NEW e \in Ends, GpuStep(e) \/ Drain(e) \/ NicStep(e)
        PROVE  Counts(e)
    <3>1. Spends(e)
      BY <2>2, StageCopySpends, StageArriveSpends, FinishSpends, DrainSpends, NicSpends DEF GpuStep
    <3> QED
      BY <3>1 DEF Spends
  <2>3. CASE Fails
    <3>1. UNCHANGED <<kernel, block, seq, last, sent, landed>>
      BY <2>3 DEF Trap, ProxyFails, gpuVars, nicVars
    <3> QED
      BY <2>3, <3>1, OwedSame
  <2> HIDE DEF Counts
  <2> QED
    BY <2>1, <2>2, <2>3 DEF Next
<1> QED
  BY <1>1, <1>2, CommInvariant, PTL DEF Spec, WorkRunsOut
=============================================================================
