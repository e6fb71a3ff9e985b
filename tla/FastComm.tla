------------------------------ MODULE FastComm ------------------------------
(***************************************************************************)
(* The two-rank collectives of the decode path (native-source/fastcomm.cu, *)
(* serving/ds41/fastcomm.py).  Each operation of a channel is a stage      *)
(* kernel, which copies the rank's message to a send slot and rings its    *)
(* doorbell, and a finish kernel, which waits for the peer's flag and      *)
(* reads the receive slot.  A proxy thread turns doorbells into RDMA       *)
(* writes, data and then flag; the NIC reads the send slot when it sends.  *)
(* The word of a message is the sequence number of its operation: the      *)
(* buffers tell rank and channel.  A kernel's blocks are one word each.    *)
(***************************************************************************)
EXTENDS Naturals, FiniteSets

CONSTANTS
  Channels,  \* kChannels
  Blocks,    \* the blocks of a kernel, and the words they copy
  Slots,     \* kSlots
  MaxSeq,    \* bound on the operations of a channel
  MayFail    \* whether a work request may fail and a finish kernel may trap

ASSUME SlotAssumption == Slots \in Nat /\ Slots >= 2
ASSUME BlockAssumption == IsFiniteSet(Blocks) /\ Blocks # {}
ASSUME FailAssumption == MayFail \in BOOLEAN /\ MaxSeq \in Nat

Ranks == 0..1
Ends == Ranks \X Channels
Peer(e) == <<1 - e[1], e[2]>>
SlotOf(seq) == seq % Slots
SlotIds == 0..Slots-1

VARIABLES
  seq,       \* [Ends -> Nat]: v.seq, in device memory
  kernel,    \* [Ends -> {"none", "stage", "finish"}]: at the head of the stream
  block,     \* [Ends -> [Blocks -> {"start", "copied", "done"}]]
  arrivals,  \* [Ends -> Nat]: v.arrivals
  send,      \* [Ends -> [SlotIds -> [Blocks -> Nat]]]
  bell,      \* [Ends -> [SlotIds -> Nat]]: doorbells[slot].seq
  last,      \* [Ends -> Nat]: the proxy's last posted sequence
  sent,      \* [Ends -> Nat]: the last sequence whose flag the NIC has written
  landed,    \* [Ends -> SUBSET Blocks]: words of sequence sent+1 written so far
  recv,      \* [Ends -> [SlotIds -> [Blocks -> Nat]]]
  flag,      \* [Ends -> [SlotIds -> Nat]]: recv_flags
  out,       \* [Ends -> [Blocks -> Nat]]: the output being written
  ended, got,\* [Ends -> ...]: the last finished operation and its output
  error,     \* [Ranks -> Nat]: the proxy's error code; nonzero, it has returned
  trapped    \* [Ranks -> BOOLEAN]: __trap: no kernel of the rank runs any more

gpuVars == <<seq, kernel, block, arrivals, out, ended, got, trapped>>
nicVars == <<sent, landed, recv, flag>>
vars == <<gpuVars, send, bell, last, nicVars, error>>

\* Every cursor and slot is well typed, and the arrival counter of a stage kernel
\* never reaches the size of its grid: the last block resets it.
CommTypeOK ==
  /\ seq \in [Ends -> Nat]
  /\ kernel \in [Ends -> {"none", "stage", "finish"}]
  /\ block \in [Ends -> [Blocks -> {"start", "copied", "done"}]]
  /\ arrivals \in [Ends -> 0..Cardinality(Blocks)-1]
  /\ send \in [Ends -> [SlotIds -> [Blocks -> Nat]]]
  /\ bell \in [Ends -> [SlotIds -> Nat]]
  /\ last \in [Ends -> Nat]
  /\ sent \in [Ends -> Nat]
  /\ landed \in [Ends -> SUBSET Blocks]
  /\ recv \in [Ends -> [SlotIds -> [Blocks -> Nat]]]
  /\ flag \in [Ends -> [SlotIds -> Nat]]
  /\ out \in [Ends -> [Blocks -> Nat]]
  /\ ended \in [Ends -> Nat]
  /\ got \in [Ends -> [Blocks -> Nat]]
  /\ error \in [Ranks -> 0..3]
  /\ trapped \in [Ranks -> BOOLEAN]

Blank == [b \in Blocks |-> 0]

Init ==
  /\ seq = [e \in Ends |-> 0]
  /\ kernel = [e \in Ends |-> "none"]
  /\ block = [e \in Ends |-> [b \in Blocks |-> "done"]]
  /\ arrivals = [e \in Ends |-> 0]
  /\ send = [e \in Ends |-> [s \in SlotIds |-> Blank]]
  /\ bell = [e \in Ends |-> [s \in SlotIds |-> 0]]
  /\ last = [e \in Ends |-> 0]
  /\ sent = [e \in Ends |-> 0]
  /\ landed = [e \in Ends |-> {}]
  /\ recv = [e \in Ends |-> [s \in SlotIds |-> Blank]]
  /\ flag = [e \in Ends |-> [s \in SlotIds |-> 0]]
  /\ out = [e \in Ends |-> Blank]
  /\ ended = [e \in Ends |-> 0]
  /\ got = [e \in Ends |-> Blank]
  /\ error = [r \in Ranks |-> 0]
  /\ trapped = [r \in Ranks |-> FALSE]

-----------------------------------------------------------------------------
(* The kernels of a stream, one after the other *)

Runs(e, k) == kernel[e] = k /\ ~trapped[e[1]]
Launch(e, k) ==
  /\ kernel' = [kernel EXCEPT ![e] = k]
  /\ block' = [block EXCEPT ![e] = [b \in Blocks |-> "start"]]

\* fc_allreduce_bf16 or fc_allgather: both ranks issue the same operations on a
\* channel; the stage kernel reaches the head of the stream.
Issue(e) ==
  /\ Runs(e, "none")
  /\ seq[e] < MaxSeq
  /\ Launch(e, "stage")
  /\ UNCHANGED <<seq, arrivals, out, ended, got, trapped, send, bell, last, nicVars, error>>

\* The sequence of the running stage kernel: no block writes v.seq before all
\* have read it.
Staging(e) == seq[e] + 1

StageCopy(e, b) ==
  /\ Runs(e, "stage")
  /\ block[e][b] = "start"
  /\ block' = [block EXCEPT ![e][b] = "copied"]
  /\ send' = [send EXCEPT ![e][SlotOf(Staging(e))][b] = Staging(e)]
  /\ UNCHANGED <<seq, kernel, arrivals, out, ended, got, trapped, bell, last, nicVars, error>>

\* Mutant: one doorbell for the whole channel.
OneBell(s) == 0
BellOf(s) == s

\* Mutant: the counter keeps its value for the next kernel.
KeptArrivals(n) == n
AfterLast(n) == 0

\* Mutant: the first block to arrive rings.
FirstRings(n) == n = 1
LastRings(n) == n = Cardinality(Blocks)

\* The last block to arrive resets the counter, rings and advances v.seq.
StageArrive(e, b) ==
  /\ Runs(e, "stage")
  /\ block[e][b] = "copied"
  /\ IF LastRings(arrivals[e] + 1)
     THEN /\ arrivals' = [arrivals EXCEPT ![e] = AfterLast(@ + 1)]
          /\ bell' = [bell EXCEPT ![e][BellOf(SlotOf(Staging(e)))] = Staging(e)]
          /\ seq' = [seq EXCEPT ![e] = Staging(e)]
          /\ Launch(e, "finish")
     ELSE /\ arrivals' = [arrivals EXCEPT ![e] = @ + 1]
          /\ block' = [block EXCEPT ![e][b] = "done"]
          /\ UNCHANGED <<bell, seq, kernel>>
  /\ UNCHANGED <<out, ended, got, trapped, send, last, nicVars, error>>

\* Mutant: any flag of the slot is taken for the awaited one.
AnyFlag(e) == flag[e][SlotOf(seq[e])] # 0
\* Mutant: the finish kernel reads the slot without waiting.
NoWait(e) == TRUE
Arrived(e) == flag[e][SlotOf(seq[e])] = seq[e]

\* wait_peer, and the block's share of the output.
FinishBlock(e, b) ==
  /\ Runs(e, "finish")
  /\ block[e][b] = "start"
  /\ Arrived(e)
  /\ out' = [out EXCEPT ![e][b] = recv[e][SlotOf(seq[e])][b]]
  /\ block' = [block EXCEPT ![e][b] = "done"]
  /\ UNCHANGED <<seq, kernel, arrivals, ended, got, trapped, send, bell, last, nicVars, error>>

FinishDone(e) ==
  /\ Runs(e, "finish")
  /\ \A b \in Blocks : block[e][b] = "done"
  /\ kernel' = [kernel EXCEPT ![e] = "none"]
  /\ ended' = [ended EXCEPT ![e] = seq[e]]
  /\ got' = [got EXCEPT ![e] = out[e]]
  /\ UNCHANGED <<seq, block, arrivals, out, trapped, send, bell, last, nicVars, error>>

\* wait_peer gives up after some thirty seconds; the context is lost.
Trap(e) ==
  /\ MayFail
  /\ Runs(e, "finish")
  /\ ~Arrived(e)
  /\ trapped' = [trapped EXCEPT ![e[1]] = TRUE]
  /\ UNCHANGED <<seq, kernel, block, arrivals, out, ended, got, send, bell, last,
                 nicVars, error>>

-----------------------------------------------------------------------------
(* proxy_loop, and the NIC *)

Expected(e) == last[e] + 1
Rung(e) == bell[e][BellOf(SlotOf(Expected(e)))]

\* The next doorbell in order is posted; "doorbell overwritten before it was
\* consumed" ends the proxy.
Drain(e) ==
  /\ error[e[1]] = 0
  /\ Rung(e) >= Expected(e)
  /\ IF Rung(e) = Expected(e)
     THEN last' = [last EXCEPT ![e] = Expected(e)] /\ UNCHANGED error
     ELSE error' = [error EXCEPT ![e[1]] = 1] /\ UNCHANGED last
  /\ UNCHANGED <<gpuVars, send, bell, nicVars>>

Outstanding(r) == \E c \in Channels : sent[<<r, c>>] < last[<<r, c>>]

\* A work request that cannot be posted (2), or completes with an error (3).
ProxyFails(r) ==
  /\ MayFail
  /\ error[r] = 0
  /\ \/ error' = [error EXCEPT ![r] = 2]
     \/ Outstanding(r) /\ error' = [error EXCEPT ![r] = 3]
  /\ UNCHANGED <<gpuVars, send, bell, last, nicVars>>

\* One reliable connection, memory without relaxed ordering: a message's words
\* land in any order, and its flag after them.
Sending(e) == sent[e] + 1
CanSend(e) == sent[e] < last[e] /\ error[e[1]] # 3

LandWord(e, b) ==
  /\ CanSend(e)
  /\ b \notin landed[e]
  /\ landed' = [landed EXCEPT ![e] = @ \cup {b}]
  /\ recv' = [recv EXCEPT ![Peer(e)][SlotOf(Sending(e))][b] =
                send[e][SlotOf(Sending(e))][b]]
  /\ UNCHANGED <<gpuVars, send, bell, last, sent, flag, error>>

LandFlag(e) ==
  /\ CanSend(e)
  /\ landed[e] = Blocks
  /\ landed' = [landed EXCEPT ![e] = {}]
  /\ flag' = [flag EXCEPT ![Peer(e)][SlotOf(Sending(e))] = Sending(e)]
  /\ sent' = [sent EXCEPT ![e] = Sending(e)]
  /\ UNCHANGED <<gpuVars, send, bell, last, recv, error>>

-----------------------------------------------------------------------------
(* Specification *)

GpuStep(e) ==
  \/ \E b \in Blocks : StageCopy(e, b) \/ StageArrive(e, b) \/ FinishBlock(e, b)
  \/ FinishDone(e)
NicStep(e) == LandFlag(e) \/ \E b \in Blocks : LandWord(e, b)

Next ==
  \/ \E e \in Ends : Issue(e) \/ GpuStep(e) \/ Trap(e) \/ Drain(e) \/ NicStep(e)
  \/ \E r \in Ranks : ProxyFails(r)

Spec == Init /\ [][Next]_vars

\* Kernels, proxy threads and NICs run; nothing obliges a host to issue an
\* operation, nor anything to fail.
Fairness ==
  \A e \in Ends : WF_vars(GpuStep(e)) /\ WF_vars(Drain(e)) /\ WF_vars(NicStep(e))

LiveSpec == Spec /\ Fairness

-----------------------------------------------------------------------------
(* Properties *)

Begun(e) == IF kernel[e] = "stage" THEN Staging(e) ELSE seq[e]

PX == INSTANCE PairExchange
        WITH begun <- [e \in Ends |-> Begun(e)], Words <- Blocks,
             Other <- [e \in Ends |-> Peer(e)]

\* Every operation ends with the peer's message of the same operation, whole and
\* not overwritten, however far each of GPU, proxy and NIC has got.
ExchangeIsExact == PX!ExchangeSpec

\* "The GPU cannot run more than two sequences ahead of this thread", and no
\* doorbell is ever overwritten before the proxy has consumed it.
AheadOfProxy ==
  /\ \A e \in Ends : seq[e] <= last[e] + 2
  /\ \A r \in Ranks : error[r] # 1

\* No slot is reused while its last content is still wanted: a stage kernel
\* writes a send slot the NIC has done with, the NIC a receive slot the peer's
\* finish kernel has read.
SlotsNeverLap ==
  \A e \in Ends :
    /\ kernel[e] = "stage" => Staging(e) <= sent[e] + Slots
    /\ sent[e] < last[e] => Sending(e) <= ended[Peer(e)] + Slots

Failed == \E r \in Ranks : trapped[r] \/ error[r] \in {2, 3}

\* An operation that both ranks have begun ends at both, unless a work request
\* fails or a finish kernel traps.
OperationsEnd ==
  \A e \in Ends : \A n \in 1..MaxSeq :
    Begun(e) >= n /\ Begun(Peer(e)) >= n ~> ended[e] >= n \/ Failed

-----------------------------------------------------------------------------
(* The inductive invariant behind them (FastComm_proofs) *)

\* Who can be how far: GPU, proxy and NIC of a rank, and the peer's NIC.
Order(e) ==
  /\ sent[e] <= last[e] /\ last[e] <= seq[e]
  /\ seq[e] = IF kernel[e] = "finish" THEN ended[e] + 1 ELSE ended[e]
  /\ ended[e] <= sent[Peer(e)]
  /\ \A b \in Blocks :
       kernel[e] = "finish" /\ block[e][b] = "done" => seq[e] <= sent[Peer(e)]
  /\ \A s \in SlotIds : flag[e][s] <= sent[Peer(e)]

\* A doorbell holds a sequence of its own slot, or none.
Bells(e) ==
  \A s \in SlotIds : bell[e][s] <= seq[e] /\ (bell[e][s] # 0 => SlotOf(bell[e][s]) = s)

Arrivers(e) == {b \in Blocks : block[e][b] = "done"}

\* The stage kernel counts its blocks, and what they have copied is there.
Staged(e) ==
  kernel[e] = "stage" =>
    /\ arrivals[e] = Cardinality(Arrivers(e))
    /\ \A b \in Blocks :
         block[e][b] # "start" => send[e][SlotOf(Staging(e))][b] = Staging(e)

\* Messages not yet landed are whole in their send slots, landed ones that are
\* not yet read are whole in their receive slots.
Held(e) ==
  /\ \A q \in Nat : sent[e] < q /\ q <= seq[e] =>
       \A b \in Blocks : send[e][SlotOf(q)][b] = q
  /\ landed[e] # {} => sent[e] < last[e]
  /\ \A b \in landed[e] : recv[Peer(e)][SlotOf(Sending(e))][b] = Sending(e)
  /\ \A q \in Nat : ended[e] < q /\ q <= sent[Peer(e)] =>
       \A b \in Blocks : recv[e][SlotOf(q)][b] = q

\* What the finish kernel has put out is of its operation.
Output(e) ==
  kernel[e] = "finish" => \A b \in Blocks : block[e][b] = "done" => out[e][b] = seq[e]

Idle(e) == kernel[e] # "stage" => arrivals[e] = 0

CommInv ==
  /\ CommTypeOK
  /\ \A e \in Ends : Order(e) /\ Bells(e) /\ Staged(e) /\ Held(e) /\ Output(e) /\ Idle(e)
=============================================================================
