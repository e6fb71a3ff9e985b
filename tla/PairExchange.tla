---------------------------- MODULE PairExchange ----------------------------
(***************************************************************************)
(* What the two-rank collectives promise: the k-th operation of a rank on  *)
(* a channel ends with the message of the peer's k-th operation on it, and *)
(* not before the peer has begun that operation.                           *)
(***************************************************************************)
EXTENDS Naturals

CONSTANTS
  Ends,     \* the ends of the channels, <<rank, channel>>
  Other,    \* [Ends -> Ends]: the other end of the channel
  Words     \* the parts of a message

VARIABLES
  begun,    \* [Ends -> Nat]: operations begun
  ended,    \* [Ends -> Nat]: operations ended
  got       \* [Ends -> [Words -> Nat]]: the operation each received word is of

exchangeVars == <<begun, ended, got>>

ExchangeInit ==
  /\ begun = [e \in Ends |-> 0]
  /\ ended = [e \in Ends |-> 0]
  /\ got = [e \in Ends |-> [w \in Words |-> 0]]

Begin(e) ==
  /\ begun[e] = ended[e]
  /\ begun' = [begun EXCEPT ![e] = @ + 1]
  /\ UNCHANGED <<ended, got>>

End(e) ==
  /\ ended[e] < begun[e]
  /\ begun[Other[e]] >= begun[e]
  /\ ended' = [ended EXCEPT ![e] = begun[e]]
  /\ got' = [got EXCEPT ![e] = [w \in Words |-> begun[e]]]
  /\ UNCHANGED begun

ExchangeNext == \E e \in Ends : Begin(e) \/ End(e)

ExchangeSpec == ExchangeInit /\ [][ExchangeNext]_exchangeVars
=============================================================================
