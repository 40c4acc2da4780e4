---------------------------- MODULE TickerProofs ----------------------------
(***************************************************************************)
(* What the timeout ticker promises, for any timeouts, however many are    *)
(* scheduled and however slow the receiver is.                             *)
(***************************************************************************)
EXTENDS Ticker, TLAPS

\* What was received and what is in the channel, in the order of sending.
Delivered == received \o tockChan

Types ==
    /\ ti \in Nat /\ tickChan \in Seq(Nat) /\ received \in Seq(Nat)
    /\ tockChan = <<>> \/ \E t \in Nat : tockChan = <<t>>
    /\ armed \in BOOLEAN /\ expired \in BOOLEAN /\ ch \in BOOLEAN

\* No timeout is delivered that is later than the one the timer was set for.
NothingLater == \A i \in DOMAIN Delivered : Delivered[i] <= ti

\* Something is pending for ti, or it was delivered.
Pending == ti # 0 => armed \/ expired \/ ch \/ \E i \in DOMAIN Delivered : Delivered[i] = ti

IInv == Types /\ NothingLater /\ InOrder /\ Pending

-----------------------------------------------------------------------------
\* The channels and the history are sequences of timeouts.
LEMMA AreSequences ==
    ASSUME Types
    PROVE  tockChan \in Seq(Nat) /\ received \in Seq(Nat) /\ Delivered \in Seq(Nat)
<1>1. tockChan \in Seq(Nat)
  <2>1. CASE tockChan = <<>>
    BY <2>1
  <2>2. ASSUME NEW t \in Nat, tockChan = <<t>> PROVE tockChan \in Seq(Nat)
    BY <2>2
  <2> QED
    BY <2>1, <2>2 DEF Types
<1> QED
  BY <1>1 DEF Types, Delivered

\* Only a send into the empty channel changes what was delivered: it adds ti at
\* the end; receiving moves a timeout from one sequence to the other.
LEMMA DeliveredBySend ==
    ASSUME Types, tockChan = <<>>, tockChan' = <<ti>>, received' = received
    PROVE  /\ Delivered' = Append(Delivered, ti)
           /\ Delivered \in Seq(Nat)
    BY DEF Types, Delivered

LEMMA DeliveredByReceive ==
    ASSUME Types, tockChan' = <<>>, received' = received \o tockChan
    PROVE  Delivered' = Delivered
    BY DEF Types, Delivered

\* A send keeps the order and delivers ti.
LEMMA SendKeeps ==
    ASSUME IInv, Sent, UNCHANGED <<ti, received>>
    PROVE  NothingLater' /\ InOrder' /\ \E i \in DOMAIN Delivered' : Delivered'[i] = ti'
<1> DEFINE d == Delivered
<1>1. d \in Seq(Nat) /\ Delivered' = Append(d, ti) /\ ti \in Nat
  BY DeliveredBySend DEF IInv, Sent, Types
<1>2. \A i \in DOMAIN d : d[i] <= ti
  BY DEF IInv, NothingLater
<1>3. \A i, j \in DOMAIN d : i < j => d[i] <= d[j]
  BY DEF IInv, InOrder, Delivered
<1>4. DOMAIN Delivered' = 1..(Len(d) + 1) /\ DOMAIN d = 1..Len(d) /\ Len(d) \in Nat
  BY <1>1
<1>5. \A i \in 1..Len(d) : Delivered'[i] = d[i]
  BY <1>1
<1>6. Delivered'[Len(d) + 1] = ti
  BY <1>1
<1> HIDE DEF d
<1>7. NothingLater'
  BY <1>1, <1>2, <1>4, <1>5, <1>6 DEF NothingLater
<1>8. \A i, j \in DOMAIN Delivered' : i < j => Delivered'[i] <= Delivered'[j]
  <2> TAKE i, j \in DOMAIN Delivered'
  <2> HAVE i < j
  <2>1. i \in 1..Len(d)
    BY <1>4
  <2>2. CASE j \in 1..Len(d)
    BY <2>1, <2>2, <1>3, <1>4, <1>5
  <2>3. CASE j = Len(d) + 1
    BY <2>1, <2>3, <1>2, <1>4, <1>5, <1>6
  <2> QED
    BY <2>2, <2>3, <1>4
<1>9. InOrder'
  BY <1>8 DEF InOrder, Delivered
<1> QED
  BY <1>4, <1>6, <1>7, <1>9

-----------------------------------------------------------------------------
\* Nothing is scheduled, pending or delivered when the routine starts.
LEMMA Initially == ASSUME Init PROVE IInv
<1>1. Delivered = <<>> /\ DOMAIN Delivered = {}
  BY DEF Init, Delivered
<1>2. Types
  <2>1. <<>> \in Seq(Nat) /\ 0 \in Nat
    OBVIOUS
  <2> QED
    BY <2>1 DEF Init, Types
<1>3. NothingLater /\ InOrder
  BY <1>1 DEF NothingLater, InOrder, Delivered
<1>4. Pending
  BY DEF Init, Pending
<1> QED
  BY <1>2, <1>3, <1>4 DEF IInv

\* Every case of the select, the timer and the receiver keep the invariant.
LEMMA Inductive ==
    ASSUME Timeouts \subseteq Nat, IInv, [Next]_vars
    PROVE  IInv'
<1> USE DEF timer
<1>1. ASSUME NEW t \in Timeouts, ScheduleTimeout(t) PROVE IInv'
  <2>1. UNCHANGED <<ti, armed, expired, ch, tockChan, received>>
    BY <1>1 DEF ScheduleTimeout
  <2>2. tickChan' \in Seq(Nat)
    BY <1>1 DEF ScheduleTimeout, IInv, Types
  <2>3. Types'
    BY <2>1, <2>2 DEF IInv, Types
  <2> QED
    BY <2>1, <2>3 DEF IInv, NothingLater, InOrder, Pending, Delivered
<1>2. CASE Tick
  <2>1. tickChan \in Seq(Nat) /\ tickChan # <<>> /\ ti \in Nat
    BY <1>2 DEF Tick, IInv, Types
  <2>2. Head(tickChan) \in Nat /\ Tail(tickChan) \in Seq(Nat)
    BY <2>1
  <2>3. ti' \in Nat /\ ti <= ti'
    BY <1>2, <2>1, <2>2 DEF Tick
  <2>4. armed' \in BOOLEAN /\ expired' \in BOOLEAN
    BY <1>2 DEF Tick, IInv, Types
  <2>5. Types'
    BY <1>2, <2>2, <2>3, <2>4 DEF Tick, IInv, Types
  <2>6. Delivered' = Delivered /\ InOrder'
    BY <1>2 DEF Tick, IInv, InOrder, Delivered
  <2>7. NothingLater'
    <3>1. Delivered \in Seq(Nat)
      BY AreSequences DEF IInv
    <3>2. \A i \in DOMAIN Delivered : Delivered[i] \in Nat /\ Delivered[i] <= ti
      BY <3>1 DEF IInv, NothingLater
    <3> QED
      BY <2>1, <2>3, <2>6, <3>2 DEF NothingLater
  <2>8. Pending'
    BY <1>2, <2>6 DEF Tick, IInv, Pending
  <2> QED
    BY <2>5, <2>6, <2>7, <2>8 DEF IInv
<1>3. CASE Expire
  BY <1>3 DEF Expire, IInv, Types, NothingLater, InOrder, Pending, Delivered
<1>4. CASE TimedOut
  <2>1. CASE Sent /\ UNCHANGED ch
    <3>1. NothingLater' /\ InOrder' /\ \E i \in DOMAIN Delivered' : Delivered'[i] = ti'
      BY <1>4, <2>1, SendKeeps DEF TimedOut
    <3>2. Types'
      BY <1>4, <2>1 DEF TimedOut, Sent, IInv, Types
    <3> QED
      BY <3>1, <3>2 DEF IInv, Pending
  <2>2. CASE tockChan # <<>> /\ ch' = TRUE /\ UNCHANGED tockChan
    BY <1>4, <2>2 DEF TimedOut, IInv, Types, NothingLater, InOrder, Pending, Delivered
  <2> QED
    BY <1>4, <2>1, <2>2 DEF TimedOut
<1>5. CASE SendPending
  <2>1. NothingLater' /\ InOrder' /\ \E i \in DOMAIN Delivered' : Delivered'[i] = ti'
    BY <1>5, SendKeeps DEF SendPending
  <2>2. Types'
    BY <1>5 DEF SendPending, Sent, IInv, Types
  <2> QED
    BY <2>1, <2>2 DEF IInv, Pending
<1>6. CASE Receive
  <2>1. Delivered' = Delivered
    BY <1>6, DeliveredByReceive DEF Receive, IInv
  <2>2. received \o tockChan \in Seq(Nat)
    BY AreSequences DEF IInv
  <2>3. Types'
    BY <1>6, <2>2 DEF Receive, IInv, Types
  <2>4. InOrder'
    BY <2>1 DEF IInv, InOrder, Delivered
  <2> QED
    BY <1>6, <2>1, <2>3, <2>4 DEF Receive, IInv, NothingLater, Pending
<1>7. CASE UNCHANGED vars
  BY <1>7 DEF vars, IInv, Types, NothingLater, InOrder, Pending, Delivered
<1> QED
  BY <1>1, <1>2, <1>3, <1>4, <1>5, <1>6, <1>7 DEF Next

\* The consensus state never receives a timeout after one of a later step, for
\* any number of scheduled timeouts (ticker.go, timeoutRoutine).
THEOREM ReceivesInOrder ==
    ASSUME Timeouts \subseteq Nat
    PROVE  Spec => []InOrder
<1>1. IInv => InOrder
  BY DEF IInv
<1> QED
  BY Initially, Inductive, <1>1, PTL DEF Spec

\* What ToSet finds is what has an index, in either order of the sequences.
LEMMA PendingIsNotLost == ASSUME IInv PROVE NotLost
<1> SUFFICES ASSUME NEW i \in DOMAIN Delivered, Delivered[i] = ti
             PROVE  ti \in ToSet(tockChan \o received)
  BY DEF IInv, Pending, NotLost
<1>1. i \in 1..(Len(received) + Len(tockChan)) /\ received \in Seq(Nat) /\ tockChan \in Seq(Nat)
  BY AreSequences DEF IInv, Delivered
<1>2. CASE i <= Len(received)
  <2>1. (tockChan \o received)[i + Len(tockChan)] = ti /\ i + Len(tockChan) \in DOMAIN (tockChan \o received)
    BY <1>1, <1>2 DEF Delivered
  <2> QED
    BY <2>1 DEF ToSet
<1>3. CASE i > Len(received)
  <2>1. (tockChan \o received)[i - Len(received)] = ti /\ i - Len(received) \in DOMAIN (tockChan \o received)
    BY <1>1, <1>3 DEF Delivered
  <2> QED
    BY <2>1 DEF ToSet
<1> QED
  BY <1>1, <1>2, <1>3

\* The timeout set last has been received or is on its way, however slow the
\* receiver is and however many timeouts are scheduled (ticker.go, the pending
\* send through ch).
THEOREM NeverLost ==
    ASSUME Timeouts \subseteq Nat
    PROVE  Spec => []NotLost
<1>1. IInv => NotLost
  BY PendingIsNotLost
<1> QED
  BY Initially, Inductive, <1>1, PTL DEF Spec
=============================================================================
