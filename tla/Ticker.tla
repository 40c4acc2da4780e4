------------------------------- MODULE Ticker -------------------------------
(***************************************************************************)
(* The goroutine that turns timeouts the consensus state schedules into    *)
(* timeouts it receives (consensus/ticker.go, timeoutRoutine).  A timeout  *)
(* is named by the place of its height, round and step in their order      *)
(* (1, 2, ...; 0 is the zero timeoutInfo).  Durations are left out: the    *)
(* timer expires at any time after it is set.                              *)
(***************************************************************************)
EXTENDS Integers, Sequences, SequencesExt

CONSTANTS
    Timeouts,   \* the timeouts, 1..n
    MaxTicks    \* bound: how many are scheduled, later ones or again

VARIABLES
    tickChan,        \* scheduled, not yet seen by the goroutine
    ti,              \* the timeout the timer was set for last
    armed, expired,  \* the timer runs; its channel holds a value
    ch,              \* a timeout waits for a place in tockChan
    tockChan,        \* timeouts for the consensus state, at most one
    received,        \* history: what the consensus state received
    ticks            \* how many were scheduled

timer == <<armed, expired>>
vars == <<tickChan, ti, timer, ch, tockChan, received, ticks>>

Init ==
    /\ tickChan = <<>> /\ ti = 0 /\ armed = FALSE /\ expired = FALSE
    /\ ch = FALSE /\ tockChan = <<>> /\ received = <<>> /\ ticks = 0

ScheduleTimeout(newti) ==
    /\ ticks < MaxTicks /\ ticks' = ticks + 1
    /\ tickChan' = Append(tickChan, newti)
    /\ UNCHANGED <<ti, timer, ch, tockChan, received>>

\* case newti := <-t.tickChan: ignored when not later; else the timer is
\* stopped and drained and set anew.
Tick ==
    /\ tickChan # <<>> /\ tickChan' = Tail(tickChan)
    /\ IF Head(tickChan) <= ti THEN UNCHANGED <<ti, timer>>
       ELSE ti' = Head(tickChan) /\ armed' = TRUE /\ expired' = FALSE
    /\ UNCHANGED <<ch, tockChan, received, ticks>>

\* The runtime's timer.
Expire ==
    /\ armed /\ armed' = FALSE /\ expired' = TRUE
    /\ UNCHANGED <<tickChan, ti, ch, tockChan, received, ticks>>

Sent == tockChan = <<>> /\ tockChan' = <<ti>>

\* Mutant: a timeout that finds the channel full is dropped.
TimedOut_Drops ==
    /\ expired /\ expired' = FALSE
    /\ Sent \/ (tockChan # <<>> /\ UNCHANGED tockChan)
    /\ UNCHANGED <<tickChan, ti, armed, ch, received, ticks>>

\* case <-t.timer.C: sent at once or, when the channel is full, later.
TimedOut ==
    /\ expired /\ expired' = FALSE
    /\ \/ Sent /\ UNCHANGED ch
       \/ tockChan # <<>> /\ ch' = TRUE /\ UNCHANGED tockChan
    /\ UNCHANGED <<tickChan, ti, armed, received, ticks>>

\* case ch <- ti: what is sent is the timeout of now.
SendPending ==
    /\ ch /\ Sent /\ ch' = FALSE
    /\ UNCHANGED <<tickChan, ti, timer, received, ticks>>

\* receiveRoutine: ti := <-cs.timeoutTicker.Chan()
Receive ==
    /\ tockChan # <<>> /\ tockChan' = <<>>
    /\ received' = received \o tockChan
    /\ UNCHANGED <<tickChan, ti, timer, ch, ticks>>

Next ==
    \/ \E newti \in Timeouts : ScheduleTimeout(newti)
    \/ Tick \/ Expire \/ TimedOut \/ SendPending \/ Receive

Spec == Init /\ [][Next]_vars

-----------------------------------------------------------------------------
(* Properties                                                              *)

\* The timeout set last has been received or is on its way, in the timer or
\* in a channel: however slow the consensus state is to receive, the routine
\* never sits with nothing pending for the step it is to end.
NotLost ==
    ti # 0 => armed \/ expired \/ ch \/ ti \in ToSet(tockChan \o received)

\* The consensus state never receives a timeout after one of a later step
\* ("scheduling timeouts only for greater height/round/step").
InOrder ==
    LET all == received \o tockChan
    IN  \A i, j \in DOMAIN all : i < j => all[i] <= all[j]

\* A timeout that was waiting for a place gives its place to the next one,
\* which the timer then sends again: no timeout is received more than twice.
AtMostTwice ==
    LET all == received \o tockChan
    IN  \A t \in Timeouts : Len(SelectSeq(all, LAMBDA r : r = t)) <= 2

=============================================================================
