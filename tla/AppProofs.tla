------------------------------ MODULE AppProofs -----------------------------
(***************************************************************************)
(* The application, for any accounts, transactions, blocks and crashes.    *)
(*                                                                         *)
(* Sound is what every store keeps: a transaction in the log has a         *)
(* sequence number its account has passed, so none is there twice.  Every  *)
(* operation of runTx keeps it; loops are handled by induction on the      *)
(* position (LeastExists).  AInv then says which part of the chain each    *)
(* store and version holds at each step of Commit.                         *)
(***************************************************************************)
EXTENDS App, WellFoundedInduction, TLAPS

\* Accounts have different numbers, below the next one.
Numbered(accs, next) ==
    \A a, b \in Addrs : accs[a] # NoAccount =>
        /\ accs[a].num < next
        /\ a # b /\ accs[b] # NoAccount => accs[a].num # accs[b].num

\* The account of a logged transaction has passed its sequence number, and no
\* transaction is logged twice.
Logged(accs, log) ==
    /\ \A i \in DOMAIN log : log[i].seq < accs[log[i].from].seq
    /\ \A i, j \in DOMAIN log : log[i] = log[j] => i = j

SoundMain(m) == m \in MainStore /\ Numbered(m.accs, m.next) /\ Logged(m.accs, m.log)
Sound(st) == st \in Store /\ SoundMain(st.main)

-----------------------------------------------------------------------------
(* Induction *)

\* A set of natural numbers has a least member.
LEMMA LeastExists ==
    ASSUME NEW T \in SUBSET Nat, T # {}
    PROVE  \E m \in T : \A y \in T : m <= y
<1> DEFINE R == {ss \in Nat \X Nat : ss[1] < ss[2]}
<1>1. IsWellFoundedOn(R, Nat)
  BY Zenon, NatLessThanWellFounded DEF OpToRel
<1>2. PICK m \in T : \A y \in T : ~(<<y, m>> \in R)
  <2> HIDE DEF R
  <2> QED
    BY Zenon, <1>1, WFMin
<1>3. ASSUME NEW y \in T PROVE m <= y
  <2>1. <<y, m>> \in Nat \X Nat /\ <<y, m>>[1] = y /\ <<y, m>>[2] = m
    BY Zenon
  <2>2. ~(y < m)
    BY Zenon, <1>2, <2>1
  <2> QED
    BY <2>2
<1> QED
  BY Zenon, <1>3

\* What holds for 0 and passes from one number to the next holds up to n.
LEMMA UpTo ==
    ASSUME NEW n \in Nat, NEW S, 0 \in S, \A i \in 1..n : i - 1 \in S => i \in S
    PROVE  \A i \in 0..n : i \in S
<1> DEFINE T == {i \in Nat : i <= n /\ i \notin S}
<1>1. CASE T = {}
  BY <1>1
<1>2. CASE T # {}
  <2>1. PICK m \in T : \A y \in T : m <= y
    <3>1. T \in SUBSET Nat
      BY Zenon
    <3> HIDE DEF T
    <3> QED
      BY Zenon, <1>2, <3>1, LeastExists
  <2>2. m \in 1..n /\ m - 1 \in 0..n
    BY <2>1
  <2>3. m - 1 \in S
    BY <2>1, <2>2
  <2> QED
    BY Zenon, <2>1, <2>2, <2>3
<1> QED
  BY Zenon, <1>1, <1>2

-----------------------------------------------------------------------------
(* Coins *)

\* Kept(st, t): t has the log, the objects and the sequence numbers of st.
Kept(st, t) ==
    /\ t.base = st.base /\ t.main.hash = st.main.hash /\ t.main.log = st.main.log
    /\ \A b \in Addrs : t.main.accs[b].seq = st.main.accs[b].seq
    /\ \A b \in Addrs : Exists(st, b) => Exists(t, b)

\* What a store gets when its accounts change.
LEMMA NewAccounts ==
    ASSUME NEW st, Sound(st), NEW accs \in [Addrs -> Account \cup {NoAccount}], NEW next \in Nat,
           Numbered(accs, next),
           \A b \in Addrs : /\ accs[b].seq = st.main.accs[b].seq
                            /\ st.main.accs[b] # NoAccount => accs[b] # NoAccount,
           NEW t \in Store, t.base = st.base, t.main.hash = st.main.hash, t.main.log = st.main.log,
           t.main.accs = accs, t.main.next = next
    PROVE  Sound(t) /\ Kept(st, t)
<1>1. /\ st.main.log \in Seq(Txs) /\ Logged(st.main.accs, st.main.log)
      /\ st.main.accs \in [Addrs -> Account \cup {NoAccount}]
  BY Zenon DEF Sound, SoundMain, Store, MainStore
<1>2. \A i \in DOMAIN st.main.log : st.main.log[i].from \in Addrs
  BY SMTT(40), <1>1, TxAssumption
<1>3. Logged(accs, st.main.log)
  BY Zenon, <1>1, <1>2 DEF Logged
<1>4. Sound(t)
  BY Zenon, <1>3 DEF Sound, SoundMain, Store
<1>5. Kept(st, t)
  BY Zenon DEF Kept, Exists
<1> QED
  BY Zenon, <1>4, <1>5

\* SetCoins, of an account or for an address without one.
LEMMA SetCoinsKeeps ==
    ASSUME NEW st, Sound(st), NEW a \in Addrs, NEW n \in Nat
    PROVE  LET t == SetCoins(st, a, n)
           IN  Sound(t) /\ Kept(st, t) /\ Exists(t, a)
<1> DEFINE t == SetCoins(st, a, n)
           old == st.main.accs
           acc == IF Exists(st, a) THEN [old[a] EXCEPT !.coins = n]
                  ELSE [coins |-> n, seq |-> 0, num |-> st.main.next]
           accs == [old EXCEPT ![a] = acc]
           next == IF Exists(st, a) THEN st.main.next ELSE st.main.next + 1
           main == [st.main EXCEPT !.accs = accs, !.next = next]
<1>1. /\ st \in Store /\ st.main \in MainStore /\ st.main.next \in Nat
      /\ old \in [Addrs -> Account \cup {NoAccount}] /\ Numbered(old, st.main.next)
  BY Zenon DEF Sound, SoundMain, Store, MainStore
<1>2. acc \in Account /\ acc.seq = old[a].seq /\ acc # NoAccount /\ next \in Nat
  <2>1. CASE Exists(st, a)
    <3>1. old[a] \in Account
      BY Zenon, <1>1, <2>1 DEF Exists
    <3> QED
      BY <1>1, <2>1, <3>1 DEF Account, NoAccount
  <2>2. CASE ~Exists(st, a)
    BY <1>1, <2>2 DEF Exists, Account, NoAccount
  <2> QED
    BY Zenon, <2>1, <2>2
<1>3. /\ acc.num < next
      /\ \A b \in Addrs \ {a} : old[b] # NoAccount => old[b].num # acc.num /\ old[b].num < next
  <2>1. \A b \in Addrs : old[b] # NoAccount => old[b].num \in Nat
    BY Zenon, <1>1 DEF Account
  <2>2. CASE Exists(st, a)
    <3>1. acc.num = old[a].num /\ next = st.main.next
      BY Zenon, <1>1, <2>2 DEF Exists, Account
    <3> QED
      BY Zenon, <1>1, <2>1, <2>2, <3>1 DEF Exists, Numbered
  <2>3. CASE ~Exists(st, a)
    <3>1. acc.num = st.main.next /\ next = st.main.next + 1
      BY Zenon, <2>3
    <3> QED
      BY <1>1, <2>1, <3>1 DEF Numbered
  <2> QED
    BY Zenon, <2>2, <2>3
<1>4. t = [st EXCEPT !.main = main]
  <2>1. CASE Exists(st, a)
    <3>1. t = [st EXCEPT !.main = [st.main EXCEPT !.accs = accs]]
      BY Zenon, <2>1 DEF SetCoins
    <3>2. [st.main EXCEPT !.accs = accs] = main
      BY Zenon, <1>1, <2>1 DEF MainStore
    <3> QED
      BY Zenon, <3>1, <3>2
  <2>2. CASE ~Exists(st, a)
    <3>1. t = [[st EXCEPT !.main.accs[a] = acc] EXCEPT !.main.next = @ + 1]
      BY Zenon, <2>2 DEF SetCoins
    <3> QED
      BY Zenon, <1>1, <2>2, <3>1 DEF Store, MainStore
  <2> QED
    BY Zenon, <2>1, <2>2
<1> HIDE DEF acc, next
<1>5. /\ accs \in [Addrs -> Account \cup {NoAccount}]
      /\ accs[a] = acc /\ \A b \in Addrs \ {a} : accs[b] = old[b]
  BY Zenon, <1>1, <1>2
<1> HIDE DEF accs
<1>6. Numbered(accs, next)
  BY <1>1, <1>3, <1>5 DEF Numbered
<1>7. \A b \in Addrs : accs[b].seq = old[b].seq /\ (old[b] # NoAccount => accs[b] # NoAccount)
  BY Zenon, <1>2, <1>5
<1>8. /\ main \in MainStore /\ main.accs = accs /\ main.next = next
      /\ main.hash = st.main.hash /\ main.log = st.main.log
  BY ZenonT(40), <1>1, <1>2, <1>5 DEF MainStore
<1> HIDE DEF main, t
<1>9. t \in Store /\ t.base = st.base /\ t.main = main
  BY Zenon, <1>1, <1>4, <1>8 DEF Store
<1>10. Sound(t) /\ Kept(st, t)
  BY Zenon, <1>2, <1>5, <1>6, <1>7, <1>8, <1>9, NewAccounts
<1>11. Exists(t, a)
  BY Zenon, <1>2, <1>5, <1>8, <1>9 DEF Exists
<1> QED
  BY Zenon, <1>10, <1>11 DEF t

\* A balance is a number.
LEMMA CoinsAreNat ==
    ASSUME NEW st, Sound(st), NEW a \in Addrs
    PROVE  GetCoins(st, a) \in Nat
<1>1. st.main.accs \in [Addrs -> Account \cup {NoAccount}]
  BY Zenon DEF Sound, SoundMain, MainStore
<1> QED
  BY Zenon, <1>1 DEF GetCoins, Exists, Account

\* Kept composes.
LEMMA KeptTwice ==
    ASSUME NEW st, NEW t, NEW u, Kept(st, t), Kept(t, u)
    PROVE  Kept(st, u)
BY Zenon DEF Kept

\* SendCoins of what the sender has.
LEMMA SendCoinsKeeps ==
    ASSUME NEW st, Sound(st), NEW from \in Addrs, NEW to \in Addrs, NEW n \in Nat,
           n <= GetCoins(st, from)
    PROVE  Sound(SendCoins(st, from, to, n)) /\ Kept(st, SendCoins(st, from, to, n))
<1> DEFINE sent == SetCoins(st, from, GetCoins(st, from) - n)
<1>1. GetCoins(st, from) - n \in Nat
  BY CoinsAreNat
<1>2. Sound(sent) /\ Kept(st, sent)
  BY Zenon, <1>1, SetCoinsKeeps
<1>3. SendCoins(st, from, to, n) = SetCoins(sent, to, GetCoins(sent, to) + n)
  BY Zenon DEF SendCoins
<1> HIDE DEF sent
<1>4. GetCoins(sent, to) + n \in Nat
  BY <1>2, CoinsAreNat
<1>5. Sound(SetCoins(sent, to, GetCoins(sent, to) + n)) /\ Kept(sent, SetCoins(sent, to, GetCoins(sent, to) + n))
  BY Zenon, <1>2, <1>4, SetCoinsKeeps
<1> QED
  BY Zenon, <1>2, <1>3, <1>5, KeptTwice

-----------------------------------------------------------------------------
(* Transactions *)

\* The ante handler, where it does not abort, takes the transaction into the
\* log and moves the sequence number past it.
LEMMA AnteKeeps ==
    ASSUME NEW st, Sound(st), NEW tx \in Txs, NEW mode, ~AnteAborts(st, tx, mode)
    PROVE  /\ Sound(Ante(st, tx))
           /\ Ante(st, tx).base = st.base /\ Ante(st, tx).main.hash = st.main.hash
           /\ Ante(st, tx).main.log = Append(st.main.log, tx)
<1> DEFINE a == tx.from
           paid == IF tx.fee = 0 THEN st ELSE SendCoins(st, a, FeeCollector, tx.fee)
           old == paid.main.accs
           log == paid.main.log
           acc == [old[a] EXCEPT !.seq = old[a].seq + 1]
           accs == [old EXCEPT ![a] = acc]
           main == [paid.main EXCEPT !.accs = accs, !.log = Append(log, tx)]
           t == Ante(st, tx)
<1>1. a \in Addrs /\ tx.seq \in Nat /\ tx.fee \in Nat /\ FeeCollector \in Addrs
  BY Zenon, TxAssumption, AppAssumption
<1>2. tx.fee <= GetCoins(st, a) /\ Exists(st, a) /\ tx.seq = st.main.accs[a].seq
  <2>1. GetCoins(st, a) \in Nat
    BY Zenon, <1>1, CoinsAreNat
  <2> QED
    BY <1>1, <2>1 DEF AnteAborts
<1>3. Sound(paid) /\ Kept(st, paid)
  <2>1. Kept(st, st)
    BY Zenon DEF Kept
  <2> QED
    BY Zenon, <1>1, <1>2, <2>1, SendCoinsKeeps
<1>4. t = [paid EXCEPT !.main.accs[a].seq = @ + 1, !.main.log = Append(@, tx)]
  BY Zenon DEF Ante
<1> HIDE DEF paid, t
<1>5. /\ paid \in Store /\ paid.main \in MainStore /\ log \in Seq(Txs) /\ paid.main.next \in Nat
      /\ old \in [Addrs -> Account \cup {NoAccount}]
      /\ Numbered(old, paid.main.next) /\ Logged(old, log)
  BY Zenon, <1>3 DEF Sound, SoundMain, Store, MainStore
<1>6. old[a] \in Account /\ old[a].seq = tx.seq /\ log = st.main.log
      /\ paid.base = st.base /\ paid.main.hash = st.main.hash
  <2>1. old[a] # NoAccount
    BY Zenon, <1>1, <1>2, <1>3 DEF Kept, Exists
  <2> QED
    BY Zenon, <1>1, <1>2, <1>3, <1>5, <2>1 DEF Kept
<1>7. acc \in Account /\ acc.seq = tx.seq + 1 /\ acc.num = old[a].num /\ acc # NoAccount
  BY <1>1, <1>6 DEF Account, NoAccount
<1>8. t = [paid EXCEPT !.main = main]
  BY Zenon, <1>4, <1>5 DEF Store, MainStore
<1> HIDE DEF acc
<1>9. /\ accs \in [Addrs -> Account \cup {NoAccount}]
      /\ accs[a] = acc /\ \A b \in Addrs \ {a} : accs[b] = old[b]
  BY Zenon, <1>1, <1>5, <1>7
<1> HIDE DEF accs
<1>10. Numbered(accs, paid.main.next)
  <2>1. old[a] # NoAccount
    BY <1>6 DEF Account, NoAccount
  <2>2. \A b \in Addrs : accs[b] # NoAccount => old[b] # NoAccount /\ accs[b].num = old[b].num
    BY Zenon, <1>7, <1>9, <2>1
  <2> QED
    BY Zenon, <1>5, <2>2 DEF Numbered
<1>11. Logged(accs, Append(log, tx))
  <2> DEFINE l == Append(log, tx)
             n == Len(log)
  <2>1. /\ n \in Nat /\ DOMAIN log = 1..n /\ DOMAIN l = 1..(n + 1)
        /\ \A i \in 1..n : l[i] = log[i] /\ log[i] \in Txs
        /\ l[n + 1] = tx
    BY SMTT(40), <1>5
  <2> HIDE DEF l, n
  <2>2. \A i \in 1..n : /\ log[i].from \in Addrs /\ log[i].seq \in Nat
                        /\ old[log[i].from].seq \in Nat /\ log[i].seq < old[log[i].from].seq
    <3>1. \A i \in 1..n : log[i].from \in Addrs /\ log[i].seq \in Nat
      BY Zenon, <2>1, TxAssumption
    <3>2. \A b \in Addrs : old[b].seq \in Nat
      BY <1>5 DEF Account, NoAccount
    <3> QED
      BY Zenon, <1>5, <2>1, <3>1, <3>2 DEF Logged
  <2>3. \A i \in 1..n : l[i].seq < accs[l[i].from].seq
    <3> TAKE i \in 1..n
    <3>1. CASE log[i].from = a
      <4>1. old[log[i].from].seq = tx.seq /\ accs[log[i].from].seq = tx.seq + 1
        BY Zenon, <1>6, <1>7, <1>9, <3>1
      <4>2. log[i].seq \in Nat /\ log[i].seq < old[log[i].from].seq /\ l[i] = log[i]
        BY Zenon, <2>1, <2>2
      <4> QED
        BY SMTT(40), <1>1, <4>1, <4>2
    <3>2. CASE log[i].from # a
      <4>1. accs[log[i].from] = old[log[i].from] /\ l[i] = log[i]
        BY Zenon, <1>9, <2>1, <2>2, <3>2
      <4> QED
        BY Zenon, <2>2, <4>1
    <3> QED
      BY Zenon, <3>1, <3>2
  <2>4. l[n + 1].seq < accs[l[n + 1].from].seq
    BY SMTT(40), <1>1, <1>7, <1>9, <2>1
  <2>5. \A i \in 1..n : log[i] # tx
    <3> SUFFICES ASSUME NEW i \in 1..n, log[i] = tx
                 PROVE  FALSE
      BY Zenon
    <3>1. log[i].seq = tx.seq /\ old[log[i].from].seq = tx.seq
      BY Zenon, <1>6
    <3>2. log[i].seq < old[log[i].from].seq
      BY Zenon, <2>2
    <3> QED
      BY <1>1, <3>1, <3>2
  <2>6. \A i, j \in 1..n : log[i] = log[j] => i = j
    BY Zenon, <1>5, <2>1 DEF Logged
  <2>7. \A i \in 1..(n + 1) : i \in 1..n \/ i = n + 1
    BY <2>1
  <2>8. \A i \in DOMAIN l : l[i].seq < accs[l[i].from].seq
    BY Zenon, <2>1, <2>3, <2>4, <2>7
  <2>9. \A i, j \in DOMAIN l : l[i] = l[j] => i = j
    BY Zenon, <2>1, <2>5, <2>6, <2>7
  <2> QED
    BY Zenon, <2>8, <2>9 DEF Logged, l
<1>12. /\ main \in MainStore /\ main.accs = accs /\ main.next = paid.main.next
       /\ main.hash = paid.main.hash /\ main.log = Append(log, tx)
  <2>1. Append(log, tx) \in Seq(Txs)
    BY <1>5
  <2> QED
    BY ZenonT(40), <1>5, <1>9, <2>1 DEF MainStore
<1> HIDE DEF main
<1>13. t \in Store /\ t.base = paid.base /\ t.main = main
  BY Zenon, <1>5, <1>8, <1>12 DEF Store
<1>14. Sound(t)
  BY Zenon, <1>10, <1>11, <1>12, <1>13 DEF Sound, SoundMain
<1> QED
  BY Zenon, <1>6, <1>12, <1>13, <1>14 DEF t

-----------------------------------------------------------------------------
(* Loops *)

\* The member of a singleton.
LEMMA TheMember ==
    ASSUME NEW x
    PROVE  The({x}) = x
BY Zenon DEF The

\* IsStep: step takes a turn on values of S; HasRun: its n turns are a function.
IsStep(step, n, S) == step \in [(1..n) \X S -> S]
HasRun(step, n, S, base) ==
    \E g \in [0..n -> S] : g[0] = base /\ \A i \in 1..n : g[i] = step[<<i, g[i - 1]>>]

\* A loop of n turns on values of S exists as a function.
LEMMA Recursion ==
    ASSUME NEW n \in Nat, NEW S, NEW step, IsStep(step, n, S), NEW base \in S
    PROVE  HasRun(step, n, S, base)
<1> DEFINE Run(g, k) == g[0] = base /\ \A i \in 1..k : g[i] = step[<<i, g[i - 1]>>]
           T == {k \in 0..n : \E g \in [0..k -> S] : Run(g, k)}
<1> USE DEF IsStep
<1>1. 0 \in T
  <2> DEFINE g == [i \in 0..0 |-> base]
  <2>1. g \in [0..0 -> S] /\ Run(g, 0)
    OBVIOUS
  <2> HIDE DEF g, Run
  <2> QED
    BY <2>1
<1>2. ASSUME NEW i \in 1..n, i - 1 \in T
      PROVE  i \in T
  <2>1. PICK g \in [0..(i - 1) -> S] : Run(g, i - 1)
    BY Zenon, <1>2
  <2> DEFINE h == [k \in 0..i |-> IF k = i THEN step[<<i, g[i - 1]>>] ELSE g[k]]
  <2>2. h \in [0..i -> S]
    OBVIOUS
  <2>3. h[0] = base
    BY <2>1
  <2>4. ASSUME NEW k \in 1..i
        PROVE  h[k] = step[<<k, h[k - 1]>>]
    <3>a. \A q \in 0..i : h[q] = IF q = i THEN step[<<i, g[i - 1]>>] ELSE g[q]
      BY Zenon
    <3>b. k \in 0..i /\ k - 1 \in 0..i /\ k - 1 # i
      OBVIOUS
    <3> HIDE DEF h
    <3>1. h[k - 1] = g[k - 1] /\ (k = i => h[k] = step[<<k, g[k - 1]>>]) /\ (k # i => h[k] = g[k])
      BY Zenon, <3>a, <3>b
    <3>2. CASE k = i
      BY Zenon, <3>1, <3>2
    <3>3. CASE k # i
      BY <2>1, <3>1, <3>3
    <3> QED
      BY Zenon, <3>2, <3>3
  <2>5. Run(h, i)
    BY ZenonT(40), <2>3, <2>4
  <2> HIDE DEF h, Run
  <2> QED
    BY <2>2, <2>5
<1> HIDE DEF T
<1>3. \A i \in 0..n : i \in T
  BY Zenon, <1>1, <1>2, UpTo
<1>4. n \in T
  BY <1>3
<1> QED
  BY Zenon, <1>4 DEF T, HasRun

-----------------------------------------------------------------------------
(* Messages *)

SoundStores == {st \in Store : Sound(st)}
Ran == [st : SoundStores, error : {None, "coins", "route", "gas"}, gas : Nat]

\* A message that is carried out, or not.
LEMMA ProcessKeeps ==
    ASSUME NEW st \in SoundStores, NEW tx \in Txs, NEW i \in 1..Len(tx.msgs)
    PROVE  LET p == Process(st, tx, tx.msgs[i])
           IN  p.st \in SoundStores /\ p.error \in {None, "coins", "route"}
<1> DEFINE msg == tx.msgs[i]
           p == Process(st, tx, msg)
<1>0. Sound(st) /\ tx.from \in Addrs
  BY Zenon, TxAssumption DEF SoundStores
<1>1. CASE msg.type = "send"
  <2>1. msg.to \in Addrs /\ msg.amount \in Nat
    BY Zenon, <1>1, TxAssumption
  <2>2. GetCoins(st, tx.from) \in Nat
    BY Zenon, <1>0, CoinsAreNat
  <2>3. CASE msg.amount > GetCoins(st, tx.from)
    BY Zenon, <1>1, <2>3 DEF Process
  <2>4. CASE ~(msg.amount > GetCoins(st, tx.from))
    <3>1. Sound(SendCoins(st, tx.from, msg.to, msg.amount))
      BY SMTT(40), <1>0, <2>1, <2>2, <2>4, SendCoinsKeeps
    <3>2. p = [st |-> SendCoins(st, tx.from, msg.to, msg.amount), error |-> None]
      BY Zenon, <1>1, <2>4 DEF Process
    <3> QED
      BY <3>1, <3>2 DEF SoundStores, Sound
  <2> QED
    BY Zenon, <2>3, <2>4
<1>2. CASE msg.type = "call"
  <2> DEFINE main == [st.main EXCEPT !.hash = st.base + 1]
             t == [st EXCEPT !.base = st.base + 1, !.main = main]
  <2>1. p = [st |-> [st EXCEPT !.base = @ + 1, !.main.hash = st.base + 1], error |-> None]
    BY Zenon, <1>2 DEF Process
  <2>2. st \in Store /\ st.main \in MainStore /\ st.base \in Nat
    BY Zenon, <1>0 DEF Sound, Store
  <2>3. p = [st |-> t, error |-> None]
    BY Zenon, <2>1, <2>2 DEF Store, MainStore
  <2>4. main \in MainStore /\ main.accs = st.main.accs /\ main.next = st.main.next /\ main.log = st.main.log
    BY SMTT(40), <2>2 DEF MainStore
  <2> HIDE DEF main
  <2>5. SoundMain(main)
    BY Zenon, <1>0, <2>4 DEF Sound, SoundMain
  <2>6. t \in Store /\ t.main = main
    <3> DEFINE base == st.base + 1
    <3>1. base \in Nat /\ t = [st EXCEPT !.base = base, !.main = main]
      BY <2>2
    <3> HIDE DEF base, t
    <3> QED
      BY Zenon, <2>2, <2>4, <3>1 DEF Store
  <2> HIDE DEF t
  <2> QED
    BY <2>3, <2>5, <2>6 DEF SoundStores, Sound
<1>3. CASE msg.type \notin {"send", "call"}
  BY Zenon, <1>3 DEF Process
<1> QED
  BY Zenon, <1>1, <1>2, <1>3

\* One turn of runMsgs.
LEMMA RunMsgKeeps ==
    ASSUME NEW r \in Ran, NEW tx \in Txs, NEW i \in 1..Len(tx.msgs)
    PROVE  RunMsg(tx, r, tx.msgs[i]) \in Ran
<1> DEFINE p == Process(r.st, tx, tx.msgs[i])
           used == r.gas + tx.msgs[i].gas
<1>1. r.st \in SoundStores /\ r.gas \in Nat
  BY Zenon DEF Ran
<1>2. p.st \in SoundStores /\ p.error \in {None, "coins", "route"}
  BY Zenon, <1>1, ProcessKeeps
<1>3. used \in Nat
  BY <1>1, TxAssumption
<1>4. RunMsg(tx, r, tx.msgs[i]) =
         IF r.error # None THEN r
         ELSE IF used > tx.gas THEN [r EXCEPT !.error = "gas", !.gas = used]
         ELSE [st |-> p.st, error |-> p.error, gas |-> used]
  BY Zenon DEF RunMsg
<1> HIDE DEF p, used
<1>5. CASE r.error # None
  BY Zenon, <1>4, <1>5
<1>6. CASE r.error = None /\ used > tx.gas
  BY Zenon, <1>3, <1>4, <1>6 DEF Ran
<1>7. CASE r.error = None /\ ~(used > tx.gas)
  <2>1. RunMsg(tx, r, tx.msgs[i]) = [st |-> p.st, error |-> p.error, gas |-> used]
    BY Zenon, <1>4, <1>7
  <2> QED
    BY <1>2, <1>3, <2>1 DEF Ran
<1> QED
  BY Zenon, <1>5, <1>6, <1>7

\* Turns(st, tx, g): g follows the loop of runMsgs.
Turns(st, tx, g) ==
    g = [i \in 0..Len(tx.msgs) |->
           IF i = 0 THEN [st |-> st, error |-> None, gas |-> AnteGas]
           ELSE The({RunMsg(tx, r, tx.msgs[i]) : r \in {g[i - 1]}})]

\* Such a g has the results of runMsgs for values.
LEMMA TurnsAreRan ==
    ASSUME NEW st \in SoundStores, NEW tx \in Txs, NEW g, Turns(st, tx, g)
    PROVE  \A i \in 0..Len(tx.msgs) : g[i] \in Ran
<1> DEFINE n == Len(tx.msgs)
           S == {i \in 0..n : g[i] \in Ran}
<1>1. n \in Nat
  BY Zenon, TxAssumption
<1>2. g[0] = [st |-> st, error |-> None, gas |-> AnteGas]
  BY <1>1 DEF Turns
<1>3. ASSUME NEW i \in 1..n
      PROVE  g[i] = RunMsg(tx, g[i - 1], tx.msgs[i])
  <2>1. i \in 0..n /\ i # 0
    BY <1>1
  <2>2. g[i] = The({RunMsg(tx, r, tx.msgs[i]) : r \in {g[i - 1]}})
    BY Zenon, <2>1 DEF Turns
  <2>3. {RunMsg(tx, r, tx.msgs[i]) : r \in {g[i - 1]}} = {RunMsg(tx, g[i - 1], tx.msgs[i])}
    BY Zenon
  <2> QED
    BY Zenon, <2>2, <2>3, TheMember
<1>4. 0 \in S
  BY <1>1, <1>2, AppAssumption DEF Ran
<1>5. \A i \in 1..n : i - 1 \in S => i \in S
  BY <1>1, <1>3, RunMsgKeeps
<1>6. \A i \in 0..n : i \in S
  <2> HIDE DEF S, n
  <2> QED
    BY Zenon, <1>1, <1>4, <1>5, UpTo
<1> QED
  BY Zenon, <1>6

\* runMsgs ends with a sound store and one of its errors.
LEMMA RunMsgsKeeps ==
    ASSUME NEW st \in SoundStores, NEW tx \in Txs
    PROVE  RunMsgs(st, tx) \in Ran
<1> DEFINE n == Len(tx.msgs)
           base == [st |-> st, error |-> None, gas |-> AnteGas]
           step == [p \in (1..n) \X Ran |-> RunMsg(tx, p[2], tx.msgs[p[1]])]
<1>1. n \in Nat /\ base \in Ran
  BY Zenon, TxAssumption, AppAssumption DEF Ran
<1>2. IsStep(step, n, Ran)
  BY Zenon, RunMsgKeeps DEF IsStep
<1>3. \E g : Turns(st, tx, g)
  <2>1. PICK g \in [0..n -> Ran] : g[0] = base /\ \A i \in 1..n : g[i] = step[<<i, g[i - 1]>>]
    <3> HIDE DEF n, base, step
    <3>1. HasRun(step, n, Ran, base)
      BY Zenon, <1>1, <1>2, Recursion
    <3> QED
      BY Zenon, <3>1 DEF HasRun
  <2>2. ASSUME NEW i \in 1..n
        PROVE  g[i] = The({RunMsg(tx, r, tx.msgs[i]) : r \in {g[i - 1]}})
    <3>1. g[i - 1] \in Ran
      BY <1>1, <2>1
    <3>2. g[i] = RunMsg(tx, g[i - 1], tx.msgs[i])
      BY Zenon, <2>1, <3>1
    <3>3. {RunMsg(tx, r, tx.msgs[i]) : r \in {g[i - 1]}} = {RunMsg(tx, g[i - 1], tx.msgs[i])}
      BY Zenon
    <3> QED
      BY Zenon, <3>2, <3>3, TheMember
  <2>3. Turns(st, tx, g)
    <3>1. \A i \in 0..n : g[i] = IF i = 0 THEN base ELSE The({RunMsg(tx, r, tx.msgs[i]) : r \in {g[i - 1]}})
      BY <1>1, <2>1, <2>2
    <3> QED
      BY Zenon, <2>1, <3>1 DEF Turns
  <2> QED
    BY Zenon, <2>3
<1> DEFINE h == CHOOSE g : Turns(st, tx, g)
<1>4. Turns(st, tx, h)
  BY Zenon, <1>3
<1>5. RunMsgs(st, tx) = h[n]
  BY Zenon DEF RunMsgs, Turns
<1> HIDE DEF h
<1>6. h[n] \in Ran
  BY <1>1, <1>4, TurnsAreRan
<1> QED
  BY Zenon, <1>5, <1>6

-----------------------------------------------------------------------------
(* runTx and blocks *)

Delivered ==
    [st : SoundStores, error : {None, "coins", "route", "gas", "ante", "no block gas", "block gas"}, gas : Nat]

\* What AllOrFee says of a delivered transaction with the result r.
AllOrFeeOf(st, tx, r) ==
    \/ r.error \in {"ante", "no block gas"} /\ r.st = st
    \/ r.error \in {"coins", "route", "gas", "block gas"} /\ r.st = Ante(st, tx)
    \/ /\ r.error \in {None, "block gas"} /\ RunMsgs(Ante(st, tx), tx).error = None
       /\ r.st = RunMsgs(Ante(st, tx), tx).st

\* runTx leaves a sound store, with no trace, the fee or everything.
LEMMA RunTxKeeps ==
    ASSUME NEW st \in SoundStores, NEW tx \in Txs, NEW gas \in Nat
    PROVE  RunTx(st, tx, gas) \in Delivered /\ AllOrFeeOf(st, tx, RunTx(st, tx, gas))
<1> DEFINE r == RunTx(st, tx, gas)
           ante == Ante(st, tx)
           ran == RunMsgs(ante, tx)
           used == gas + (IF ran.gas > tx.gas THEN tx.gas ELSE ran.gas)
           error == IF MaxGas > 0 /\ used > MaxGas THEN "block gas" ELSE ran.error
           out == IF ran.error = None THEN ran.st ELSE ante
<1>1. CASE MaxGas > 0 /\ gas >= MaxGas
  <2>1. r = [st |-> st, error |-> "no block gas", gas |-> gas]
    BY Zenon, <1>1 DEF RunTx
  <2> HIDE DEF r
  <2>2. r \in Delivered
    BY Zenon, <2>1 DEF Delivered
  <2>3. AllOrFeeOf(st, tx, r)
    BY ZenonT(40), <2>1 DEF AllOrFeeOf
  <2> QED
    BY Zenon, <2>2, <2>3 DEF r
<1>2. CASE ~(MaxGas > 0 /\ gas >= MaxGas) /\ (tx.msgs = <<>> \/ AnteAborts(st, tx, "deliver"))
  <2>1. r = [st |-> st, error |-> "ante", gas |-> gas]
    BY Zenon, <1>2 DEF RunTx
  <2> HIDE DEF r
  <2>2. r \in Delivered
    BY Zenon, <2>1 DEF Delivered
  <2>3. AllOrFeeOf(st, tx, r)
    BY Zenon, <2>1 DEF AllOrFeeOf
  <2> QED
    BY Zenon, <2>2, <2>3 DEF r
<1>3. CASE ~(MaxGas > 0 /\ gas >= MaxGas) /\ ~(tx.msgs = <<>> \/ AnteAborts(st, tx, "deliver"))
  <2>1. r = [st |-> out, error |-> error, gas |-> used]
    BY Zenon, <1>3 DEF RunTx
  <2>2. ante \in SoundStores
    <3>1. Sound(ante)
      BY Zenon, <1>3, AnteKeeps DEF SoundStores
    <3> QED
      BY Zenon, <3>1 DEF SoundStores, Sound
  <2> HIDE DEF ante
  <2>3. ran \in Ran
    BY Zenon, <2>2, RunMsgsKeeps
  <2> HIDE DEF ran
  <2>4. ran.gas \in Nat /\ ran.error \in {None, "coins", "route", "gas"} /\ ran.st \in SoundStores
    BY Zenon, <2>3 DEF Ran
  <2>5. used \in Nat
    BY <2>4, TxAssumption
  <2>6. error \in {ran.error, "block gas"}
    BY Zenon
  <2>7. \/ ran.error = None /\ out = ran.st
        \/ ran.error \in {"coins", "route", "gas"} /\ out = ante
    BY Zenon, <2>4
  <2> HIDE DEF used, error, out, r
  <2>8. r \in Delivered
    BY ZenonT(40), <2>1, <2>2, <2>4, <2>5, <2>6, <2>7 DEF Delivered
  <2>9. r.error = error /\ r.st = out
    BY Zenon, <2>1
  <2>10. AllOrFeeOf(st, tx, r)
    BY ZenonT(40), <2>6, <2>7, <2>9 DEF AllOrFeeOf, ante, ran
  <2> QED
    BY Zenon, <2>8, <2>10 DEF r
<1> QED
  BY Zenon, <1>1, <1>2, <1>3

\* CheckTx adds the fee and the sequence number of the transaction at most.
LEMMA CheckedKeeps ==
    ASSUME NEW st \in SoundStores, NEW tx \in Txs
    PROVE  LET t == CheckedState(st, tx)
           IN  /\ t \in SoundStores /\ t.base = st.base /\ t.main.hash = st.main.hash
               /\ t.main.log \in {st.main.log, Append(st.main.log, tx)}
<1>1. CASE tx.msgs = <<>> \/ AnteAborts(st, tx, "check")
  BY Zenon, <1>1 DEF CheckedState
<1>2. CASE ~(tx.msgs = <<>> \/ AnteAborts(st, tx, "check"))
  <2>1. CheckedState(st, tx) = Ante(st, tx)
    BY Zenon, <1>2 DEF CheckedState
  <2>2. /\ Sound(Ante(st, tx))
        /\ Ante(st, tx).base = st.base /\ Ante(st, tx).main.hash = st.main.hash
        /\ Ante(st, tx).main.log = Append(st.main.log, tx)
    BY Zenon, <1>2, AnteKeeps DEF SoundStores
  <2> QED
    BY Zenon, <2>1, <2>2 DEF SoundStores, Sound
<1> QED
  BY Zenon, <1>1, <1>2

\* IsRun(st, block, g): g delivers the block to st, transaction by transaction.
IsRun(st, block, g) ==
    /\ g \in [0..Len(block) -> Delivered]
    /\ g[0] = [st |-> st, error |-> None, gas |-> 0]
    /\ \A i \in 1..Len(block) : g[i] = RunTx(g[i - 1].st, block[i], g[i - 1].gas)

\* Loop(st, block, g): g follows the loop of Execute.
Loop(st, block, g) ==
    g = [i \in 0..Len(block) |->
           IF i = 0 THEN [st |-> st, error |-> None, gas |-> 0]
           ELSE The({RunTx(r.st, block[i], r.gas) : r \in {g[i - 1]}})]

\* A turn of the loop.
LEMMA LoopTurn ==
    ASSUME NEW block, NEW g, NEW i
    PROVE  The({RunTx(r.st, block[i], r.gas) : r \in {g[i - 1]}}) = RunTx(g[i - 1].st, block[i], g[i - 1].gas)
<1>1. {RunTx(r.st, block[i], r.gas) : r \in {g[i - 1]}} = {RunTx(g[i - 1].st, block[i], g[i - 1].gas)}
  BY Zenon
<1> QED
  BY Zenon, <1>1, TheMember

\* The loop delivers the block.
LEMMA LoopIsRun ==
    ASSUME NEW st \in SoundStores, NEW block \in Seq(Txs), NEW g, Loop(st, block, g)
    PROVE  IsRun(st, block, g)
<1> DEFINE n == Len(block)
           S == {i \in 0..n : g[i] \in Delivered}
<1>1. n \in Nat /\ \A i \in 1..n : block[i] \in Txs
  OBVIOUS
<1>2. g[0] = [st |-> st, error |-> None, gas |-> 0]
  BY <1>1 DEF Loop
<1>3. \A i \in 1..n : g[i] = RunTx(g[i - 1].st, block[i], g[i - 1].gas)
  <2> TAKE i \in 1..n
  <2>1. i \in 0..n /\ i # 0
    BY <1>1
  <2>2. g[i] = The({RunTx(r.st, block[i], r.gas) : r \in {g[i - 1]}})
    BY Zenon, <2>1 DEF Loop
  <2> QED
    BY Zenon, <2>2, LoopTurn
<1>4. 0 \in S
  <2>1. [st |-> st, error |-> None, gas |-> 0] \in Delivered
    BY Zenon DEF Delivered
  <2> QED
    BY <1>1, <1>2, <2>1
<1>5. \A i \in 1..n : i - 1 \in S => i \in S
  <2> SUFFICES ASSUME NEW i \in 1..n, g[i - 1] \in Delivered
               PROVE  g[i] \in Delivered
    BY <1>1
  <2>1. g[i - 1].st \in SoundStores /\ g[i - 1].gas \in Nat
    BY Zenon DEF Delivered
  <2>2. RunTx(g[i - 1].st, block[i], g[i - 1].gas) \in Delivered
    BY Zenon, <1>1, <2>1, RunTxKeeps
  <2> QED
    BY Zenon, <1>3, <2>2
<1>6. \A i \in 0..n : i \in S
  <2> HIDE DEF S, n
  <2> QED
    BY Zenon, <1>1, <1>4, <1>5, UpTo
<1>7. g \in [0..n -> Delivered]
  <2>1. DOMAIN g = 0..n /\ g = [i \in 0..n |-> g[i]]
    BY Zenon DEF Loop
  <2> QED
    BY Zenon, <1>6, <2>1
<1> QED
  BY Zenon, <1>2, <1>3, <1>7 DEF IsRun

\* Progress: of a block on st, i transactions were delivered, which gave the
\* store now and the gas; the block gives result in the end.
Progress(st, block, i, now, gas, result) ==
    \E g : /\ IsRun(st, block, g)
           /\ now = g[i].st /\ gas = g[i].gas /\ result = g[Len(block)].st

\* Execute is such a run.
LEMMA ExecuteRuns ==
    ASSUME NEW st \in SoundStores, NEW block \in Seq(Txs)
    PROVE  /\ Progress(st, block, 0, st, 0, Execute(st, block))
           /\ Execute(st, block) \in SoundStores
<1> DEFINE n == Len(block)
           base == [st |-> st, error |-> None, gas |-> 0]
           step == [p \in (1..n) \X Delivered |-> RunTx(p[2].st, block[p[1]], p[2].gas)]
<1>1. n \in Nat /\ base \in Delivered
  BY DEF Delivered
<1>2. IsStep(step, n, Delivered)
  <2>1. ASSUME NEW p \in (1..n) \X Delivered
        PROVE  RunTx(p[2].st, block[p[1]], p[2].gas) \in Delivered
    <3>1. p[2].st \in SoundStores /\ p[2].gas \in Nat
      BY Zenon DEF Delivered
    <3>2. block[p[1]] \in Txs
      OBVIOUS
    <3> QED
      BY Zenon, <3>1, <3>2, RunTxKeeps
  <2> QED
    BY Zenon, <2>1 DEF IsStep
<1>3. \E g : Loop(st, block, g)
  <2>1. PICK g \in [0..n -> Delivered] : g[0] = base /\ \A i \in 1..n : g[i] = step[<<i, g[i - 1]>>]
    <3> HIDE DEF n, base, step
    <3>1. HasRun(step, n, Delivered, base)
      BY Zenon, <1>1, <1>2, Recursion
    <3> QED
      BY Zenon, <3>1 DEF HasRun
  <2>2. ASSUME NEW i \in 1..n
        PROVE  g[i] = The({RunTx(r.st, block[i], r.gas) : r \in {g[i - 1]}})
    <3>1. g[i - 1] \in Delivered
      BY <1>1, <2>1
    <3>2. g[i] = RunTx(g[i - 1].st, block[i], g[i - 1].gas)
      BY Zenon, <2>1, <3>1
    <3> QED
      BY Zenon, <3>2, LoopTurn
  <2>3. Loop(st, block, g)
    <3>1. \A i \in 0..n : g[i] = IF i = 0 THEN base ELSE The({RunTx(r.st, block[i], r.gas) : r \in {g[i - 1]}})
      BY <1>1, <2>1, <2>2
    <3> QED
      BY Zenon, <2>1, <3>1 DEF Loop
  <2> QED
    BY Zenon, <2>3
<1> DEFINE h == CHOOSE g : Loop(st, block, g)
<1>4. Loop(st, block, h)
  BY Zenon, <1>3
<1>5. Execute(st, block) = h[n].st
  BY Zenon DEF Execute, Loop
<1> HIDE DEF h
<1>6. IsRun(st, block, h)
  BY Zenon, <1>4, LoopIsRun
<1>7. h[0].st = st /\ h[0].gas = 0 /\ h[n] \in Delivered
  BY <1>1, <1>6 DEF IsRun
<1>8. Execute(st, block) \in SoundStores
  BY ZenonT(40), <1>5, <1>7 DEF Delivered
<1> QED
  BY Zenon, <1>5, <1>6, <1>7, <1>8 DEF Progress

\* A delivered transaction is progress.
LEMMA ProgressStep ==
    ASSUME NEW st, NEW block, Len(block) \in Nat, NEW i \in Nat, i < Len(block), NEW now, NEW gas, NEW result,
           Progress(st, block, i, now, gas, result)
    PROVE  LET r == RunTx(now, block[i + 1], gas)
           IN  Progress(st, block, i + 1, r.st, r.gas, result)
<1>1. PICK g : IsRun(st, block, g) /\ now = g[i].st /\ gas = g[i].gas /\ result = g[Len(block)].st
  BY Zenon DEF Progress
<1>2. i + 1 \in 1..Len(block) /\ i + 1 - 1 = i
  OBVIOUS
<1>3. g[i + 1] = RunTx(now, block[i + 1], gas)
  BY <1>1, <1>2 DEF IsRun
<1> QED
  BY Zenon, <1>1, <1>3 DEF Progress

\* The end of a block.
LEMMA ProgressEnd ==
    ASSUME NEW st, NEW block, NEW now, NEW gas, NEW result, Progress(st, block, Len(block), now, gas, result)
    PROVE  now = result
BY Zenon DEF Progress

-----------------------------------------------------------------------------
(* Genesis *)

Fresh == {st \in SoundStores : st.base = 0 /\ st.main.log = <<>>}

\* The empty store.
LEMMA EmptySound == EmptyMain \in MainStore /\ SoundMain(EmptyMain) /\ Empty \in Fresh
<1>1. EmptyMain \in MainStore
  BY DEF EmptyMain, MainStore
<1>2. Numbered(EmptyMain.accs, EmptyMain.next)
  BY Zenon DEF EmptyMain, Numbered
<1>3. Logged(EmptyMain.accs, EmptyMain.log)
  BY DEF EmptyMain, Logged
<1>4. Empty \in Store /\ Empty.main = EmptyMain /\ Empty.base = 0 /\ EmptyMain.log = <<>>
  BY Zenon, <1>1 DEF Empty, EmptyMain, Store
<1> QED
  BY Zenon, <1>1, <1>2, <1>3, <1>4 DEF Fresh, SoundStores, Sound, SoundMain

\* The genesis file adds balances.
Adds(g) ==
    g = [i \in 0..Len(Genesis) |->
           IF i = 0 THEN Empty ELSE The({AddBalance(st, Genesis[i]) : st \in {g[i - 1]}})]

\* A balance more: a new account, whose number is the next one.
LEMMA AddBalanceKeeps ==
    ASSUME NEW st \in Fresh, NEW bal \in [addr : Addrs, coins : Nat]
    PROVE  AddBalance(st, bal) \in Fresh
<1> DEFINE old == st.main.accs
           a == bal.addr
           acc == [coins |-> bal.coins, seq |-> 0, num |-> st.main.next]
           accs == [old EXCEPT ![a] = acc]
           main == [st.main EXCEPT !.accs = accs, !.next = st.main.next + 1]
           t == AddBalance(st, bal)
<1>1. /\ st \in Store /\ st.base = 0 /\ st.main.log = <<>> /\ st.main \in MainStore /\ st.main.next \in Nat
      /\ old \in [Addrs -> Account \cup {NoAccount}] /\ Numbered(old, st.main.next)
  BY Zenon DEF Fresh, SoundStores, Sound, SoundMain, Store, MainStore
<1>2. acc \in Account /\ acc.num = st.main.next /\ a \in Addrs
  BY Zenon, <1>1 DEF Account
<1>3. t = [st EXCEPT !.main = main]
  BY Zenon, <1>1 DEF AddBalance, Store, MainStore
<1> HIDE DEF acc, t
<1>4. /\ accs \in [Addrs -> Account \cup {NoAccount}]
      /\ accs[a] = acc /\ \A b \in Addrs \ {a} : accs[b] = old[b]
  BY Zenon, <1>1, <1>2
<1> HIDE DEF accs
<1>5. Numbered(accs, st.main.next + 1)
  <2>1. \A b \in Addrs : old[b] # NoAccount => old[b].num \in Nat /\ old[b].num < st.main.next
    BY Zenon, <1>1 DEF Account, Numbered
  <2> QED
    BY <1>1, <1>2, <1>4, <2>1 DEF Numbered
<1>6. Logged(accs, <<>>)
  BY DEF Logged
<1>7. /\ main \in MainStore /\ main.accs = accs /\ main.next = st.main.next + 1
      /\ main.log = <<>>
  <2>1. st.main.next + 1 \in Nat
    BY <1>1
  <2> QED
    BY Zenon, <1>1, <1>4, <2>1 DEF MainStore
<1> HIDE DEF main
<1>8. t \in Store /\ t.base = 0 /\ t.main = main
  BY Zenon, <1>1, <1>3, <1>7 DEF Store
<1> QED
  BY Zenon, <1>5, <1>6, <1>7, <1>8 DEF Fresh, SoundStores, Sound, SoundMain, t

\* The state InitChain makes is sound and has no objects.
LEMMA GenesisFresh == GenesisState \in Fresh
<1> DEFINE n == Len(Genesis)
           step == [p \in (1..n) \X Fresh |-> AddBalance(p[2], Genesis[p[1]])]
           Bal == [addr : Addrs, coins : Nat]
<1>1. n \in Nat /\ \A i \in 1..n : Genesis[i] \in Bal
  <2> HIDE DEF Bal
  <2>1. Genesis \in Seq(Bal)
    BY Zenon, AppAssumption DEF Bal
  <2> QED
    BY <2>1
<1>2. IsStep(step, n, Fresh)
  BY Zenon, <1>1, AddBalanceKeeps DEF IsStep
<1>3. \E g : Adds(g)
  <2>1. PICK g \in [0..n -> Fresh] : g[0] = Empty /\ \A i \in 1..n : g[i] = step[<<i, g[i - 1]>>]
    <3> HIDE DEF n, step
    <3>1. HasRun(step, n, Fresh, Empty)
      BY Zenon, <1>1, <1>2, EmptySound, Recursion
    <3> QED
      BY Zenon, <3>1 DEF HasRun
  <2>2. ASSUME NEW i \in 1..n
        PROVE  g[i] = The({AddBalance(st, Genesis[i]) : st \in {g[i - 1]}})
    <3>1. g[i - 1] \in Fresh
      BY <1>1, <2>1
    <3>2. g[i] = AddBalance(g[i - 1], Genesis[i])
      BY ZenonT(40), <2>1, <3>1
    <3>3. {AddBalance(st, Genesis[i]) : st \in {g[i - 1]}} = {AddBalance(g[i - 1], Genesis[i])}
      BY Zenon
    <3> QED
      BY Zenon, <3>2, <3>3, TheMember
  <2>3. Adds(g)
    <3>1. \A i \in 0..n : g[i] = IF i = 0 THEN Empty ELSE The({AddBalance(st, Genesis[i]) : st \in {g[i - 1]}})
      BY <1>1, <2>1, <2>2
    <3> QED
      BY Zenon, <2>1, <3>1 DEF Adds
  <2> QED
    BY Zenon, <2>3
<1> DEFINE h == CHOOSE g : Adds(g)
<1>4. Adds(h)
  BY Zenon, <1>3
<1>5. GenesisState = h[n]
  BY Zenon DEF GenesisState, Adds
<1> HIDE DEF h, step
<1> DEFINE S == {i \in 0..n : h[i] \in Fresh}
<1>6. 0 \in S
  BY SMTT(40), <1>1, <1>4, EmptySound DEF Adds
<1>7. \A i \in 1..n : i - 1 \in S => i \in S
  <2> SUFFICES ASSUME NEW i \in 1..n, h[i - 1] \in Fresh
               PROVE  h[i] \in Fresh
    BY <1>1
  <2>1. i \in 0..n /\ i # 0
    BY <1>1
  <2>2. h[i] = The({AddBalance(st, Genesis[i]) : st \in {h[i - 1]}})
    BY Zenon, <1>4, <2>1 DEF Adds
  <2>3. {AddBalance(st, Genesis[i]) : st \in {h[i - 1]}} = {AddBalance(h[i - 1], Genesis[i])}
    BY Zenon
  <2>4. h[i] = AddBalance(h[i - 1], Genesis[i])
    BY Zenon, <2>2, <2>3, TheMember
  <2> QED
    BY Zenon, <1>1, <2>4, AddBalanceKeeps
<1>8. \A i \in 0..n : i \in S
  <2> HIDE DEF S, n
  <2> QED
    BY Zenon, <1>1, <1>6, <1>7, UpTo
<1> QED
  BY <1>1, <1>5, <1>8

-----------------------------------------------------------------------------
(* The invariant *)

SoundMains == {m \in MainStore : SoundMain(m)}
Entry == [txs : Blocks, result : SoundStores]

\* Every store is sound.
StoresOK ==
    /\ keepRecent \in Nat /\ blockGas \in Nat /\ index \in Nat /\ crashes \in Nat
    /\ interrupted \in BOOLEAN
    /\ disk \in [latest : 0..MaxHeight, saved : [1..MaxHeight -> SoundMains \cup {None}],
                 base : Nat, header : 0..MaxHeight]
    /\ tree \in SoundMains
    /\ deliverState \in SoundStores \cup {None} /\ checkState \in SoundStores \cup {None}
    /\ pc \in {"down", "halted", "idle", "deliver", "save", "prune", "info", "header"}

\* The chain holds what executing its blocks gives, and the block that is
\* being executed.
ChainOK ==
    /\ chain \in Seq(Entry) /\ disk.latest <= Len(chain) /\ Len(chain) <= MaxHeight
    /\ pc \in {"deliver", "save", "prune", "info"} => disk.latest < Len(chain)
    /\ pc = "header" => disk.latest > 0
    /\ pc = "deliver" => deliverState # None /\ index <= Len(Block)
    /\ pc = "idle" /\ disk.latest = 0 => deliverState # None
    /\ \A n \in 1..Len(chain) :
          Progress(ResultAt(n - 1), chain[n].txs, 0, ResultAt(n - 1), 0, chain[n].result)

\* Where the stores are in the chain.
Follows ==
    /\ pc # "halted"
    /\ \A v \in Saved :
          /\ disk.saved[v] = chain[v].result.main
          /\ v <= disk.latest \/ (v = disk.latest + 1 /\ pc \in {"prune", "info"})
    /\ disk.latest > 0 /\ pc # "info" => disk.latest \in Saved
    /\ pc \in {"prune", "info"} => disk.latest + 1 \in Saved
    /\ pc \in {"down", "idle", "deliver"} => disk.base = ResultAt(disk.latest).base
    /\ pc = "idle" =>
          IF disk.latest = 0 THEN deliverState = GenesisState
          ELSE deliverState = None /\ tree = chain[disk.latest].result.main
    /\ pc = "deliver" =>
          Progress(ResultAt(disk.latest), Block, index, deliverState, blockGas, chain[disk.latest + 1].result)
    /\ pc \in {"save", "prune", "info"} =>
          tree = chain[disk.latest + 1].result.main /\ disk.base = chain[disk.latest + 1].result.base
    /\ pc = "header" =>
          tree = chain[disk.latest].result.main /\ disk.base = chain[disk.latest].result.base

\* The check state, and how far the chain gets without one.
CheckOK ==
    /\ disk.header = 0 => disk.latest <= crashes + (IF pc = "header" THEN 1 ELSE 0)
    /\ pc \in {"idle", "deliver"} =>
          IF checkState = None THEN disk.header = 0
          ELSE /\ StartsWith(checkState.main.log, tree.log)
               /\ checkState.main.hash = tree.hash /\ checkState.base = disk.base

AInv == StoresOK /\ ChainOK /\ (interrupted \/ Follows) /\ CheckOK

\* What executing a part of the chain gives is sound.
LEMMA ResultSound ==
    ASSUME chain \in Seq(Entry), NEW n \in 0..Len(chain)
    PROVE  ResultAt(n) \in SoundStores
<1>1. CASE n = 0
  BY Zenon, <1>1, GenesisFresh DEF ResultAt, Fresh
<1>2. CASE n # 0
  <2>1. n \in 1..Len(chain)
    BY <1>2
  <2>2. chain[n] \in Entry
    BY <2>1
  <2> QED
    BY Zenon, <1>2, <2>2 DEF ResultAt, Entry
<1> QED
  BY Zenon, <1>1, <1>2

\* The parts of a sound store.
LEMMA Parts ==
    /\ \A st \in SoundStores : st.main \in SoundMains /\ st.base \in Nat /\ st # None
    /\ \A m \in SoundMains : m # None
    /\ \A m \in SoundMains, b \in Nat : [main |-> m, base |-> b] \in SoundStores
<1>1. \A st \in SoundStores : st.main \in SoundMains /\ st.base \in Nat /\ st # None
  BY Zenon, NoneAssumption DEF SoundStores, SoundMains, Sound, SoundMain, Store
<1>2. \A m \in SoundMains : m # None
  BY Zenon, NoneAssumption DEF SoundMains
<1>3. \A m \in SoundMains, b \in Nat : [main |-> m, base |-> b] \in SoundStores
  <2> TAKE m \in SoundMains, b \in Nat
  <2> DEFINE st == [main |-> m, base |-> b]
  <2>1. st \in Store /\ st.main = m
    BY Zenon DEF SoundMains, Store
  <2> HIDE DEF st
  <2>2. st \in SoundStores
    BY Zenon, <2>1 DEF SoundStores, SoundMains, Sound
  <2> QED
    BY Zenon, <2>2 DEF st
<1> QED
  BY Zenon, <1>1, <1>2, <1>3

\* The initial state.
LEMMA AInit == Init => AInv
<1> SUFFICES ASSUME Init
             PROVE  AInv
  BY Zenon
<1>1. EmptyMain \in SoundMains /\ MaxHeight \in Nat
  BY Zenon, EmptySound, AppAssumption DEF SoundMains
<1>2. StoresOK
  <2>1. keepRecent \in Nat
    BY Zenon, AppAssumption DEF Init
  <2>2. disk \in [latest : 0..MaxHeight, saved : [1..MaxHeight -> SoundMains \cup {None}],
                  base : Nat, header : 0..MaxHeight]
    BY <1>1 DEF Init
  <2>3. interrupted \in BOOLEAN
    BY Zenon DEF Init
  <2> QED
    BY Zenon, <1>1, <2>1, <2>2, <2>3 DEF Init, StoresOK
<1>3. ChainOK
  BY <1>1 DEF Init, ChainOK
<1>4. Follows
  <2>1. Saved = {} /\ disk.latest = 0 /\ pc = "down"
    BY Zenon, <1>1 DEF Init, Saved
  <2>2. disk.base = ResultAt(disk.latest).base
    BY Zenon, GenesisFresh DEF Init, ResultAt, Fresh
  <2> QED
    BY <2>1, <2>2 DEF Follows
<1>5. CheckOK
  BY DEF Init, CheckOK
<1> QED
  BY Zenon, <1>2, <1>3, <1>4, <1>5 DEF AInv

\* A step that leaves the chain alone keeps what it says.
LEMMA SameChain ==
    ASSUME UNCHANGED chain
    PROVE  \A n : ResultAt(n)' = ResultAt(n)
BY Zenon DEF ResultAt

\* Loading what is on disk, with InitChain on an empty application.
LEMMA AStart ==
    ASSUME AInv, Start
    PROVE  AInv'
<1> DEFINE main == IF disk.latest = 0 THEN EmptyMain ELSE disk.saved[disk.latest]
           cms == [main |-> main, base |-> disk.base]
<1>0. StoresOK /\ ChainOK /\ (interrupted \/ Follows) /\ CheckOK
  BY Zenon DEF AInv
<1>1. /\ pc = "down" /\ Loads /\ tree' = main
      /\ deliverState' = IF disk.latest = 0 THEN [GenesisState EXCEPT !.base = disk.base] ELSE None
      /\ checkState' = IF disk.latest = 0 \/ disk.header # 0 THEN cms ELSE None
      /\ pc' = "idle"
      /\ UNCHANGED <<keepRecent, disk, blockGas, index, response, chain, crashes, interrupted>>
  BY Zenon DEF Start
<1>2. main \in SoundMains
  <2>1. CASE disk.latest = 0
    BY Zenon, <2>1, EmptySound DEF SoundMains
  <2>2. CASE disk.latest # 0
    BY Zenon, <1>0, <1>1, <2>2 DEF StoresOK, Loads, Saved
  <2> QED
    BY Zenon, <2>1, <2>2
<1>3. disk.base \in Nat
  BY Zenon, <1>0 DEF StoresOK
<1>4. cms \in SoundStores /\ cms.main = main /\ cms.base = disk.base
  BY Zenon, <1>2, <1>3, Parts
<1>5. [GenesisState EXCEPT !.base = disk.base] \in SoundStores
  <2>1. GenesisState \in SoundStores /\ GenesisState \in Store
    BY Zenon, GenesisFresh DEF Fresh, SoundStores
  <2>2. [GenesisState EXCEPT !.base = disk.base] = [main |-> GenesisState.main, base |-> disk.base]
    BY <2>1 DEF Store
  <2> QED
    BY ZenonT(40), <1>3, <2>1, <2>2, Parts
<1>6. \A n : ResultAt(n)' = ResultAt(n)
  BY Zenon, <1>1, SameChain
<1> HIDE DEF cms
<1>7. StoresOK'
  BY Zenon, <1>0, <1>1, <1>2, <1>4, <1>5 DEF StoresOK
<1>8. ChainOK'
  <2>1. disk.latest = 0 => deliverState' # None
    BY Zenon, <1>1, <1>5, Parts
  <2> QED
    BY Zenon, <1>0, <1>1, <1>6, <2>1 DEF ChainOK
<1>9. Follows => Follows'
  <2> SUFFICES ASSUME Follows
               PROVE  Follows'
    BY Zenon
  <2>1. disk.base = ResultAt(disk.latest).base
    BY Zenon, <1>1 DEF Follows
  <2>2. CASE disk.latest = 0
    <3>1. [GenesisState EXCEPT !.base = disk.base] = GenesisState
      <4>1. GenesisState \in Store /\ disk.base = GenesisState.base
        BY Zenon, <2>1, <2>2, GenesisFresh DEF ResultAt, Fresh, SoundStores
      <4> QED
        BY Zenon, <4>1 DEF Store
    <3>2. deliverState' = GenesisState
      BY Zenon, <1>1, <2>2, <3>1
    <3> QED
      BY Zenon, <1>1, <1>6, <2>1, <2>2, <3>2 DEF Follows, Saved
  <2>3. CASE disk.latest # 0
    <3>1. disk.latest \in Saved
      BY Zenon, <1>1, <2>3 DEF Loads
    <3>2. deliverState' = None /\ tree' = chain[disk.latest].result.main
      BY Zenon, <1>1, <2>3, <3>1 DEF Follows
    <3> QED
      BY Zenon, <1>1, <1>6, <2>1, <2>3, <3>1, <3>2 DEF Follows, Saved
  <2> QED
    BY Zenon, <2>2, <2>3
<1>10. CheckOK'
  <2>1. main.log \in Seq(Txs)
    BY Zenon, <1>2 DEF SoundMains, MainStore
  <2>2. StartsWith(main.log, main.log)
    BY <2>1 DEF StartsWith
  <2>3. checkState' # None => checkState' = cms
    BY Zenon, <1>1
  <2>4. checkState' = None => disk.header = 0
    BY Zenon, <1>1, <1>4, Parts
  <2> QED
    BY Zenon, <1>0, <1>1, <1>4, <2>2, <2>3, <2>4 DEF CheckOK
<1> QED
  BY Zenon, <1>0, <1>1, <1>7, <1>8, <1>9, <1>10 DEF AInv

\* Checking a transaction.
LEMMA ACheckTx ==
    ASSUME AInv, NEW tx \in Submitted, CheckTx(tx)
    PROVE  AInv'
<1> DEFINE t == CheckedState(checkState, tx)
<1>0. StoresOK /\ ChainOK /\ (interrupted \/ Follows) /\ CheckOK
  BY Zenon DEF AInv
<1>1. /\ pc \in {"idle", "deliver"} /\ checkState # None /\ checkState' = t
      /\ UNCHANGED <<keepRecent, disk, tree, deliverState, pc, blockGas, index, response, chain, crashes, interrupted>>
  BY Zenon DEF CheckTx
<1>2. checkState \in SoundStores /\ tx \in Txs
  BY Zenon, <1>0, <1>1, AppAssumption DEF StoresOK
<1>3. /\ t \in SoundStores /\ t.base = checkState.base /\ t.main.hash = checkState.main.hash
      /\ t.main.log \in {checkState.main.log, Append(checkState.main.log, tx)}
  BY Zenon, <1>2, CheckedKeeps
<1> HIDE DEF t
<1>4. StoresOK'
  BY Zenon, <1>0, <1>1, <1>3 DEF StoresOK
<1>5. \A n : ResultAt(n)' = ResultAt(n)
  BY Zenon, <1>1, SameChain
<1>6. ChainOK' /\ (Follows => Follows')
  <2>1. Saved' = Saved /\ Block' = Block
    BY Zenon, <1>1 DEF Saved, Block
  <2>2. ChainOK'
    BY Zenon, <1>0, <1>1, <1>5, <2>1 DEF ChainOK
  <2>3. Follows => Follows'
    BY Zenon, <1>1, <1>5, <2>1 DEF Follows
  <2> QED
    BY Zenon, <2>2, <2>3
<1>7. CheckOK'
  <2>1. StartsWith(checkState.main.log, tree.log)
    BY Zenon, <1>0, <1>1 DEF CheckOK
  <2>2. tree.log \in Seq(Txs) /\ checkState.main.log \in Seq(Txs)
    BY Zenon, <1>0, <1>2, Parts DEF StoresOK, SoundMains, MainStore
  <2>3. StartsWith(t.main.log, tree.log)
    <3> DEFINE u == tree.log
               w == checkState.main.log
    <3> HIDE DEF u, w
    <3>1. u \in Seq(Txs) /\ w \in Seq(Txs) /\ StartsWith(w, u) /\ t.main.log \in {w, Append(w, tx)}
      BY Zenon, <1>3, <2>1, <2>2 DEF u, w
    <3>2. Append(w, tx) \in Seq(Txs) /\ Len(Append(w, tx)) = Len(w) + 1
      BY <1>2, <3>1
    <3>3. Len(u) <= Len(w) /\ Len(u) \in Nat /\ Len(w) \in Nat
      BY <3>1 DEF StartsWith
    <3>4. SubSeq(Append(w, tx), 1, Len(u)) = SubSeq(w, 1, Len(u))
      BY <1>2, <3>1, <3>2, <3>3
    <3>5. StartsWith(Append(w, tx), u)
      BY <3>1, <3>2, <3>3, <3>4 DEF StartsWith
    <3> QED
      BY ZenonT(40), <3>1, <3>5 DEF u, w
  <2>4. t # None
    BY Zenon, <1>3, Parts
  <2> QED
    BY Zenon, <1>0, <1>1, <1>3, <2>3, <2>4 DEF CheckOK
<1> QED
  BY Zenon, <1>0, <1>1, <1>4, <1>6, <1>7 DEF AInv

\* The block after the last version, from the chain or decided now.
LEMMA ABeginBlock ==
    ASSUME AInv, BeginBlock
    PROVE  AInv'
<1>0. StoresOK /\ ChainOK /\ (interrupted \/ Follows) /\ CheckOK
  BY Zenon DEF AInv
<1>1. /\ pc = "idle" /\ disk.latest < MaxHeight
      /\ deliverState' = IF deliverState = None THEN [main |-> tree, base |-> disk.base] ELSE deliverState
      /\ pc' = "deliver" /\ blockGas' = 0 /\ index' = 0
      /\ UNCHANGED <<keepRecent, disk, tree, checkState, crashes, interrupted>>
  BY Zenon DEF BeginBlock
<1>2. /\ disk.latest \in Nat /\ disk.base \in Nat /\ tree \in SoundMains /\ MaxHeight \in Nat
      /\ chain \in Seq(Entry) /\ Len(chain) \in Nat /\ disk.latest <= Len(chain) /\ Len(chain) <= MaxHeight
  BY <1>0, AppAssumption DEF StoresOK, ChainOK
<1>3. /\ chain' \in Seq(Entry) /\ Len(chain') \in Nat /\ disk.latest < Len(chain') /\ Len(chain') <= MaxHeight
      /\ \A n \in 1..Len(chain) : chain'[n] = chain[n]
      /\ \A n \in 0..Len(chain) : ResultAt(n)' = ResultAt(n)
      /\ \A n \in 1..Len(chain') :
            Progress(ResultAt(n - 1), chain[n].txs, 0, ResultAt(n - 1), 0, chain[n].result)'
  <2>1. CASE disk.latest < Len(chain)
    <3>1. UNCHANGED chain
      BY Zenon, <2>1 DEF BeginBlock
    <3>2. \A n : ResultAt(n)' = ResultAt(n)
      BY Zenon, <3>1, SameChain
    <3> QED
      BY Zenon, <1>0, <1>2, <2>1, <3>1, <3>2 DEF ChainOK
  <2>2. CASE ~(disk.latest < Len(chain))
    <3> DEFINE k == Len(chain)
    <3>1. PICK b \in Blocks : chain' = Append(chain, [txs |-> b, result |-> Execute(ResultAt(k), b)])
      BY Zenon, <2>2 DEF BeginBlock
    <3> DEFINE e == [txs |-> b, result |-> Execute(ResultAt(k), b)]
    <3>2. ResultAt(k) \in SoundStores /\ b \in Seq(Txs)
      BY <1>2, ResultSound, AppAssumption
    <3>3. /\ Progress(ResultAt(k), b, 0, ResultAt(k), 0, Execute(ResultAt(k), b))
          /\ Execute(ResultAt(k), b) \in SoundStores
      BY Zenon, <3>2, ExecuteRuns
    <3>4. e \in Entry /\ e.txs = b /\ e.result = Execute(ResultAt(k), b)
      BY Zenon, <3>3 DEF Entry
    <3> HIDE DEF e
    <3>5. /\ chain' \in Seq(Entry) /\ Len(chain') = k + 1 /\ chain'[k + 1] = e
          /\ \A n \in 1..k : chain'[n] = chain[n]
      BY <1>2, <3>1, <3>4 DEF e
    <3> HIDE DEF k
    <3>6. k \in Nat /\ k = Len(chain) /\ k = disk.latest
      BY <1>2, <2>2 DEF k
    <3>7. \A n \in 0..k : ResultAt(n)' = ResultAt(n)
      BY <3>5, <3>6 DEF ResultAt
    <3>8. ASSUME NEW n \in 1..(k + 1)
          PROVE  Progress(ResultAt(n - 1), chain[n].txs, 0, ResultAt(n - 1), 0, chain[n].result)'
      <4>1. n - 1 \in 0..k
        BY <3>6
      <4>2. ResultAt(n - 1)' = ResultAt(n - 1)
        BY Zenon, <3>7, <4>1
      <4>3. CASE n = k + 1
        <5>1. n - 1 = k
          BY <3>6, <4>3
        <5> QED
          BY Zenon, <3>3, <3>4, <3>5, <4>2, <4>3, <5>1
      <4>4. CASE n # k + 1
        <5>1. n \in 1..k
          BY <3>6, <4>4
        <5>2. Progress(ResultAt(n - 1), chain[n].txs, 0, ResultAt(n - 1), 0, chain[n].result)
          BY Zenon, <1>0, <3>6, <5>1 DEF ChainOK
        <5> QED
          BY Zenon, <3>5, <4>2, <5>1, <5>2
      <4> QED
        BY Zenon, <4>3, <4>4
    <3> QED
      BY SMTT(40), <1>1, <1>2, <3>5, <3>6, <3>7, <3>8
  <2> QED
    BY Zenon, <2>1, <2>2
<1>4. deliverState' \in SoundStores
  BY Zenon, <1>0, <1>1, <1>2, Parts DEF StoresOK
<1>5. StoresOK'
  BY Zenon, <1>0, <1>1, <1>4 DEF StoresOK
<1>6. ChainOK'
  <2>1. deliverState' # None
    BY Zenon, <1>4, Parts
  <2>2. Len(Block') \in Nat
    <3>1. disk.latest + 1 \in 1..Len(chain')
      BY <1>2, <1>3
    <3>2. chain'[disk.latest + 1] \in Entry
      BY <1>3, <3>1
    <3>3. chain'[disk.latest + 1].txs \in Seq(Txs)
      BY Zenon, <3>2, AppAssumption DEF Entry
    <3> QED
      BY <1>1, <3>3 DEF Block
  <2> QED
    BY <1>1, <1>2, <1>3, <2>1, <2>2 DEF ChainOK
<1>7. Follows => Follows'
  <2> SUFFICES ASSUME Follows
               PROVE  Follows'
    BY Zenon
  <2>1. disk.latest \in 0..Len(chain) /\ disk.base = ResultAt(disk.latest).base
    BY <1>1, <1>2 DEF Follows
  <2>2. ResultAt(disk.latest) \in SoundStores
    BY Zenon, <1>2, <2>1, ResultSound
  <2>3. deliverState' = ResultAt(disk.latest)
    <3>1. CASE disk.latest = 0
      <4>1. deliverState = GenesisState /\ ResultAt(disk.latest) = GenesisState
        BY Zenon, <1>1, <3>1 DEF Follows, ResultAt
      <4> QED
        BY Zenon, <1>1, <2>2, <4>1, Parts
    <3>2. CASE disk.latest # 0
      <4>1. deliverState = None /\ tree = ResultAt(disk.latest).main
        BY Zenon, <1>1, <3>2 DEF Follows, ResultAt
      <4>2. deliverState' = [main |-> ResultAt(disk.latest).main, base |-> ResultAt(disk.latest).base]
        BY Zenon, <1>1, <2>1, <4>1
      <4>3. ResultAt(disk.latest) \in Store
        BY Zenon, <2>2 DEF SoundStores
      <4> QED
        BY Zenon, <4>2, <4>3 DEF Store
    <3> QED
      BY Zenon, <3>1, <3>2
  <2>4. ResultAt(disk.latest)' = ResultAt(disk.latest) /\ disk' = disk /\ Saved' = Saved
    BY Zenon, <1>1, <1>3, <2>1 DEF Saved
  <2>5. Progress(ResultAt(disk.latest), Block, index, deliverState, blockGas, chain[disk.latest + 1].result)'
    <3>1. disk.latest + 1 \in 1..Len(chain') /\ disk.latest + 1 - 1 = disk.latest
      BY <1>2, <1>3
    <3>2. Progress(ResultAt(disk.latest), chain[disk.latest + 1].txs, 0, ResultAt(disk.latest), 0, chain[disk.latest + 1].result)'
      <4>1. PICK n \in 1..Len(chain') : n = disk.latest + 1
        BY Zenon, <3>1
      <4>2. Progress(ResultAt(n - 1), chain[n].txs, 0, ResultAt(n - 1), 0, chain[n].result)'
        BY Zenon, <1>3
      <4>3. PICK k : k = n - 1
        BY Zenon
      <4>4. Progress(ResultAt(k), chain[n].txs, 0, ResultAt(k), 0, chain[n].result)'
        BY Zenon, <4>2, <4>3
      <4>5. k = disk'.latest /\ n = disk'.latest + 1
        BY SMTT(40), <1>2, <2>4, <4>1, <4>3
      <4>6. ResultAt(disk.latest)' = ResultAt(k)'
        BY Zenon, <4>5 DEF ResultAt
      <4> QED
        BY Zenon, <4>4, <4>5, <4>6
    <3> QED
      BY Zenon, <1>1, <2>3, <2>4, <3>2 DEF Block
  <2>6. \A v \in Saved : v \in 1..Len(chain) /\ chain'[v] = chain[v] /\ v <= disk.latest
    BY <1>1, <1>2, <1>3 DEF Follows, Saved
  <2> QED
    BY Zenon, <1>1, <2>1, <2>4, <2>5, <2>6 DEF Follows
<1>8. CheckOK'
  BY Zenon, <1>0, <1>1 DEF CheckOK
<1> QED
  BY Zenon, <1>0, <1>1, <1>5, <1>6, <1>7, <1>8 DEF AInv

\* The next transaction of the block.
LEMMA ADeliverTx ==
    ASSUME AInv, DeliverTx
    PROVE  AInv'
<1> DEFINE r == RunTx(deliverState, Block[index + 1], blockGas)
<1>0. StoresOK /\ ChainOK /\ (interrupted \/ Follows) /\ CheckOK
  BY Zenon DEF AInv
<1>1. /\ pc = "deliver" /\ index < Len(Block)
      /\ deliverState' = r.st /\ blockGas' = r.gas /\ index' = index + 1
      /\ UNCHANGED <<keepRecent, disk, tree, checkState, pc, chain, crashes, interrupted>>
  BY Zenon DEF DeliverTx
<1>2. /\ deliverState \in SoundStores /\ blockGas \in Nat /\ index \in Nat
      /\ Len(Block) \in Nat /\ Block[index + 1] \in Txs
  <2>1. deliverState \in SoundStores /\ blockGas \in Nat /\ index \in Nat
    BY Zenon, <1>0, <1>1 DEF StoresOK, ChainOK
  <2>2. chain[disk.latest + 1] \in Entry
    BY <1>0, <1>1 DEF StoresOK, ChainOK
  <2>3. Block \in Seq(Txs)
    BY Zenon, <2>2, AppAssumption DEF Entry, Block
  <2> HIDE DEF r
  <2> QED
    BY SMTT(40), <1>1, <2>1, <2>3
<1>3. r \in Delivered
  BY Zenon, <1>2, RunTxKeeps
<1>4. r.st \in SoundStores /\ r.gas \in Nat
  <2> HIDE DEF r
  <2> QED
    BY Zenon, <1>3 DEF Delivered
<1>5. \A n : ResultAt(n)' = ResultAt(n)
  BY Zenon, <1>1, SameChain
<1>6. Saved' = Saved /\ Block' = Block
  BY Zenon, <1>1 DEF Saved, Block
<1>7. Follows => Progress(ResultAt(disk.latest), Block, index + 1, r.st, r.gas, chain[disk.latest + 1].result)
  <2> SUFFICES ASSUME Follows
               PROVE  Progress(ResultAt(disk.latest), Block, index + 1, r.st, r.gas, chain[disk.latest + 1].result)
    BY Zenon
  <2>1. Progress(ResultAt(disk.latest), Block, index, deliverState, blockGas, chain[disk.latest + 1].result)
    BY Zenon, <1>1 DEF Follows
  <2> QED
    BY Zenon, <1>1, <1>2, <2>1, ProgressStep
<1> HIDE DEF r
<1>8. StoresOK'
  BY SMTT(40), <1>0, <1>1, <1>2, <1>4 DEF StoresOK
<1>9. ChainOK'
  <2>1. deliverState' # None
    BY Zenon, <1>1, <1>4, Parts
  <2> QED
    BY SMTT(40), <1>0, <1>1, <1>2, <1>5, <1>6, <2>1 DEF ChainOK
<1>10. Follows => Follows'
  BY Zenon, <1>1, <1>5, <1>6, <1>7 DEF Follows
<1>11. CheckOK'
  BY Zenon, <1>0, <1>1 DEF CheckOK
<1> QED
  BY Zenon, <1>0, <1>1, <1>8, <1>9, <1>10, <1>11 DEF AInv

\* The fields of the disk record.
LEMMA DiskParts ==
    ASSUME StoresOK
    PROVE  /\ disk.latest \in Nat /\ disk.latest <= MaxHeight /\ disk.header \in Nat /\ disk.base \in Nat
           /\ disk.saved \in [1..MaxHeight -> SoundMains \cup {None}] /\ MaxHeight \in Nat
BY AppAssumption DEF StoresOK

\* The objects go to the database.
LEMMA AMultiWrite ==
    ASSUME AInv, MultiWrite
    PROVE  AInv'
<1>0. StoresOK /\ ChainOK /\ (interrupted \/ Follows) /\ CheckOK
  BY Zenon DEF AInv
<1>1. /\ pc = "deliver" /\ index = Len(Block) /\ tree' = deliverState.main /\ pc' = "save"
      /\ UNCHANGED <<keepRecent, deliverState, checkState, blockGas, index, response, chain, crashes, interrupted>>
  BY Zenon DEF MultiWrite
<1>2. deliverState \in SoundStores
  BY Zenon, <1>0, <1>1 DEF StoresOK, ChainOK
<1>3. deliverState.main \in SoundMains /\ deliverState.base \in Nat
  BY Zenon, <1>2, Parts
<1>4. /\ disk' \in [latest : 0..MaxHeight, saved : [1..MaxHeight -> SoundMains \cup {None}],
                    base : Nat, header : 0..MaxHeight]
      /\ disk'.latest = disk.latest /\ disk'.saved = disk.saved /\ disk'.header = disk.header
      /\ disk'.base = deliverState.base
  BY Zenon, <1>0, <1>3 DEF MultiWrite, StoresOK
<1>5. StoresOK'
  BY Zenon, <1>0, <1>1, <1>3, <1>4 DEF StoresOK
<1>6. \A n : ResultAt(n)' = ResultAt(n)
  BY Zenon, <1>1, SameChain
<1>7. Saved' = Saved
  BY Zenon, <1>4 DEF Saved
<1>8. ChainOK'
  BY Zenon, <1>0, <1>1, <1>4, <1>6 DEF ChainOK
<1>9. Follows => Follows'
  <2> SUFFICES ASSUME Follows
               PROVE  Follows'
    BY Zenon
  <2>1. Progress(ResultAt(disk.latest), Block, Len(Block), deliverState, blockGas, chain[disk.latest + 1].result)
    BY Zenon, <1>1 DEF Follows
  <2>2. deliverState = chain[disk.latest + 1].result
    BY Zenon, <2>1, ProgressEnd
  <2> QED
    BY Zenon, <1>1, <1>4, <1>7, <2>2 DEF Follows
<1>10. CheckOK'
  BY Zenon, <1>0, <1>1, <1>4 DEF CheckOK
<1> QED
  BY Zenon, <1>0, <1>1, <1>5, <1>8, <1>9, <1>10 DEF AInv

\* The version of the tree is saved; one that exists is the same.
LEMMA ASaveVersion ==
    ASSUME AInv, SaveVersion
    PROVE  AInv'
<1> DEFINE v == disk.latest + 1
<1>0. StoresOK /\ ChainOK /\ (interrupted \/ Follows) /\ CheckOK
  BY Zenon DEF AInv
<1>1. /\ pc = "save"
      /\ \/ disk.saved[v] \in {None, tree} /\ disk' = [disk EXCEPT !.saved[v] = tree] /\ pc' = "prune"
         \/ disk.saved[v] \notin {None, tree} /\ pc' = "halted" /\ UNCHANGED disk
      /\ UNCHANGED <<keepRecent, tree, deliverState, checkState, blockGas, index, response, chain, crashes, interrupted>>
  BY Zenon DEF SaveVersion
<1>2. v \in 1..Len(chain) /\ v \in 1..MaxHeight /\ tree \in SoundMains
  BY <1>0, <1>1, DiskParts DEF StoresOK, ChainOK
<1>3. /\ disk' \in [latest : 0..MaxHeight, saved : [1..MaxHeight -> SoundMains \cup {None}],
                    base : Nat, header : 0..MaxHeight]
      /\ disk'.latest = disk.latest /\ disk'.base = disk.base /\ disk'.header = disk.header
      /\ pc' = "prune" => disk'.saved = [disk.saved EXCEPT ![v] = tree]
  BY Zenon, <1>0, <1>1, <1>2 DEF StoresOK
<1>4. StoresOK'
  BY Zenon, <1>0, <1>1, <1>3 DEF StoresOK
<1>5. \A n : ResultAt(n)' = ResultAt(n)
  BY Zenon, <1>1, SameChain
<1>6. ChainOK'
  BY Zenon, <1>0, <1>1, <1>3, <1>5 DEF ChainOK
<1>7. Follows => Follows'
  <2> SUFFICES ASSUME Follows
               PROVE  Follows'
    BY Zenon
  <2>1. tree = chain[v].result.main /\ disk.base = chain[v].result.base
    BY Zenon, <1>1 DEF Follows
  <2>2. disk.saved[v] \in {None, tree}
    BY Zenon, <1>2, <2>1 DEF Follows, Saved
  <2>3. pc' = "prune" /\ disk'.saved = [disk.saved EXCEPT ![v] = tree]
    BY Zenon, <1>1, <1>3, <2>2
  <2>4. tree # None
    BY Zenon, <1>2, Parts
  <2> HIDE DEF v
  <2>5. disk'.saved[v] = tree /\ \A u \in 1..MaxHeight : u # v => disk'.saved[u] = disk.saved[u]
    BY Zenon, <1>0, <1>2, <2>3, DiskParts
  <2>6. Saved' = Saved \cup {v}
    BY Zenon, <1>2, <2>4, <2>5 DEF Saved
  <2>7. \A u \in Saved' : /\ disk'.saved[u] = chain[u].result.main
                          /\ u <= disk.latest \/ u = v
    <3>1. \A u \in Saved : u \in 1..MaxHeight /\ disk.saved[u] = chain[u].result.main /\ u <= disk.latest
      BY Zenon, <1>1 DEF Follows, Saved
    <3> QED
      BY Zenon, <2>1, <2>5, <2>6, <3>1
  <2>8. disk.latest > 0 => disk.latest \in Saved'
    BY Zenon, <1>1, <2>6 DEF Follows
  <2> QED
    BY Zenon, <1>1, <1>3, <2>1, <2>3, <2>6, <2>7, <2>8 DEF Follows, v
<1>8. CheckOK'
  BY Zenon, <1>0, <1>1, <1>3 DEF CheckOK
<1> QED
  BY Zenon, <1>0, <1>1, <1>4, <1>6, <1>7, <1>8 DEF AInv

\* An old version is released.
LEMMA ADeleteVersion ==
    ASSUME AInv, DeleteVersion
    PROVE  AInv'
<1>0. StoresOK /\ ChainOK /\ (interrupted \/ Follows) /\ CheckOK
  BY Zenon DEF AInv
<1>1. /\ pc = "prune" /\ pc' = "info"
      /\ disk' = IF ToRelease > 0 THEN [disk EXCEPT !.saved[ToRelease] = None] ELSE disk
      /\ UNCHANGED <<keepRecent, tree, deliverState, checkState, blockGas, index, response, chain, crashes, interrupted>>
  BY Zenon DEF DeleteVersion
<1>2. ToRelease \in Int /\ ToRelease <= disk.latest /\ (ToRelease > 0 => ToRelease \in 1..MaxHeight)
  BY <1>0, DiskParts DEF StoresOK, ToRelease
<1>3. /\ disk' \in [latest : 0..MaxHeight, saved : [1..MaxHeight -> SoundMains \cup {None}],
                    base : Nat, header : 0..MaxHeight]
      /\ disk'.latest = disk.latest /\ disk'.base = disk.base /\ disk'.header = disk.header
      /\ \A u \in 1..MaxHeight : disk'.saved[u] = IF ToRelease > 0 /\ u = ToRelease THEN None ELSE disk.saved[u]
  <2>1. CASE ToRelease > 0
    <3> DEFINE saved == [disk.saved EXCEPT ![ToRelease] = None]
    <3>1. /\ saved \in [1..MaxHeight -> SoundMains \cup {None}]
          /\ \A u \in 1..MaxHeight : saved[u] = IF u = ToRelease THEN None ELSE disk.saved[u]
      BY Zenon, <1>0, DiskParts
    <3>2. disk' = [disk EXCEPT !.saved = saved]
      BY Zenon, <1>1, <2>1
    <3> HIDE DEF saved
    <3>3. /\ disk' \in [latest : 0..MaxHeight, saved : [1..MaxHeight -> SoundMains \cup {None}],
                        base : Nat, header : 0..MaxHeight]
          /\ disk'.latest = disk.latest /\ disk'.base = disk.base /\ disk'.header = disk.header
          /\ disk'.saved = saved
      BY Zenon, <1>0, <3>1, <3>2 DEF StoresOK
    <3> QED
      BY Zenon, <2>1, <3>1, <3>3
  <2>2. CASE ~(ToRelease > 0)
    BY Zenon, <1>0, <1>1, <2>2 DEF StoresOK
  <2> QED
    BY Zenon, <2>1, <2>2
<1>4. StoresOK'
  BY Zenon, <1>0, <1>1, <1>3 DEF StoresOK
<1>5. \A n : ResultAt(n)' = ResultAt(n)
  BY Zenon, <1>1, SameChain
<1>6. ChainOK'
  BY Zenon, <1>0, <1>1, <1>3, <1>5 DEF ChainOK
<1>7. Follows => Follows'
  <2> SUFFICES ASSUME Follows
               PROVE  Follows'
    BY Zenon
  <2>1. \A u \in Saved' : u \in Saved /\ disk'.saved[u] = disk.saved[u]
    BY Zenon, <1>3 DEF Saved
  <2>2. disk.latest + 1 \in Saved'
    <3>1. disk.latest + 1 \in Saved
      BY Zenon, <1>1 DEF Follows
    <3>2. disk.latest + 1 # ToRelease
      BY <1>0, <1>2, DiskParts
    <3> QED
      BY Zenon, <1>3, <3>1, <3>2 DEF Saved
  <2>3. \A u \in Saved' : /\ disk'.saved[u] = chain[u].result.main
                          /\ u <= disk.latest \/ u = disk.latest + 1
    BY Zenon, <2>1 DEF Follows
  <2> QED
    BY <1>1, <1>3, <2>2, <2>3 DEF Follows
<1>8. CheckOK'
  BY Zenon, <1>0, <1>1, <1>3 DEF CheckOK
<1> QED
  BY Zenon, <1>0, <1>1, <1>4, <1>6, <1>7, <1>8 DEF AInv

\* The latest version is advanced.
LEMMA ACommitInfo ==
    ASSUME AInv, CommitInfo
    PROVE  AInv'
<1>0. StoresOK /\ ChainOK /\ (interrupted \/ Follows) /\ CheckOK
  BY Zenon DEF AInv
<1>1. /\ pc = "info" /\ pc' = "header"
      /\ UNCHANGED <<keepRecent, tree, deliverState, checkState, blockGas, index, response, chain, crashes, interrupted>>
  BY Zenon DEF CommitInfo
<1>2. disk.latest + 1 <= Len(chain) /\ disk.latest + 1 \in 0..MaxHeight
  BY <1>0, <1>1, DiskParts DEF ChainOK
<1>3. /\ disk' \in [latest : 0..MaxHeight, saved : [1..MaxHeight -> SoundMains \cup {None}],
                    base : Nat, header : 0..MaxHeight]
      /\ disk'.latest = disk.latest + 1 /\ disk'.base = disk.base /\ disk'.header = disk.header
      /\ disk'.saved = disk.saved
  BY Zenon, <1>0, <1>2 DEF StoresOK, CommitInfo
<1>4. StoresOK'
  BY Zenon, <1>0, <1>1, <1>3 DEF StoresOK
<1>5. \A n : ResultAt(n)' = ResultAt(n)
  BY Zenon, <1>1, SameChain
<1>6. ChainOK'
  <2>1. disk.latest + 1 > 0
    BY <1>0, DiskParts
  <2> QED
    BY ZenonT(40), <1>0, <1>1, <1>2, <1>3, <1>5, <2>1 DEF ChainOK
<1>7. Follows => Follows'
  <2> SUFFICES ASSUME Follows
               PROVE  Follows'
    BY Zenon
  <2>1. Saved' = Saved
    BY Zenon, <1>3 DEF Saved
  <2>2. disk.latest + 1 \in Saved
    BY Zenon, <1>1 DEF Follows
  <2>3. \A u \in Saved : u \in Nat /\ disk.saved[u] = chain[u].result.main /\ u <= disk.latest + 1
    BY SMTT(40), <1>0, DiskParts DEF Follows, Saved
  <2>4. tree = chain[disk.latest + 1].result.main /\ disk.base = chain[disk.latest + 1].result.base
    BY Zenon, <1>1 DEF Follows
  <2> QED
    BY Zenon, <1>1, <1>3, <2>1, <2>2, <2>3, <2>4 DEF Follows
<1>8. CheckOK'
  <2>1. disk.header = 0 => disk.latest + 1 <= crashes + 1
    BY <1>0, <1>1, DiskParts DEF CheckOK, StoresOK
  <2> QED
    BY Zenon, <1>1, <1>3, <2>1 DEF CheckOK
<1> QED
  BY Zenon, <1>0, <1>1, <1>4, <1>6, <1>7, <1>8 DEF AInv

\* The end of Commit.
LEMMA ACommitHeader ==
    ASSUME AInv, CommitHeader
    PROVE  AInv'
<1> DEFINE cms == [main |-> tree, base |-> disk.base]
<1>0. StoresOK /\ ChainOK /\ (interrupted \/ Follows) /\ CheckOK
  BY Zenon DEF AInv
<1>1. /\ pc = "header" /\ pc' = "idle" /\ checkState' = cms /\ deliverState' = None
      /\ UNCHANGED <<keepRecent, tree, blockGas, index, response, chain, crashes, interrupted>>
  BY Zenon DEF CommitHeader
<1>2. cms \in SoundStores /\ cms.main = tree /\ cms.base = disk.base /\ cms # None
  <2>1. tree \in SoundMains /\ disk.base \in Nat
    BY Zenon, <1>0 DEF StoresOK
  <2>2. cms \in SoundStores
    BY Zenon, <2>1, Parts
  <2> QED
    BY Zenon, <2>2, Parts
<1> HIDE DEF cms
<1>3. /\ disk' \in [latest : 0..MaxHeight, saved : [1..MaxHeight -> SoundMains \cup {None}],
                    base : Nat, header : 0..MaxHeight]
      /\ disk'.latest = disk.latest /\ disk'.base = disk.base /\ disk'.header = disk.latest
      /\ disk'.saved = disk.saved
  BY Zenon, <1>0 DEF StoresOK, CommitHeader
<1>4. disk.latest > 0 /\ disk.latest \in Nat
  BY Zenon, <1>0, <1>1, DiskParts DEF ChainOK
<1>5. StoresOK'
  BY Zenon, <1>0, <1>1, <1>2, <1>3 DEF StoresOK
<1>6. \A n : ResultAt(n)' = ResultAt(n)
  BY Zenon, <1>1, SameChain
<1>7. ChainOK'
  <2>1. disk.latest # 0
    BY <1>4
  <2> QED
    BY ZenonT(40), <1>0, <1>1, <1>3, <1>6, <2>1 DEF ChainOK
<1>8. Follows => Follows'
  <2> SUFFICES ASSUME Follows
               PROVE  Follows'
    BY Zenon
  <2>1. Saved' = Saved
    BY Zenon, <1>3 DEF Saved
  <2>2. \A u \in Saved : disk.saved[u] = chain[u].result.main /\ u <= disk.latest
    BY Zenon, <1>1 DEF Follows
  <2>3. disk.latest \in Saved
    BY Zenon, <1>1, <1>4 DEF Follows
  <2>4. tree = chain[disk.latest].result.main /\ disk.base = chain[disk.latest].result.base
    BY Zenon, <1>1 DEF Follows
  <2>5. ResultAt(disk.latest)' = chain[disk.latest].result
    BY SMTT(40), <1>1, <1>3, <1>4 DEF ResultAt
  <2> QED
    BY SMTT(40), <1>1, <1>3, <1>4, <2>1, <2>2, <2>3, <2>4, <2>5 DEF Follows
<1>9. CheckOK'
  <2>1. tree.log \in Seq(Txs)
    BY Zenon, <1>0 DEF StoresOK, SoundMains, MainStore
  <2>2. StartsWith(tree.log, tree.log)
    BY <2>1 DEF StartsWith
  <2> QED
    BY SMTT(40), <1>1, <1>2, <1>3, <1>4, <2>2 DEF CheckOK
<1> QED
  BY Zenon, <1>0, <1>1, <1>5, <1>7, <1>8, <1>9 DEF AInv

\* A crash: what is in memory is gone.
LEMMA ACrash ==
    ASSUME AInv, Crash
    PROVE  AInv'
<1>0. StoresOK /\ ChainOK /\ (interrupted \/ Follows) /\ CheckOK
  BY Zenon DEF AInv
<1>1. /\ pc \notin {"down", "halted"} /\ crashes' = crashes + 1
      /\ interrupted' = (interrupted \/ pc \in {"save", "prune", "info"})
      /\ tree' = EmptyMain /\ deliverState' = None /\ checkState' = None /\ pc' = "down"
      /\ UNCHANGED <<keepRecent, disk, blockGas, index, response, chain>>
  BY Zenon DEF Crash
<1>2. EmptyMain \in SoundMains
  BY Zenon, EmptySound DEF SoundMains
<1>3. StoresOK'
  <2>1. crashes' \in Nat /\ interrupted' \in BOOLEAN
    BY <1>0, <1>1 DEF StoresOK
  <2> QED
    BY Zenon, <1>0, <1>1, <1>2, <2>1 DEF StoresOK
<1>4. \A n : ResultAt(n)' = ResultAt(n)
  BY Zenon, <1>1, SameChain
<1>5. ChainOK'
  BY Zenon, <1>0, <1>1, <1>4 DEF ChainOK
<1>6. interrupted' \/ Follows'
  <2> SUFFICES ASSUME ~interrupted, pc \notin {"save", "prune", "info"}
               PROVE  Follows'
    BY Zenon, <1>1
  <2>1. Follows /\ pc \in {"idle", "deliver", "header"}
    BY Zenon, <1>0, <1>1 DEF StoresOK
  <2>2. Saved' = Saved
    BY Zenon, <1>1 DEF Saved
  <2>3. \A u \in Saved : disk.saved[u] = chain[u].result.main /\ u <= disk.latest
    BY Zenon, <2>1 DEF Follows
  <2>4. disk.base = ResultAt(disk.latest).base
    <3>1. CASE pc = "header"
      <4>1. disk.latest # 0
        BY SMTT(40), <1>0, <3>1, DiskParts DEF ChainOK
      <4> QED
        BY Zenon, <2>1, <3>1, <4>1 DEF Follows, ResultAt
    <3>2. CASE pc # "header"
      BY Zenon, <2>1, <3>2 DEF Follows
    <3> QED
      BY Zenon, <3>1, <3>2
  <2>5. ResultAt(disk.latest)' = ResultAt(disk.latest)
    BY Zenon, <1>1 DEF ResultAt
  <2> QED
    BY Zenon, <1>1, <2>1, <2>2, <2>3, <2>4, <2>5 DEF Follows
<1>7. CheckOK'
  <2>1. disk.header = 0 => disk.latest <= crashes + 1
    BY <1>0, DiskParts DEF CheckOK, StoresOK
  <2> QED
    BY SMTT(40), <1>0, <1>1, <2>1, DiskParts DEF CheckOK, StoresOK
<1> QED
  BY Zenon, <1>3, <1>5, <1>6, <1>7 DEF AInv

-----------------------------------------------------------------------------
(* Theorems *)

\* A step keeps the invariant.
LEMMA ANext ==
    ASSUME AInv, [Next]_vars
    PROVE  AInv'
<1>1. CASE Next
  BY Zenon, <1>1, AStart, ACheckTx, ABeginBlock, ADeliverTx, AMultiWrite, ASaveVersion, ADeleteVersion,
     ACommitInfo, ACommitHeader, ACrash DEF Next, Consensus
<1>2. CASE UNCHANGED vars
  <2>1. UNCHANGED <<keepRecent, disk, tree, deliverState, checkState, pc, blockGas, index, response,
                    chain, crashes, interrupted>>
    BY Zenon, <1>2 DEF vars
  <2>2. \A n : ResultAt(n)' = ResultAt(n)
    BY Zenon, <2>1, SameChain
  <2>3. Saved' = Saved /\ Block' = Block
    BY Zenon, <2>1 DEF Saved, Block
  <2>4. StoresOK => StoresOK'
    BY Zenon, <2>1 DEF StoresOK
  <2>5. ChainOK => ChainOK'
    BY Zenon, <2>1, <2>2, <2>3 DEF ChainOK
  <2>6. Follows => Follows'
    BY Zenon, <2>1, <2>2, <2>3 DEF Follows
  <2>7. CheckOK => CheckOK'
    BY Zenon, <2>1 DEF CheckOK
  <2> QED
    BY Zenon, <2>1, <2>4, <2>5, <2>6, <2>7 DEF AInv
<1> QED
  BY Zenon, <1>1, <1>2

\* Every store of the application is sound, and follows from the chain as Commit
\* has got with it.
THEOREM StoresAreKept == Spec => []AInv
<1>1. Init => AInv
  BY Zenon, AInit
<1>2. AInv /\ [Next]_vars => AInv'
  BY Zenon, ANext
<1> QED
  BY <1>1, <1>2, PTL DEF Spec

\* The main stores and the versions are sound.
LEMMA MainsAreSound ==
    ASSUME AInv
    PROVE  \A m \in Mains : m \in SoundMains
<1>1. StoresOK
  BY Zenon DEF AInv
<1>2. tree \in SoundMains /\ disk.base \in Nat
  BY Zenon, <1>1 DEF StoresOK
<1>3. \A st \in States : st \in SoundStores
  BY Zenon, <1>1, <1>2, Parts DEF States, StoresOK
<1>4. \A v \in Saved : disk.saved[v] \in SoundMains
  BY Zenon, <1>1 DEF Saved, StoresOK
<1> QED
  BY Zenon, <1>3, <1>4, Parts DEF Mains

\* No transaction takes effect twice in any store or version: runTx refuses one
\* whose sequence number the account has passed, in any block, after any replay.
THEOREM NoReplay == Spec => []ExecutedOnce
<1>1. AInv => ExecutedOnce
  BY Zenon, MainsAreSound DEF ExecutedOnce, SoundMains, SoundMain, Logged
<1> QED
  BY <1>1, StoresAreKept, PTL

\* Types, and account numbers that are different and below the next one.
THEOREM AccountsAreSound == Spec => [](TypeOK /\ NumbersDiffer)
<1>1. AInv => NumbersDiffer
  BY Zenon, MainsAreSound DEF NumbersDiffer, SoundMains, SoundMain, Numbered
<1>2. AInv => TypeOK
  <2> SUFFICES ASSUME AInv
               PROVE  TypeOK
    BY Zenon
  <2>1. \A m \in Mains : \A a \in Addrs : m.accs[a] \in Account \cup {NoAccount}
    BY Zenon, MainsAreSound DEF SoundMains, MainStore
  <2> QED
    BY Zenon, <2>1 DEF AInv, StoresOK, ChainOK, TypeOK
<1> QED
  BY <1>1, <1>2, StoresAreKept, PTL

\* After any crash and replay outside the writes of Commit every version on
\* disk is what executing the chain gives, it loads, and the check state runs
\* ahead of it only by checked transactions.
THEOREM StoresFollow == Spec => []StoresFollowChain
<1>1. ASSUME AInv
      PROVE  StoresFollowChain
  <2>0. StoresOK /\ ChainOK /\ (interrupted \/ Follows) /\ CheckOK
    BY Zenon, <1>1 DEF AInv
  <2>1. VersionsAreExecutions
    BY Zenon, <2>0 DEF VersionsAreExecutions, Follows
  <2>2. Restarts
    <3> SUFFICES ASSUME pc = "down", ~interrupted
                 PROVE  Loads
      BY Zenon DEF Restarts
    <3>1. Follows /\ disk.latest \in Nat
      BY Zenon, <2>0, DiskParts
    <3>2. CASE disk.latest = 0
      <4>1. \A v \in Saved : v \in Nat /\ v > 0 /\ v <= 0
        BY SMTT(40), <2>0, <3>1, <3>2, DiskParts DEF Follows, Saved
      <4>2. \A v \in Saved : FALSE
        BY <4>1
      <4> QED
        BY Zenon, <3>2, <4>2 DEF Loads
    <3>3. CASE disk.latest # 0
      BY <3>1, <3>3 DEF Follows, Loads
    <3> QED
      BY Zenon, <3>2, <3>3
  <2>3. CheckFollows
    <3> SUFFICES ASSUME pc \in {"idle", "deliver"}
                 PROVE  IF checkState = None THEN disk.header = 0 /\ disk.latest <= crashes
                        ELSE /\ StartsWith(checkState.main.log, tree.log)
                             /\ checkState.main.hash = tree.hash /\ checkState.base = disk.base
      BY Zenon DEF CheckFollows
    <3>1. disk.header = 0 => disk.latest <= crashes
      BY <2>0, DiskParts DEF CheckOK, StoresOK
    <3> QED
      BY Zenon, <2>0, <3>1 DEF CheckOK
  <2> QED
    BY Zenon, <2>1, <2>2, <2>3 DEF StoresFollowChain
<1> QED
  BY <1>1, StoresAreKept, PTL

\* DeliverTx leaves no trace of the transaction, its fee, or all of it.
THEOREM DeliversAllOrFee == Spec => AllOrFee
<1> DEFINE A == DeliverTx =>
                  LET tx == Block[index + 1]
                      full == RunMsgs(Ante(deliverState, tx), tx)
                  IN  \/ response' \in {"ante", "no block gas"} /\ deliverState' = deliverState
                      \/ response' \in {"coins", "route", "gas", "block gas"} /\ deliverState' = Ante(deliverState, tx)
                      \/ response' \in {None, "block gas"} /\ full.error = None /\ deliverState' = full.st
<1>1. ASSUME AInv
      PROVE  A
  <2> SUFFICES ASSUME DeliverTx
               PROVE  A
    BY Zenon
  <2> DEFINE tx == Block[index + 1]
             r == RunTx(deliverState, tx, blockGas)
  <2>1. pc = "deliver" /\ index < Len(Block) /\ deliverState' = r.st /\ response' = r.error
    BY Zenon DEF DeliverTx
  <2>2. deliverState \in SoundStores /\ blockGas \in Nat /\ index \in Nat
    BY Zenon, <1>1, <2>1 DEF AInv, StoresOK, ChainOK
  <2>3. tx \in Txs
    <3>1. chain[disk.latest + 1] \in Entry
      BY <1>1, <2>1 DEF AInv, StoresOK, ChainOK
    <3>2. Block \in Seq(Txs)
      BY Zenon, <3>1, AppAssumption DEF Entry, Block
    <3> QED
      BY SMTT(40), <2>1, <2>2, <3>2
  <2>4. AllOrFeeOf(deliverState, tx, r)
    BY Zenon, <2>2, <2>3, RunTxKeeps
  <2> HIDE DEF r
  <2> QED
    BY ZenonT(40), <2>1, <2>4 DEF AllOrFeeOf
<1>2. AInv /\ [Next]_vars => [A]_vars
  BY Zenon, <1>1
<1> QED
  BY <1>2, StoresAreKept, PTL DEF Spec, AllOrFee
=============================================================================
