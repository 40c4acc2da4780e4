------------------------------- MODULE Coins --------------------------------
(***************************************************************************)
(* Sets of coins (std/coin.go): slices sorted by denomination, merged by   *)
(* AddUnsafe, searched by AmountOf; and an account whose coins the bank    *)
(* keeper adds to and subtracts from (sdk/bank/keeper.go), beside the      *)
(* ledger of integers it stands for.  Denominations are numbers in their   *)
(* order; amounts have the width of the code's int64, scaled down.         *)
(***************************************************************************)
EXTENDS Integers, Sequences, SequencesExt

CONSTANTS
    Denoms,     \* the denominations, 1..n
    MaxInt,     \* the largest amount (2^63 - 1 in the code)
    Amounts,    \* the amt arguments: coins, valid or not
    Others,     \* the valid coins that accounts are compared with
    None        \* the code panicked

VARIABLES
    coins,      \* the coins of the account
    ledger      \* what it owns of each denomination

vars == <<coins, ledger>>

Coin(denom, amount) == [denom |-> denom, amount |-> amount]

\* Coins.IsValid: sorted, one coin per denomination, all positive.
IsValid(cs) ==
    /\ \A i \in DOMAIN cs : cs[i].amount > 0
    /\ \A i \in 2..Len(cs) : cs[i - 1].denom < cs[i].denom

RemoveZeroCoins(cs) == SelectSeq(cs, LAMBDA c : c.amount # 0)

Negative(cs) == [i \in DOMAIN cs |-> Coin(cs[i].denom, -cs[i].amount)]

\* overflow.Add64
InRange(n) == n \in (-MaxInt - 1)..MaxInt

Prepend(c, rest) ==
    IF rest = None THEN None ELSE RemoveZeroCoins(<<c>>) \o rest

\* The merge of two slices, both taken to be sorted.
RECURSIVE AddUnsafe(_, _)
AddUnsafe(a, b) ==
    IF a = <<>> \/ b = <<>> THEN RemoveZeroCoins(a \o b)
    ELSE LET x == Head(a)
             y == Head(b)
         IN  CASE x.denom < y.denom -> Prepend(x, AddUnsafe(Tail(a), b))
               [] x.denom > y.denom -> Prepend(y, AddUnsafe(a, Tail(b)))
               [] OTHER -> IF InRange(x.amount + y.amount)
                           THEN Prepend(Coin(x.denom, x.amount + y.amount),
                                        AddUnsafe(Tail(a), Tail(b)))
                           ELSE None

SubUnsafe(a, b) == AddUnsafe(a, Negative(b))

\* Add panics when the result is not valid.
Add(a, b) ==
    LET sum == AddUnsafe(a, b)
    IN  IF sum = None THEN None ELSE IF IsValid(sum) THEN sum ELSE None

\* A search by halves; the slice is sorted.
RECURSIVE AmountOf(_, _)
AmountOf(cs, denom) ==
    IF cs = <<>> THEN 0
    ELSE LET mid == (Len(cs) \div 2) + 1
         IN  CASE denom < cs[mid].denom -> AmountOf(SubSeq(cs, 1, mid - 1), denom)
               [] denom = cs[mid].denom -> cs[mid].amount
               [] OTHER -> AmountOf(SubSeq(cs, mid + 1, Len(cs)), denom)

DenomsSubsetOf(a, b) ==
    /\ Len(a) <= Len(b)
    /\ \A i \in DOMAIN a : AmountOf(b, a[i].denom) # 0

IsAllGT(a, b) ==
    /\ a # <<>>
    /\ DenomsSubsetOf(b, a)
    /\ \A i \in DOMAIN b : AmountOf(a, b[i].denom) > b[i].amount

IsAllGTE(a, b) ==
    \A i \in DOMAIN b : b[i].amount <= AmountOf(a, b[i].denom)

IsAnyGTE(a, b) ==
    \E i \in DOMAIN a :
        LET amt == AmountOf(b, a[i].denom) IN a[i].amount >= amt /\ amt # 0

-----------------------------------------------------------------------------
(* The bank keeper                                                         *)

Init == coins = <<>> /\ ledger = [d \in Denoms |-> 0]

\* What a slice of coins stands for.
AmountIn(cs, d) == FoldSeq(LAMBDA c, n : IF c.denom = d THEN n + c.amount ELSE n, 0, cs)

Meaningful(amt) ==
    /\ \A c \in ToSet(amt) : c.amount > 0
    /\ \A i, j \in DOMAIN amt : i < j => amt[i].denom < amt[j].denom

\* The ledger changes by amt when every amount stays one the account may own.
Move(amt, sign) ==
    LET moved == [d \in Denoms |-> ledger[d] + sign * AmountIn(amt, d)]
    IN  ledger' = IF Meaningful(amt) /\ \A d \in Denoms : moved[d] \in 0..MaxInt
                  THEN moved ELSE ledger

\* Mutant: the difference is not checked.
SubtractCoins_Unchecked(amt) ==
    /\ coins' = LET newCoins == SubUnsafe(coins, amt)
                IN  IF IsValid(amt) THEN newCoins ELSE coins
    /\ Move(amt, -1)

\* SubtractCoins: invalid or insufficient amounts are refused.
SubtractCoins(amt) ==
    /\ coins' = LET newCoins == SubUnsafe(coins, amt)
                IN  IF ~IsValid(amt) THEN coins
                    ELSE IF newCoins = None THEN coins
                    ELSE IF IsValid(newCoins) THEN newCoins ELSE coins
    /\ Move(amt, -1)

\* AddCoins: an amount that does not fit panics, and the transaction with it.
AddCoins(amt) ==
    /\ coins' = LET newCoins == Add(coins, amt)
                IN  IF ~IsValid(amt) \/ newCoins = None THEN coins ELSE newCoins
    /\ Move(amt, 1)

Next == \E amt \in Amounts : SubtractCoins(amt) \/ AddCoins(amt)

Spec == Init /\ [][Next]_vars

-----------------------------------------------------------------------------
(* Properties                                                              *)

\* The coins of an account are a valid set that owns what integer arithmetic
\* says after any additions and subtractions: none is refused or accepted
\* wrongly, at the limits of the width either (std/coin.go: AddUnsafe,
\* negative, AmountOf; bank/keeper.go).
AccountIsLedger ==
    /\ IsValid(coins)
    /\ \A d \in Denoms : AmountOf(coins, d) = ledger[d]

\* The comparisons of sets are what their comments say of each denomination
\* (std/coin.go: IsAllGT, IsAllGTE, IsAnyGTE, DenomsSubsetOf), and IsAllGTE is
\* when a subtraction succeeds.
Compares ==
    \A b \in Others :
        /\ IsAllGTE(coins, b) <=> \A d \in Denoms : ledger[d] >= AmountIn(b, d)
        /\ IsAllGTE(coins, b) <=> IsValid(SubUnsafe(coins, b))
        /\ IsAllGT(coins, b) <=>
              coins # <<>> /\ \A d \in Denoms : AmountIn(b, d) > 0 => ledger[d] > AmountIn(b, d)
        /\ IsAnyGTE(coins, b) <=>
              \E d \in Denoms : AmountIn(b, d) > 0 /\ ledger[d] >= AmountIn(b, d)
        /\ DenomsSubsetOf(b, coins) <=> \A d \in Denoms : AmountIn(b, d) > 0 => ledger[d] > 0

=============================================================================
