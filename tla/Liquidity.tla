----------------------------- MODULE Liquidity -----------------------------
(***************************************************************************)
(* runtime/liquidity.js: the pool of one pair of tokens, made and used     *)
(* through the DEX, whose callers name the tokens in either order.         *)
(*                                                                         *)
(* Numbers are fractions, without the rounding of floating point.  `paid`, *)
(* `astray` and `even` are kept for the property: what callers paid in of  *)
(* each token less what they got; whether tokens went astray, given in the *)
(* order the pool does not have, to an emptied pool or by nobody; whether  *)
(* liquidity came with no less of token1 than the ratio asks.  Left out:   *)
(* histories, statistics and tracked_tokens, which only they read and no   *)
(* swap changes; set_fee_rate and update_reserves, which replace numbers.  *)
(***************************************************************************)
EXTENDS Integers, Sequences

CONSTANTS
    PoolAmounts,      \* whole amounts given by callers
    InitialReserves,  \* pairs of reserves, their product a square
    fee_rate,         \* a fraction below one
    tolerance,        \* slippage_tolerance, a fraction
    MaxTrades         \* bound on the calls after create_pool

ASSUME LiquidityAssumption ==
    /\ PoolAmounts \subseteq Nat \ {0} /\ MaxTrades \in Nat
    /\ InitialReserves \subseteq (Nat \ {0}) \X (Nat \ {0})
    /\ \A r \in InitialReserves : \E m \in 0 .. r[1] * r[2] : m * m = r[1] * r[2]
    /\ fee_rate \in Nat \X (Nat \ {0}) /\ fee_rate[1] < fee_rate[2]
    /\ tolerance \in Nat \X (Nat \ {0})

Tokens2 == {0, 1}   \* token0 and token1 of the pool

VARIABLES
    pool,      \* made or not
    reserve,   \* of each token
    shares,    \* total_supply
    constant_product,
    paid, astray, even,
    trades     \* number of calls so far

liquidityVars == <<pool, reserve, shares, constant_product, paid, astray, even, trades>>

-----------------------------------------------------------------------------
(* Fractions *)

Gcd[mn \in Nat \X Nat] == IF mn[2] = 0 THEN mn[1] ELSE Gcd[<<mn[2], mn[1] % mn[2]>>]
Abs(n) == IF n < 0 THEN -n ELSE n
Fraction(n, d) == LET g == Gcd[<<Abs(n), d>>] IN <<n \div g, d \div g>>
Whole(n) == <<n, 1>>
Plus(a, b) ==
    LET g == Gcd[<<a[2], b[2]>>]
    IN  Fraction(a[1] * (b[2] \div g) + b[1] * (a[2] \div g), a[2] * (b[2] \div g))
Minus(a, b) == Plus(a, <<-b[1], b[2]>>)
Times(a, b) ==
    LET p == Fraction(a[1], b[2])
        q == Fraction(b[1], a[2])
    IN  <<p[1] * q[1], p[2] * q[2]>>
Over(a, b) == Times(a, <<b[2], b[1]>>)   \* b above zero
AtMost(a, b) == Minus(b, a)[1] >= 0
Root(n) == CHOOSE m \in 0 .. n : m * m = n

-----------------------------------------------------------------------------
(* Pool and DEX *)

LiquidityInit ==
    /\ pool = FALSE /\ reserve = [t \in Tokens2 |-> Whole(0)] /\ shares = Whole(0)
    /\ constant_product = Whole(0) /\ paid = reserve /\ astray = FALSE /\ even = TRUE
    /\ trades = 0

create_pool(r0, r1) ==
    /\ ~pool /\ pool' = TRUE
    /\ reserve' = [t \in Tokens2 |-> Whole(IF t = 0 THEN r0 ELSE r1)]
    /\ shares' = Whole(Root(r0 * r1)) /\ constant_product' = Whole(r0 * r1)
    /\ paid' = reserve' /\ UNCHANGED <<astray, even, trades>>

Trade == pool /\ trades < MaxTrades /\ trades' = trades + 1 /\ UNCHANGED pool
Multiplied == constant_product' = Times(reserve'[0], reserve'[1])

\* The first liquidity sets the ratio, any later amount of token1 must be near the
\* pool's ratio.
LiquidityPool_add_liquidity(amount) ==
    LET expected == Over(Times(amount[0], reserve[1]), reserve[0])
        off == Minus(amount[1], expected)
        square == Times(amount[0], amount[1])[1]
    IN
    \/ /\ shares = Whole(0) /\ \E m \in 1 .. square : m * m = square
       /\ reserve' = amount /\ shares' = Whole(Root(square)) /\ even' = TRUE
    \/ /\ shares # Whole(0)
       /\ AtMost(<<Abs(off[1]), off[2]>>, Times(tolerance, expected))
       /\ reserve' = [t \in Tokens2 |-> Plus(reserve[t], amount[t])]
       /\ shares' = Plus(shares, Times(Over(amount[0], reserve[0]), shares))
       /\ even' = (even /\ off[1] >= 0)

\* The amounts are given in the order of the caller's tokens and taken in the
\* order of the pool's.
DEX_add_liquidity(n0, n1, swapped) ==
    LET amount == [t \in Tokens2 |-> Whole(IF t = 0 THEN n0 ELSE n1)] IN
    /\ Trade /\ LiquidityPool_add_liquidity(amount) /\ Multiplied
    /\ paid' = [t \in Tokens2 |-> Plus(paid[t], amount[IF swapped THEN 1 - t ELSE t])]
    /\ astray' = (astray \/ swapped)

\* A part of each reserve, as large as that of the shares.
LiquidityPool_remove_liquidity(part) ==
    /\ shares # Whole(0)
    /\ reserve' = [t \in Tokens2 |-> Minus(reserve[t], Times(part, reserve[t]))]
    /\ shares' = Minus(shares, Times(part, shares))

\* Whole or half of what there is.
DEX_remove_liquidity(part) ==
    /\ Trade /\ LiquidityPool_remove_liquidity(part) /\ Multiplied
    /\ paid' = [t \in Tokens2 |-> Minus(paid[t], Times(part, reserve[t]))]
    /\ UNCHANGED <<astray, even>>

\* Mutant: the reserve that grows is not counted.
AmountOut_Flat(r, t, n) == Over(Times(r[1 - t], n), r[t])

AmountOut(r, t, n) ==
    LET with_fee == Times(n, Minus(Whole(1), fee_rate))
    IN  Over(Times(r[1 - t], with_fee), Plus(r[t], with_fee))

Swapped(r, t, n) ==
    [u \in Tokens2 |-> IF u = t THEN Plus(r[t], n) ELSE Minus(r[u], AmountOut(r, t, n))]

\* Into a pool that was emptied as well, for nothing.
DEX_swap(t, n) ==
    /\ Trade /\ reserve' = Swapped(reserve, t, Whole(n))
    /\ paid' = [u \in Tokens2 |-> IF u = t THEN Plus(paid[u], Whole(n))
                                 ELSE Minus(paid[u], AmountOut(reserve, t, Whole(n)))]
    /\ astray' = (astray \/ shares = Whole(0))
    /\ Multiplied /\ UNCHANGED <<shares, even>>

\* A question that swaps there and back, with nobody's tokens; it fails in between
\* where the way back would take nothing.  (~astray is a bound.)
calculate_slippage(t, n) ==
    LET there == Swapped(reserve, t, Whole(n))
        out == AmountOut(reserve, t, Whole(n))
    IN
    /\ Trade /\ ~astray
    /\ reserve' = IF out = Whole(0) THEN there ELSE Swapped(there, 1 - t, out)
    /\ Multiplied /\ astray' = TRUE /\ UNCHANGED <<shares, paid, even>>

LiquidityNext ==
    \/ \E r \in InitialReserves : create_pool(r[1], r[2])
    \/ \E n0, n1 \in PoolAmounts, swapped \in BOOLEAN : DEX_add_liquidity(n0, n1, swapped)
    \/ \E part \in {<<1, 1>>, <<1, 2>>} : DEX_remove_liquidity(part)
    \/ \E t \in Tokens2, n \in PoolAmounts : DEX_swap(t, n) \/ calculate_slippage(t, n)

LiquiditySpec == LiquidityInit /\ [][LiquidityNext]_liquidityVars

-----------------------------------------------------------------------------
(* Properties *)

\* The pool has what was paid in, token by token, as long as nobody names the tokens
\* in the other order, swaps with an emptied pool or asks for the slippage; a share
\* is worth what it was at least, through swaps and fees, as long as nobody adds
\* less of token1 than the ratio asks, within the tolerance (LiquidityPool, DEX).
PoolKeepsWorth ==
    /\ \A t \in Tokens2 : reserve[t][1] >= 0
    /\ ~astray => reserve = paid
    /\ even => AtMost(Times(shares, shares), constant_product)
=============================================================================
