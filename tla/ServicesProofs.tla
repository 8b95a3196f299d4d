--------------------------- MODULE ServicesProofs ---------------------------
(***************************************************************************)
(* What holds of the services for every set of users, assets, amounts and  *)
(* bounds.                                                                 *)
(***************************************************************************)
EXTENDS MCServices, Induction, TLAPS

-----------------------------------------------------------------------------
(* Lending *)

\* What everybody has of an asset.
LendingInv ==
    /\ total_supply \in [Assets -> Int] /\ total_borrowed \in [Assets -> Int]
    /\ reserves \in [Assets -> Int] /\ liquidated \in [Assets -> Int]
    /\ deposits \in [Borrowers -> [Assets -> Int]]
    /\ borrows \in [Borrowers -> [Assets -> Int]]
    /\ collateral \in [Borrowers -> [Assets -> Int]]
    /\ pledged \in [Borrowers -> Seq(Assets)]
    /\ \A u \in Borrowers : \A a \in Assets : pledged[u] = <<>> => borrows[u][a] = 0
    /\ LendingBooks /\ DebtIsCovered

\* What a user has in all assets grows by what is added to one.
LEMMA WorthChange ==
    ASSUME NEW f \in [Assets -> Int], NEW c \in Assets, NEW d \in Int,
           NEW h, h[c] = f[c] + d, \A a \in Assets \ {c} : h[a] = f[a]
    PROVE  Worth(f) \in Int /\ Worth(h) = Worth(f) + d
<1>1. IsFiniteSet(Assets) BY LendingAssumption
<1>2. \A a \in Assets : f[a] \in Int OBVIOUS
<1>3. SumFunctionOnSet(f, Assets) \in Int BY <1>1, <1>2, SumType
<1>4. SumFunctionOnSet(h, Assets) = SumFunctionOnSet(f, Assets) + d
  BY <1>1, <1>2, SumChange
<1> QED BY <1>3, <1>4 DEF Worth

\* What all users have of an asset.
Held(f, a) == SumFunction([v \in Borrowers |-> f[v][a]])

\* Holdings after somebody's holding of an asset changed by d, and totals after one of
\* them did.
Changed(f, h, u, c, d) ==
    /\ f \in [Borrowers -> [Assets -> Int]] /\ h \in [Borrowers -> [Assets -> Int]]
    /\ u \in Borrowers /\ c \in Assets /\ d \in Int
    /\ \A v \in Borrowers : \A a \in Assets :
          h[v][a] = f[v][a] + IF v = u /\ a = c THEN d ELSE 0
Booked(t, s, c, d) ==
    /\ s \in [Assets -> Int]
    /\ \A a \in Assets : s[a] = t[a] + IF a = c THEN d ELSE 0

LEMMA ChangedBy ==
    ASSUME NEW f \in [Borrowers -> [Assets -> Int]], NEW u \in Borrowers, NEW c \in Assets,
           NEW d \in Int, NEW h
    PROVE  /\ h = [f EXCEPT ![u][c] = @ + d] => Changed(f, h, u, c, d)
           /\ h = [f EXCEPT ![u][c] = @ - d] => Changed(f, h, u, c, -d)
BY DEF Changed

LEMMA BookedBy ==
    ASSUME NEW t \in [Assets -> Int], NEW c \in Assets, NEW d \in Int, NEW s
    PROVE  /\ s = [t EXCEPT ![c] = @ + d] => Booked(t, s, c, d)
           /\ s = [t EXCEPT ![c] = @ - d] => Booked(t, s, c, -d)
BY DEF Booked

\* The totals are those of the holdings, and a change of a user's worth.
TotalsOf(t, f) == \A a \in Assets : t[a] = Held(f, a)
WorthOf(f, h, u, d) ==
    \A v \in Borrowers :
        /\ Worth(f[v]) \in Int /\ Worth(h[v]) \in Int
        /\ Worth(h[v]) = Worth(f[v]) + IF v = u THEN d ELSE 0

\* What all have of an asset grows by what one adds.
LEMMA HeldChange ==
    ASSUME NEW f, NEW h, NEW u, NEW c, NEW d, Changed(f, h, u, c, d), NEW a \in Assets
    PROVE  /\ Held(f, a) \in Int
           /\ Held(h, a) = Held(f, a) + IF a = c THEN d ELSE 0
<1> DEFINE F == [v \in Borrowers |-> f[v][a]]
           H == [v \in Borrowers |-> h[v][a]]
           e == IF a = c THEN d ELSE 0
<1>1. IsFiniteSet(Borrowers) BY LendingAssumption
<1>2. /\ \A v \in Borrowers : F[v] \in Int
      /\ u \in Borrowers /\ H[u] = F[u] + e /\ e \in Int /\ \A v \in Borrowers \ {u} : H[v] = F[v]
  BY DEF Changed
<1>3. DOMAIN F = Borrowers /\ DOMAIN H = Borrowers OBVIOUS
<1> HIDE DEF F, H, e
<1>4. SumFunctionOnSet(F, Borrowers) \in Int BY <1>1, <1>2, SumType
<1>5. SumFunctionOnSet(H, Borrowers) = SumFunctionOnSet(F, Borrowers) + e
  BY <1>1, <1>2, SumChange
<1>6. SumFunction(F) \in Int /\ SumFunction(H) = SumFunction(F) + e
  BY <1>3, <1>4, <1>5 DEF SumFunction
<1> QED BY <1>6 DEF F, H, e, Held

\* Totals stay those of the holdings when both change alike.
LEMMA ChangedTotals ==
    ASSUME NEW f, NEW h, NEW u, NEW c, NEW d, Changed(f, h, u, c, d),
           NEW t, NEW s, Booked(t, s, c, d), TotalsOf(t, f)
    PROVE  TotalsOf(s, h)
<1> SUFFICES ASSUME NEW a \in Assets PROVE s[a] = Held(h, a) BY DEF TotalsOf
<1>1. Held(h, a) = Held(f, a) + IF a = c THEN d ELSE 0 BY HeldChange
<1>2. s[a] = t[a] + IF a = c THEN d ELSE 0 BY DEF Booked
<1>3. t[a] = Held(f, a) BY DEF TotalsOf
<1> QED BY <1>1, <1>2, <1>3

\* A change of a holding is one of its user's worth, and of nobody else's.
LEMMA ChangedWorth ==
    ASSUME NEW f, NEW h, NEW u, NEW c, NEW d, Changed(f, h, u, c, d)
    PROVE  WorthOf(f, h, u, d)
<1> SUFFICES ASSUME NEW v \in Borrowers
             PROVE  /\ Worth(f[v]) \in Int /\ Worth(h[v]) \in Int
                    /\ Worth(h[v]) = Worth(f[v]) + IF v = u THEN d ELSE 0
  BY DEF WorthOf
<1> DEFINE e == IF v = u THEN d ELSE 0
           F == f[v]
           H == h[v]
<1>1. /\ F \in [Assets -> Int] /\ e \in Int /\ c \in Assets /\ H[c] = F[c] + e
      /\ \A a \in Assets \ {c} : H[a] = F[a]
  BY DEF Changed
<1> HIDE DEF e, F, H
<1>2. Worth(F) \in Int /\ Worth(H) = Worth(F) + e BY <1>1, WorthChange
<1>3. Worth(H) \in Int BY <1>1, <1>2
<1> QED BY <1>2, <1>3 DEF F, H, e

LEMMA LendingInitial ==
    ASSUME LendingInit PROVE LendingInv
<1>1. \A u \in Borrowers : \A a \in Assets :
         deposits[u][a] = 0 /\ borrows[u][a] = 0 /\ collateral[u][a] = 0
  BY DEF LendingInit
<1>2. IsFiniteSet(Borrowers) /\ IsFiniteSet(Assets) BY LendingAssumption
<1>3. ASSUME NEW a \in Assets
      PROVE  /\ SumFunction([u \in Borrowers |-> deposits[u][a]]) = 0
             /\ SumFunction([u \in Borrowers |-> borrows[u][a]]) = 0
  <2> DEFINE D == [u \in Borrowers |-> deposits[u][a]]
             B == [u \in Borrowers |-> borrows[u][a]]
  <2>1. /\ DOMAIN D = Borrowers /\ DOMAIN B = Borrowers
        /\ \A u \in Borrowers : D[u] = 0 /\ B[u] = 0
    BY <1>1
  <2> HIDE DEF D, B
  <2>2. SumFunction(D) = 0 /\ SumFunction(B) = 0 BY <1>2, <2>1, SumZero DEF SumFunction
  <2> QED BY <2>2 DEF D, B
<1>4. \A u \in Borrowers : Worth(collateral[u]) = 0 /\ Worth(borrows[u]) = 0
  BY <1>1, <1>2, SumZero DEF Worth
<1>5. /\ total_supply = [a \in Assets |-> 0] /\ total_borrowed = [a \in Assets |-> 0]
      /\ reserves = [a \in Assets |-> 0] /\ liquidated = [a \in Assets |-> 0]
  BY DEF LendingInit
<1>6. LendingBooks BY <1>3, <1>5 DEF LendingBooks
<1>7. DebtIsCovered BY <1>4 DEF DebtIsCovered
<1>8. pledged \in [Borrowers -> Seq(Assets)] BY DEF LendingInit
<1>9. /\ deposits \in [Borrowers -> [Assets -> Int]]
      /\ borrows \in [Borrowers -> [Assets -> Int]]
      /\ collateral \in [Borrowers -> [Assets -> Int]]
  BY DEF LendingInit
<1> QED BY <1>1, <1>5, <1>6, <1>7, <1>8, <1>9 DEF LendingInv

LEMMA LendingStep ==
    ASSUME LendingInv, [LendingNext]_lendingVars PROVE LendingInv'
<1>0. /\ total_supply \in [Assets -> Int] /\ total_borrowed \in [Assets -> Int]
      /\ reserves \in [Assets -> Int] /\ liquidated \in [Assets -> Int]
      /\ deposits \in [Borrowers -> [Assets -> Int]]
      /\ borrows \in [Borrowers -> [Assets -> Int]]
      /\ collateral \in [Borrowers -> [Assets -> Int]]
      /\ pledged \in [Borrowers -> Seq(Assets)]
      /\ \A u \in Borrowers : \A a \in Assets : pledged[u] = <<>> => borrows[u][a] = 0
      /\ LendingBooks /\ DebtIsCovered
  BY DEF LendingInv
<1>a. /\ TotalsOf(total_supply, deposits) /\ TotalsOf(total_borrowed, borrows)
      /\ \A a \in Assets : reserves[a] = total_supply[a] - total_borrowed[a] - liquidated[a]
  BY <1>0 DEF LendingBooks, Held, TotalsOf
<1>c. \A a \in Assets : total_supply[a] \in Int /\ total_borrowed[a] \in Int
                         /\ reserves[a] \in Int /\ liquidated[a] \in Int
  BY <1>0
<1>b. \A n \in Amounts : n \in Nat /\ n \in Int /\ -n \in Int BY LendingAssumption
<1>d. \A v \in Borrowers : Worth(collateral[v]) \in Int
  BY <1>0, LendingAssumption, SumType DEF Worth
<1>e. ASSUME NEW u \in Borrowers, NEW a \in Assets, NEW n \in Amounts,
             borrows[u][a] >= n, Changed(borrows, borrows', u, a, -n),
             NEW v \in Borrowers, NEW b \in Assets, pledged[v] = <<>>
      PROVE  borrows'[v][b] = 0
  <2>1. borrows[v][b] = 0 BY <1>0, <1>e
  <2>2. borrows'[v][b] = borrows[v][b] + IF v = u /\ b = a THEN -n ELSE 0 BY <1>e DEF Changed
  <2> QED BY <1>b, <1>e, <2>1, <2>2
<1>1. ASSUME NEW a \in Assets, create_market(a) PROVE LendingInv'
  <2>1. UNCHANGED <<total_supply, total_borrowed, reserves, deposits, borrows, collateral,
                    pledged, liquidated, refused>>
    BY <1>1 DEF create_market
  <2> QED BY <2>1 DEF LendingInv, LendingBooks, DebtIsCovered, Worth
<1>2. ASSUME NEW u \in Borrowers, NEW a \in Assets, NEW n \in Amounts, add_liquidity(u, a, n)
      PROVE  LendingInv'
  <2>1. /\ total_supply' = [total_supply EXCEPT ![a] = @ + n]
        /\ reserves' = [reserves EXCEPT ![a] = @ + n]
        /\ deposits' = [deposits EXCEPT ![u][a] = @ + n]
        /\ UNCHANGED <<total_borrowed, borrows, collateral, pledged, liquidated, refused>>
    BY <1>2 DEF add_liquidity
  <2>2. Changed(deposits, deposits', u, a, n) BY <1>0, <1>b, <2>1, ChangedBy
  <2>3. Booked(total_supply, total_supply', a, n) /\ Booked(reserves, reserves', a, n)
    BY <1>0, <1>b, <2>1, BookedBy
  <2>4. TotalsOf(total_supply', deposits')
    BY <1>a, <2>2, <2>3, ChangedTotals
  <2>5. ASSUME NEW b \in Assets
        PROVE  reserves'[b] = total_supply'[b] - total_borrowed[b] - liquidated[b]
    <3>1. /\ reserves'[b] = reserves[b] + IF b = a THEN n ELSE 0
          /\ total_supply'[b] = total_supply[b] + IF b = a THEN n ELSE 0
      BY <2>3 DEF Booked
    <3>2. reserves[b] = total_supply[b] - total_borrowed[b] - liquidated[b] BY <1>a
    <3>3. n \in Int /\ total_borrowed[b] \in Int /\ reserves[b] \in Int
      BY <1>b, <1>c
    <3>4. total_supply[b] \in Int /\ liquidated[b] \in Int BY <1>c
    <3> QED BY ONLY <3>1, <3>2, <3>3, <3>4
  <2>6. LendingBooks'
    <3>1. TotalsOf(total_supply', deposits') /\ TotalsOf(total_borrowed', borrows')
      BY <1>a, <2>1, <2>4
    <3>2. \A b \in Assets : reserves'[b] = total_supply'[b] - total_borrowed'[b] - liquidated'[b]
      BY <2>1, <2>5
    <3> QED BY <3>1, <3>2 DEF LendingBooks, Held, TotalsOf
  <2>7. DebtIsCovered' BY <1>0, <2>1 DEF DebtIsCovered, Worth
  <2> QED BY <1>0, <2>1, <2>2, <2>3, <2>6, <2>7 DEF LendingInv, Changed, Booked
<1>3. ASSUME NEW u \in Borrowers, NEW a \in Assets, NEW n \in Amounts, remove_liquidity(u, a, n)
      PROVE  LendingInv'
  <2>1. /\ total_supply' = [total_supply EXCEPT ![a] = @ - n]
        /\ reserves' = [reserves EXCEPT ![a] = @ - n]
        /\ deposits' = [deposits EXCEPT ![u][a] = @ - n]
        /\ UNCHANGED <<total_borrowed, borrows, collateral, pledged, liquidated, refused>>
    BY <1>3 DEF remove_liquidity
  <2>2. Changed(deposits, deposits', u, a, -n) BY <1>0, <1>b, <2>1, ChangedBy
  <2>3. Booked(total_supply, total_supply', a, -n) /\ Booked(reserves, reserves', a, -n)
    BY <1>0, <1>b, <2>1, BookedBy
  <2>4. TotalsOf(total_supply', deposits')
    BY <1>a, <2>2, <2>3, ChangedTotals
  <2>5. ASSUME NEW b \in Assets
        PROVE  reserves'[b] = total_supply'[b] - total_borrowed[b] - liquidated[b]
    <3>1. /\ reserves'[b] = reserves[b] + IF b = a THEN -n ELSE 0
          /\ total_supply'[b] = total_supply[b] + IF b = a THEN -n ELSE 0
      BY <2>3 DEF Booked
    <3>2. reserves[b] = total_supply[b] - total_borrowed[b] - liquidated[b] BY <1>a
    <3>3. n \in Int /\ total_borrowed[b] \in Int /\ reserves[b] \in Int
      BY <1>b, <1>c
    <3>4. total_supply[b] \in Int /\ liquidated[b] \in Int BY <1>c
    <3> QED BY ONLY <3>1, <3>2, <3>3, <3>4
  <2>6. LendingBooks'
    <3>1. TotalsOf(total_supply', deposits') /\ TotalsOf(total_borrowed', borrows')
      BY <1>a, <2>1, <2>4
    <3>2. \A b \in Assets : reserves'[b] = total_supply'[b] - total_borrowed'[b] - liquidated'[b]
      BY <2>1, <2>5
    <3> QED BY <3>1, <3>2 DEF LendingBooks, Held, TotalsOf
  <2>7. DebtIsCovered' BY <1>0, <2>1 DEF DebtIsCovered, Worth
  <2> QED BY <1>0, <2>1, <2>2, <2>3, <2>6, <2>7 DEF LendingInv, Changed, Booked
<1>4. ASSUME NEW u \in Borrowers, NEW a \in Assets, NEW n \in Amounts, NEW c \in Assets,
             NEW m \in Amounts, borrow(u, a, n, c, m)
      PROVE  LendingInv'
  <2>1. /\ total_borrowed' = [total_borrowed EXCEPT ![a] = @ + n]
        /\ reserves' = [reserves EXCEPT ![a] = @ - n]
        /\ borrows' = [borrows EXCEPT ![u][a] = @ + n]
        /\ collateral' = [collateral EXCEPT ![u][c] = @ + m]
        /\ pledged' = [pledged EXCEPT ![u] = IF Contains(@, c) THEN @ ELSE Append(@, c)]
        /\ UNCHANGED <<total_supply, deposits, liquidated, refused>> /\ 2 * m >= 3 * n
    BY <1>4 DEF borrow
  <2>2. Changed(borrows, borrows', u, a, n) BY <1>0, <1>b, <2>1, ChangedBy
  <2>3. Changed(collateral, collateral', u, c, m) BY <1>0, <1>b, <2>1, ChangedBy
  <2>4. Booked(total_borrowed, total_borrowed', a, n) /\ Booked(reserves, reserves', a, -n)
    BY <1>0, <1>b, <2>1, BookedBy
  <2>5. TotalsOf(total_borrowed', borrows')
    BY <1>a, <2>2, <2>4, ChangedTotals
  <2>6. ASSUME NEW b \in Assets
        PROVE  reserves'[b] = total_supply[b] - total_borrowed'[b] - liquidated[b]
    <3>1. /\ reserves'[b] = reserves[b] + IF b = a THEN -n ELSE 0
          /\ total_borrowed'[b] = total_borrowed[b] + IF b = a THEN n ELSE 0
      BY <2>4 DEF Booked
    <3>2. reserves[b] = total_supply[b] - total_borrowed[b] - liquidated[b] BY <1>a
    <3>3. n \in Int /\ total_borrowed[b] \in Int /\ reserves[b] \in Int
      BY <1>b, <1>c
    <3>4. total_supply[b] \in Int /\ liquidated[b] \in Int BY <1>c
    <3> QED BY ONLY <3>1, <3>2, <3>3, <3>4
  <2>7. LendingBooks'
    <3>1. TotalsOf(total_supply', deposits') /\ TotalsOf(total_borrowed', borrows')
      BY <1>a, <2>1, <2>5
    <3>2. \A b \in Assets : reserves'[b] = total_supply'[b] - total_borrowed'[b] - liquidated'[b]
      BY <2>1, <2>6
    <3> QED BY <3>1, <3>2 DEF LendingBooks, Held, TotalsOf
  <2>8. m >= n BY <1>b, <2>1
  <2>9. DebtIsCovered'
    <3> SUFFICES ASSUME NEW v \in Borrowers \ refused
                 PROVE  Worth(collateral'[v]) >= Worth(borrows'[v])
      BY <2>1 DEF DebtIsCovered, Worth
    <3>1. WorthOf(borrows, borrows', u, n) BY <2>2, ChangedWorth
    <3>2. WorthOf(collateral, collateral', u, m) BY <2>3, ChangedWorth
    <3>3. Worth(collateral[v]) >= Worth(borrows[v]) BY <1>0 DEF DebtIsCovered
    <3> QED BY <1>b, <2>8, <3>1, <3>2, <3>3 DEF WorthOf
  <2>10. pledged' \in [Borrowers -> Seq(Assets)]
    <3>1. \A s \in Seq(Assets) : Append(s, c) \in Seq(Assets) OBVIOUS
    <3> QED BY <1>0, <2>1, <3>1
  <2>11. pledged'[u] # <<>>
    <3>1. pledged[u] \in Seq(Assets) /\ pledged'[u] = IF Contains(pledged[u], c) THEN pledged[u]
                                                  ELSE Append(pledged[u], c)
      BY <1>0, <2>1
    <3>2. Append(pledged[u], c) # <<>> BY <3>1
    <3>3. Contains(pledged[u], c) => pledged[u] # <<>> BY DEF Contains
    <3> QED BY <3>1, <3>2, <3>3
  <2>12. ASSUME NEW v \in Borrowers, NEW b \in Assets, pledged'[v] = <<>>
         PROVE  borrows'[v][b] = 0
    <3>1. v # u BY <2>11, <2>12
    <3>2. pledged'[v] = pledged[v] BY <1>0, <2>1, <3>1
    <3>3. borrows'[v] = borrows[v] BY <1>0, <2>1, <3>1
    <3> QED BY <1>0, <2>12, <3>2, <3>3
  <2> QED BY <1>0, <2>1, <2>2, <2>3, <2>4, <2>7, <2>9, <2>10, <2>12
    DEF LendingInv, Changed, Booked
<1>5. ASSUME NEW u \in Borrowers, NEW a \in Assets, NEW n \in Amounts, repay(u, a, n)
      PROVE  LendingInv'
  <2>1. /\ total_borrowed' = [total_borrowed EXCEPT ![a] = @ - n]
        /\ reserves' = [reserves EXCEPT ![a] = @ + n]
        /\ borrows' = [borrows EXCEPT ![u][a] = @ - n]
        /\ UNCHANGED <<total_supply, deposits, collateral, pledged, liquidated, refused>>
        /\ borrows[u][a] >= n
    BY <1>5 DEF repay
  <2>2. Changed(borrows, borrows', u, a, -n) BY <1>0, <1>b, <2>1, ChangedBy
  <2>4. Booked(total_borrowed, total_borrowed', a, -n) /\ Booked(reserves, reserves', a, n)
    BY <1>0, <1>b, <2>1, BookedBy
  <2>5. TotalsOf(total_borrowed', borrows')
    BY <1>a, <2>2, <2>4, ChangedTotals
  <2>6. ASSUME NEW b \in Assets
        PROVE  reserves'[b] = total_supply[b] - total_borrowed'[b] - liquidated[b]
    <3>1. /\ reserves'[b] = reserves[b] + IF b = a THEN n ELSE 0
          /\ total_borrowed'[b] = total_borrowed[b] + IF b = a THEN -n ELSE 0
      BY <2>4 DEF Booked
    <3>2. reserves[b] = total_supply[b] - total_borrowed[b] - liquidated[b] BY <1>a
    <3>3. n \in Int /\ total_borrowed[b] \in Int /\ reserves[b] \in Int
      BY <1>b, <1>c
    <3>4. total_supply[b] \in Int /\ liquidated[b] \in Int BY <1>c
    <3> QED BY ONLY <3>1, <3>2, <3>3, <3>4
  <2>7. LendingBooks'
    <3>1. TotalsOf(total_supply', deposits') /\ TotalsOf(total_borrowed', borrows')
      BY <1>a, <2>1, <2>5
    <3>2. \A b \in Assets : reserves'[b] = total_supply'[b] - total_borrowed'[b] - liquidated'[b]
      BY <2>1, <2>6
    <3> QED BY <3>1, <3>2 DEF LendingBooks, Held, TotalsOf
  <2>9. DebtIsCovered'
    <3> SUFFICES ASSUME NEW v \in Borrowers \ refused
                 PROVE  Worth(collateral[v]) >= Worth(borrows'[v])
      BY <2>1 DEF DebtIsCovered, Worth
    <3>1. WorthOf(borrows, borrows', u, -n) BY <2>2, ChangedWorth
    <3>2. Worth(collateral[v]) \in Int BY <1>0, <1>d
    <3>3. Worth(collateral[v]) >= Worth(borrows[v]) BY <1>0 DEF DebtIsCovered
    <3> QED BY <1>b, <3>1, <3>2, <3>3 DEF WorthOf
  <2>12. \A v \in Borrowers : \A b \in Assets : pledged[v] = <<>> => borrows'[v][b] = 0
    BY <1>0, <1>b, <1>e, <2>1, <2>2
  <2> QED BY <1>0, <2>1, <2>2, <2>4, <2>7, <2>9, <2>12 DEF LendingInv, Changed, Booked
<1>6. ASSUME NEW u \in Borrowers, NEW c \in Assets, NEW n \in Amounts,
             withdraw_collateral(u, c, n)
      PROVE  LendingInv'
  <2>1. /\ collateral' = [collateral EXCEPT ![u][c] = @ - n]
        /\ refused' = IF Sufficient(u) THEN refused ELSE refused \cup {u}
        /\ UNCHANGED <<total_supply, total_borrowed, reserves, deposits, borrows, pledged,
                       liquidated>>
    BY <1>6 DEF withdraw_collateral, marketVars
  <2>2. Changed(collateral, collateral', u, c, -n) BY <1>0, <1>b, <2>1, ChangedBy
  <2>4. ASSUME NEW v \in Borrowers \ refused' PROVE Worth(collateral'[v]) >= Worth(borrows[v])
    <3>1. v \in Borrowers \ refused BY <2>1
    <3>2. CASE v = u BY <2>1, <2>4, <3>2 DEF Sufficient
    <3>3. CASE v # u
      <4>1. Worth(collateral[v]) >= Worth(borrows[v]) BY <1>0, <3>1 DEF DebtIsCovered
      <4>2. collateral'[v] = collateral[v] BY <1>0, <2>1, <3>3
      <4> QED BY <4>1, <4>2
    <3> QED BY <3>2, <3>3
  <2>5. DebtIsCovered' BY <2>1, <2>4 DEF DebtIsCovered, Worth
  <2>6. LendingBooks'
    <3>1. TotalsOf(total_supply', deposits') /\ TotalsOf(total_borrowed', borrows')
      BY <1>a, <2>1
    <3>2. \A b \in Assets : reserves'[b] = total_supply'[b] - total_borrowed'[b] - liquidated'[b]
      BY <1>a, <2>1
    <3> QED BY <3>1, <3>2 DEF LendingBooks, Held, TotalsOf
  <2> QED BY <1>0, <2>1, <2>2, <2>5, <2>6 DEF LendingInv, Changed
<1>7. ASSUME NEW u \in Borrowers, NEW a \in Assets, NEW n \in Amounts, liquidate(u, a, n)
      PROVE  LendingInv'
  <2> DEFINE c == Head(pledged[u])
  <2>1. /\ borrows' = [borrows EXCEPT ![u][a] = @ - n]
        /\ total_borrowed' = [total_borrowed EXCEPT ![a] = @ - n]
        /\ collateral' = [collateral EXCEPT ![u][c] = @ - n]
        /\ liquidated' = [liquidated EXCEPT ![a] = @ + n]
        /\ UNCHANGED <<total_supply, reserves, deposits, pledged, refused>>
        /\ Worth(borrows[u]) > 0 /\ borrows[u][a] >= n
    BY <1>7 DEF liquidate
  <2>2. c \in Assets
    <3>1. IsFiniteSet(Assets) BY LendingAssumption
    <3>2. pledged[u] # <<>>
      <4> SUFFICES ASSUME pledged[u] = <<>> PROVE FALSE OBVIOUS
      <4>1. \A b \in Assets : borrows[u][b] = 0 BY <1>0
      <4>2. Worth(borrows[u]) = 0 BY <3>1, <4>1, SumZero DEF Worth
      <4> QED BY <2>1, <4>2
    <3>3. pledged[u] \in Seq(Assets) BY <1>0
    <3> QED BY <3>2, <3>3
  <2> HIDE DEF c
  <2>3. Changed(borrows, borrows', u, a, -n) BY <1>0, <1>b, <2>1, ChangedBy
  <2>4. Changed(collateral, collateral', u, c, -n)
    <3>1. collateral \in [Borrowers -> [Assets -> Int]] BY <1>0
    <3>2. collateral' = [collateral EXCEPT ![u][c] = @ - n] /\ n \in Int BY <1>b, <2>1
    <3> QED BY <2>2, <3>1, <3>2, ChangedBy
  <2>5. Booked(total_borrowed, total_borrowed', a, -n) /\ Booked(liquidated, liquidated', a, n)
    BY <1>0, <1>b, <2>1, BookedBy
  <2>6. TotalsOf(total_borrowed', borrows')
    BY <1>a, <2>3, <2>5, ChangedTotals
  <2>7. ASSUME NEW b \in Assets
        PROVE  reserves[b] = total_supply[b] - total_borrowed'[b] - liquidated'[b]
    <3>1. /\ liquidated'[b] = liquidated[b] + IF b = a THEN n ELSE 0
          /\ total_borrowed'[b] = total_borrowed[b] + IF b = a THEN -n ELSE 0
      BY <2>5 DEF Booked
    <3>2. reserves[b] = total_supply[b] - total_borrowed[b] - liquidated[b] BY <1>a
    <3>3. n \in Int /\ total_borrowed[b] \in Int /\ reserves[b] \in Int
      BY <1>b, <1>c
    <3>4. total_supply[b] \in Int /\ liquidated[b] \in Int BY <1>c
    <3> QED BY ONLY <3>1, <3>2, <3>3, <3>4
  <2>8. LendingBooks'
    <3>1. TotalsOf(total_supply', deposits') /\ TotalsOf(total_borrowed', borrows')
      BY <1>a, <2>1, <2>6
    <3>2. \A b \in Assets : reserves'[b] = total_supply'[b] - total_borrowed'[b] - liquidated'[b]
      BY <2>1, <2>7
    <3> QED BY <3>1, <3>2 DEF LendingBooks, Held, TotalsOf
  <2>9. DebtIsCovered'
    <3> SUFFICES ASSUME NEW v \in Borrowers \ refused
                 PROVE  Worth(collateral'[v]) >= Worth(borrows'[v])
      BY <2>1 DEF DebtIsCovered, Worth
    <3>1. WorthOf(borrows, borrows', u, -n) BY <2>3, ChangedWorth
    <3>2. WorthOf(collateral, collateral', u, -n) BY <2>4, ChangedWorth
    <3>3. Worth(collateral[v]) >= Worth(borrows[v]) BY <1>0 DEF DebtIsCovered
    <3>4. n \in Int /\ v \in Borrowers /\ Worth(collateral[v]) \in Int
      BY <1>b, <1>d
    <3>5. /\ Worth(borrows'[v]) = Worth(borrows[v]) + IF v = u THEN -n ELSE 0
          /\ Worth(collateral'[v]) = Worth(collateral[v]) + IF v = u THEN -n ELSE 0
          /\ Worth(borrows[v]) \in Int
      BY <3>1, <3>2, <3>4 DEF WorthOf
    <3> QED BY ONLY <3>3, <3>4, <3>5
  <2>10. \A v \in Borrowers : \A b \in Assets : pledged[v] = <<>> => borrows'[v][b] = 0
    BY <1>0, <1>b, <1>e, <2>1, <2>3
  <2>11. /\ borrows' \in [Borrowers -> [Assets -> Int]]
         /\ collateral' \in [Borrowers -> [Assets -> Int]]
    BY <2>3, <2>4 DEF Changed
  <2>12. total_borrowed' \in [Assets -> Int] /\ liquidated' \in [Assets -> Int]
    BY <2>5 DEF Booked
  <2>13. /\ total_supply' \in [Assets -> Int] /\ reserves' \in [Assets -> Int]
         /\ deposits' \in [Borrowers -> [Assets -> Int]] /\ pledged' \in [Borrowers -> Seq(Assets)]
    BY <1>0, <2>1
  <2>14. \A v \in Borrowers : \A b \in Assets : pledged'[v] = <<>> => borrows'[v][b] = 0
    BY <2>1, <2>10
  <2> QED BY <2>8, <2>9, <2>11, <2>12, <2>13, <2>14 DEF LendingInv
<1>8. ASSUME UNCHANGED lendingVars PROVE LendingInv'
  BY <1>8 DEF lendingVars, marketVars, LendingInv, LendingBooks, DebtIsCovered, Worth
<1> QED BY <1>1, <1>2, <1>3, <1>4, <1>5, <1>6, <1>7, <1>8 DEF LendingNext

-----------------------------------------------------------------------------
(* Wallets of several signers *)

LEMMA WalletMoves ==
    ASSUME [ServicesNext]_allVars PROVE [MultisigNext]_multisigVars
BY DEF ServicesNext, OnlyMoves, allVars

WalletTx == [signatures : SUBSET Keys, confirmed : BOOLEAN, executed : BOOLEAN]

\* Transaction t is at exactly one place of s.
CompletedOnce(s, t) == \E i \in DOMAIN s : s[i] = t /\ \A j \in DOMAIN s : s[j] = t => j = i

\* A transaction is pending, and nowhere among the completed, or executed and there once.
WalletInv ==
    /\ transactions \in Seq(WalletTx)
    /\ pending_transactions \subseteq DOMAIN transactions
    /\ completed_transactions \in Seq(DOMAIN transactions)
    /\ \A t \in pending_transactions :
          /\ ~transactions[t].executed
          /\ \A i \in DOMAIN completed_transactions : completed_transactions[i] # t
    /\ \A t \in DOMAIN transactions \ pending_transactions :
          transactions[t].executed /\ CompletedOnce(completed_transactions, t)

\* A signature changes its transaction only, and not whether it is executed.
SignedOnly(h, t) ==
    /\ h \in Seq(WalletTx) /\ DOMAIN h = DOMAIN transactions
    /\ h[t].executed = transactions[t].executed
    /\ \A s \in DOMAIN transactions \ {t} : h[s] = transactions[s]

LEMMA SignedChanges ==
    ASSUME transactions \in Seq(WalletTx), NEW t \in DOMAIN transactions, NEW S \in SUBSET Keys
    PROVE  SignedOnly(Signed(t, S), t)
<1> DEFINE now == transactions[t].signatures \cup S
           enough == Cardinality(now) >= required
           isConfirmed == transactions[t].confirmed \/ enough
           tx == [transactions[t] EXCEPT !.signatures = now, !.confirmed = isConfirmed]
<1>1. transactions[t] \in WalletTx OBVIOUS
<1>2. now \in SUBSET Keys BY <1>1 DEF WalletTx
<1>3. isConfirmed \in BOOLEAN BY Zenon
<1>4. Signed(t, S) = [transactions EXCEPT ![t] = tx] BY DEF Signed
<1> HIDE DEF now, isConfirmed
<1>5. tx \in WalletTx /\ tx.executed = transactions[t].executed BY <1>1, <1>2, <1>3 DEF WalletTx
<1> HIDE DEF tx
<1>6. \A s \in DOMAIN transactions : Signed(t, S)[s] = IF s = t THEN tx ELSE transactions[s]
  BY <1>4
<1>7. Signed(t, S) \in Seq(WalletTx) /\ DOMAIN Signed(t, S) = DOMAIN transactions BY <1>4, <1>5
<1> QED BY <1>5, <1>6, <1>7 DEF SignedOnly

LEMMA SignedInv ==
    ASSUME WalletInv, NEW t \in pending_transactions, SignedOnly(transactions', t),
           UNCHANGED <<pending_transactions, completed_transactions>>
    PROVE  WalletInv'
BY DEF WalletInv, SignedOnly

LEMMA WalletInitial ==
    ASSUME MultisigInit PROVE WalletInv
BY DEF MultisigInit, WalletInv

LEMMA WalletStep ==
    ASSUME WalletInv, [MultisigNext]_multisigVars PROVE WalletInv'
<1>0. /\ transactions \in Seq(WalletTx)
      /\ pending_transactions \subseteq DOMAIN transactions
      /\ completed_transactions \in Seq(DOMAIN transactions)
      /\ \A t \in pending_transactions :
            /\ ~transactions[t].executed
            /\ \A i \in DOMAIN completed_transactions : completed_transactions[i] # t
      /\ \A t \in DOMAIN transactions \ pending_transactions :
            transactions[t].executed /\ CompletedOnce(completed_transactions, t)
  BY DEF WalletInv
<1>1. ASSUME create_transaction PROVE WalletInv'
  <2> DEFINE tx == [signatures |-> {}, confirmed |-> FALSE, executed |-> FALSE]
             n == Len(transactions) + 1
  <2>1. /\ transactions' = Append(transactions, tx)
        /\ pending_transactions' = pending_transactions \cup {n}
        /\ completed_transactions' = completed_transactions
    BY <1>1 DEF create_transaction
  <2>2. tx \in WalletTx /\ ~tx.executed BY DEF WalletTx
  <2> HIDE DEF tx
  <2>3. /\ transactions' \in Seq(WalletTx) /\ DOMAIN transactions' = DOMAIN transactions \cup {n}
        /\ n \notin DOMAIN transactions /\ transactions'[n] = tx
        /\ \A t \in DOMAIN transactions : transactions'[t] = transactions[t]
    BY <1>0, <2>1, <2>2
  <2> HIDE DEF n
  <2>4. completed_transactions' \in Seq(DOMAIN transactions') BY <1>0, <2>1, <2>3
  <2>5. \A i \in DOMAIN completed_transactions : completed_transactions[i] # n BY <1>0, <2>3
  <2> QED BY <1>0, <2>1, <2>2, <2>3, <2>4, <2>5 DEF WalletInv
<1>2. ASSUME NEW t \in DOMAIN transactions, execute_transaction(t) PROVE WalletInv'
  <2>1. /\ t \in pending_transactions
        /\ transactions' = [transactions EXCEPT ![t].executed = TRUE]
        /\ pending_transactions' = pending_transactions \ {t}
        /\ completed_transactions' = Append(completed_transactions, t)
    BY <1>2 DEF execute_transaction
  <2>2. transactions[t] \in WalletTx BY <1>0
  <2>3. /\ transactions' \in Seq(WalletTx) /\ DOMAIN transactions' = DOMAIN transactions
        /\ transactions'[t].executed
        /\ \A s \in DOMAIN transactions \ {t} : transactions'[s] = transactions[s]
    <3> DEFINE tx == [transactions[t] EXCEPT !.executed = TRUE]
    <3>1. transactions' = [transactions EXCEPT ![t] = tx] BY <2>1
    <3>2. tx \in WalletTx /\ tx.executed BY <2>2 DEF WalletTx
    <3> HIDE DEF tx
    <3> QED BY <1>0, <3>1, <3>2
  <2> DEFINE n == Len(completed_transactions) + 1
  <2>4. /\ completed_transactions' \in Seq(DOMAIN transactions)
        /\ DOMAIN completed_transactions' = DOMAIN completed_transactions \cup {n}
        /\ n \notin DOMAIN completed_transactions /\ completed_transactions'[n] = t
        /\ \A i \in DOMAIN completed_transactions :
              completed_transactions'[i] = completed_transactions[i]
    BY <1>0, <2>1
  <2> HIDE DEF n
  <2>5. CompletedOnce(completed_transactions', t) BY <1>0, <2>1, <2>4 DEF CompletedOnce
  <2>6. ASSUME NEW s \in DOMAIN transactions \ {t}, CompletedOnce(completed_transactions, s)
        PROVE  CompletedOnce(completed_transactions', s)
    BY <2>4, <2>6 DEF CompletedOnce
  <2>7. \A s \in pending_transactions' :
           \A i \in DOMAIN completed_transactions' : completed_transactions'[i] # s
    BY <1>0, <2>1, <2>4
  <2> QED BY <1>0, <2>1, <2>3, <2>4, <2>5, <2>6, <2>7 DEF WalletInv
<1>3. ASSUME NEW t \in DOMAIN transactions, NEW k \in Keys, sign_transaction(t, k)
      PROVE  WalletInv'
  <2>1. /\ t \in pending_transactions /\ transactions' = Signed(t, {k})
        /\ UNCHANGED <<pending_transactions, completed_transactions>>
    BY <1>3 DEF sign_transaction
  <2>2. {k} \in SUBSET Keys OBVIOUS
  <2>3. SignedOnly(transactions', t) BY <1>0, <2>1, <2>2, SignedChanges
  <2> QED BY <2>1, <2>3, SignedInv
<1>4. ASSUME NEW t \in DOMAIN transactions, NEW S \in SUBSET Keys, add_multiple_signatures(t, S)
      PROVE  WalletInv'
  <2>1. /\ t \in pending_transactions /\ transactions' = Signed(t, S \cap public_keys)
        /\ UNCHANGED <<pending_transactions, completed_transactions>>
    BY <1>4 DEF add_multiple_signatures
  <2>2. S \cap public_keys \in SUBSET Keys OBVIOUS
  <2>3. SignedOnly(transactions', t) BY <1>0, <2>1, <2>2, SignedChanges
  <2> QED BY <2>1, <2>3, SignedInv
<1>5. ASSUME UNCHANGED <<transactions, pending_transactions, completed_transactions>>
      PROVE  WalletInv'
  BY <1>5 DEF WalletInv, CompletedOnce
<1>6. ASSUME NEW k \in Keys, add_public_key(k) \/ remove_public_key(k) PROVE WalletInv'
  BY <1>5, <1>6 DEF add_public_key, remove_public_key
<1>7. ASSUME NEW n \in 1 .. Cardinality(Keys), set_required_signatures(n) PROVE WalletInv'
  BY <1>5, <1>7 DEF set_required_signatures
<1>8. ASSUME UNCHANGED multisigVars PROVE WalletInv'
  BY <1>5, <1>8 DEF multisigVars
<1> QED BY <1>1, <1>2, <1>3, <1>4, <1>6, <1>7, <1>8 DEF MultisigNext

\* Who is executed leaves the pending with enough signers; who is not pending is past
\* all changes.
WalletStepKeeps ==
    \A t \in DOMAIN transactions :
        /\ t \in pending_transactions \ pending_transactions' =>
              /\ Cardinality(transactions[t].signatures) >= required
              /\ completed_transactions' = Append(completed_transactions, t)
        /\ t \notin pending_transactions =>
              /\ t \in DOMAIN transactions' /\ t \notin pending_transactions'
              /\ transactions'[t] = transactions[t]

LEMMA WalletKeeps ==
    ASSUME WalletInv, [MultisigNext]_multisigVars PROVE WalletStepKeeps
<1>0. transactions \in Seq(WalletTx) /\ pending_transactions \subseteq DOMAIN transactions
  BY DEF WalletInv
<1>1. ASSUME create_transaction PROVE WalletStepKeeps
  <2>1. /\ transactions' = Append(transactions,
               [signatures |-> {}, confirmed |-> FALSE, executed |-> FALSE])
        /\ pending_transactions' = pending_transactions \cup {Len(transactions) + 1}
    BY <1>1 DEF create_transaction
  <2>2. \A t \in DOMAIN transactions : transactions'[t] = transactions[t] BY <1>0, <2>1
  <2>3. Len(transactions) + 1 \notin DOMAIN transactions BY <1>0
  <2> QED BY <2>1, <2>2, <2>3 DEF WalletStepKeeps
<1>2. ASSUME NEW t \in DOMAIN transactions, execute_transaction(t) PROVE WalletStepKeeps
  BY <1>0, <1>2 DEF execute_transaction, is_transaction_confirmed, WalletStepKeeps
<1>3. ASSUME NEW t \in pending_transactions, SignedOnly(transactions', t),
             pending_transactions' = pending_transactions
      PROVE  WalletStepKeeps
  BY <1>3 DEF WalletStepKeeps, SignedOnly
<1>4. ASSUME NEW t \in DOMAIN transactions, NEW k \in Keys, sign_transaction(t, k)
      PROVE  WalletStepKeeps
  <2>1. {k} \in SUBSET Keys OBVIOUS
  <2>2. /\ t \in pending_transactions /\ transactions' = Signed(t, {k})
        /\ pending_transactions' = pending_transactions
    BY <1>4 DEF sign_transaction
  <2>3. SignedOnly(transactions', t) BY <1>0, <2>1, <2>2, SignedChanges
  <2> QED BY <1>3, <2>2, <2>3
<1>5. ASSUME NEW t \in DOMAIN transactions, NEW S \in SUBSET Keys, add_multiple_signatures(t, S)
      PROVE  WalletStepKeeps
  <2>1. S \cap public_keys \in SUBSET Keys OBVIOUS
  <2>2. /\ t \in pending_transactions /\ transactions' = Signed(t, S \cap public_keys)
        /\ pending_transactions' = pending_transactions
    BY <1>5 DEF add_multiple_signatures
  <2>3. SignedOnly(transactions', t) BY <1>0, <2>1, <2>2, SignedChanges
  <2> QED BY <1>3, <2>2, <2>3
<1>6. ASSUME UNCHANGED <<transactions, pending_transactions>> PROVE WalletStepKeeps
  BY <1>6 DEF WalletStepKeeps
<1>7. ASSUME NEW k \in Keys, add_public_key(k) \/ remove_public_key(k) PROVE WalletStepKeeps
  BY <1>6, <1>7 DEF add_public_key, remove_public_key
<1>8. ASSUME NEW n \in 1 .. Cardinality(Keys), set_required_signatures(n) PROVE WalletStepKeeps
  BY <1>6, <1>8 DEF set_required_signatures
<1>9. ASSUME UNCHANGED multisigVars PROVE WalletStepKeeps
  BY <1>6, <1>9 DEF multisigVars
<1> QED BY <1>1, <1>2, <1>4, <1>5, <1>7, <1>8, <1>9 DEF MultisigNext

\* What is completed once is there at one place.
LEMMA CompletedCount ==
    ASSUME NEW s, NEW t, CompletedOnce(s, t)
    PROVE  Cardinality({i \in DOMAIN s : s[i] = t}) = 1
<1>1. PICK i \in DOMAIN s : s[i] = t /\ \A j \in DOMAIN s : s[j] = t => j = i
  BY DEF CompletedOnce
<1>2. {j \in DOMAIN s : s[j] = t} = {i} BY <1>1
<1> QED BY <1>2, FS_Singleton

\* A wallet executes with as many different signers as are required at that moment,
\* whatever keys came, went and signed before, and executes nothing twice
\* (sign_transaction, set_required_signatures, execute_transaction).
THEOREM SignersExecute == ServicesSpec => ExecutedBySigners
<1> DEFINE StepKeeps ==
        \A t \in DOMAIN transactions :
            /\ t \in pending_transactions \ pending_transactions' =>
                  /\ Cardinality(transactions[t].signatures) >= required
                  /\ completed_transactions' = Append(completed_transactions, t)
            /\ t \notin pending_transactions =>
                  /\ transactions'[t] = transactions[t] /\ transactions[t].executed
                  /\ Cardinality({i \in DOMAIN completed_transactions' :
                                     completed_transactions'[i] = t}) = 1
<1>1. ServicesInit => WalletInv BY WalletInitial DEF ServicesInit
<1>2. WalletInv /\ [ServicesNext]_allVars => WalletInv' BY WalletMoves, WalletStep
<1>3. WalletInv /\ WalletInv' /\ [ServicesNext]_allVars => StepKeeps
  <2> SUFFICES ASSUME WalletInv, WalletInv', [ServicesNext]_allVars, NEW t \in DOMAIN transactions
               PROVE  /\ t \in pending_transactions \ pending_transactions' =>
                            /\ Cardinality(transactions[t].signatures) >= required
                            /\ completed_transactions' = Append(completed_transactions, t)
                      /\ t \notin pending_transactions =>
                            /\ transactions'[t] = transactions[t] /\ transactions[t].executed
                            /\ Cardinality({i \in DOMAIN completed_transactions' :
                                               completed_transactions'[i] = t}) = 1
    OBVIOUS
  <2>1. WalletStepKeeps BY WalletMoves, WalletKeeps
  <2>2. ASSUME t \notin pending_transactions
        PROVE  CompletedOnce(completed_transactions', t)
    <3>2. t \notin pending_transactions' BY <2>1, <2>2 DEF WalletStepKeeps
    <3>3. t \in DOMAIN transactions' BY <2>1, <2>2 DEF WalletStepKeeps
    <3> QED BY <3>2, <3>3 DEF WalletInv
  <2> QED BY <2>1, <2>2, CompletedCount DEF WalletStepKeeps, WalletInv
<1> QED BY <1>1, <1>2, <1>3, PTL DEF ServicesSpec, ExecutedBySigners

-----------------------------------------------------------------------------
(* Power and votes *)

LEMMA GovernanceMoves ==
    ASSUME [ServicesNext]_allVars
    PROVE  [DaoNext]_daoVars /\ [VotingNext]_systemVars /\ [ManagerNext]_managerVars
BY DEF ServicesNext, OnlyMoves, allVars

\* Tokens and power are numbers.
DaoInv ==
    /\ tokens \in [DaoAddresses -> Int] /\ voting_power \in [DaoAddresses -> Int]
    /\ total_voting_power \in Int /\ gone \in Int
    /\ PowerAddsUp

LEMMA DaoInitial ==
    ASSUME DaoInit PROVE DaoInv
<1>1. /\ \A a \in DaoAddresses : tokens[a] = 0 /\ voting_power[a] = 0
      /\ tokens \in [DaoAddresses -> Int] /\ voting_power \in [DaoAddresses -> Int]
      /\ total_voting_power = 0 /\ gone = 0
  BY DEF DaoInit
<1>2. SumFunctionOnSet(tokens, DaoAddresses) = 0 /\ SumFunctionOnSet(voting_power, DaoAddresses) = 0
  BY <1>1, SumZero, DaoAssumption
<1> QED BY <1>1, <1>2 DEF DaoInv, PowerAddsUp

LEMMA DaoStep ==
    ASSUME DaoInv, [DaoNext]_daoVars PROVE DaoInv'
<1>0. /\ tokens \in [DaoAddresses -> Int] /\ voting_power \in [DaoAddresses -> Int]
      /\ total_voting_power \in Int /\ gone \in Int
      /\ total_voting_power = SumFunctionOnSet(tokens, DaoAddresses)
      /\ total_voting_power = gone + SumFunctionOnSet(voting_power, DaoAddresses)
      /\ \A a \in DaoAddresses : tokens[a] >= 0
  BY DEF DaoInv, PowerAddsUp
<1>a. IsFiniteSet(DaoAddresses) /\ \A n \in TokenAmounts \cup {0} : n \in Nat /\ n \in Int
  BY DaoAssumption
<1>b. ASSUME NEW n \in Int, NEW k \in Int, Grown(tokens, tokens', DaoAddresses, n),
             Grown(voting_power, voting_power', DaoAddresses, k),
             total_voting_power' = total_voting_power + n, gone' = gone + n - k,
             \A b \in DaoAddresses : tokens'[b] >= 0
      PROVE  DaoInv'
  <2>1. /\ tokens' \in [DaoAddresses -> Int] /\ voting_power' \in [DaoAddresses -> Int]
        /\ SumFunctionOnSet(tokens', DaoAddresses) = SumFunctionOnSet(tokens, DaoAddresses) + n
        /\ SumFunctionOnSet(voting_power, DaoAddresses) \in Int
        /\ SumFunctionOnSet(voting_power', DaoAddresses)
              = SumFunctionOnSet(voting_power, DaoAddresses) + k
    BY <1>b DEF Grown
  <2>2. /\ total_voting_power \in Int /\ gone \in Int
        /\ total_voting_power' = total_voting_power + n /\ gone' = gone + n - k
    BY <1>0, <1>b
  <2>3. total_voting_power' \in Int /\ gone' \in Int BY <2>2
  <2>4. total_voting_power' = SumFunctionOnSet(tokens', DaoAddresses) BY <1>0, <2>1, <2>2
  <2>5. total_voting_power' = gone' + SumFunctionOnSet(voting_power', DaoAddresses)
    <3>1. total_voting_power = gone + SumFunctionOnSet(voting_power, DaoAddresses) BY <1>0
    <3> QED BY <2>1, <2>2, <3>1
  <2> QED BY <1>b, <2>1, <2>3, <2>4, <2>5 DEF DaoInv, PowerAddsUp
<1>1. ASSUME NEW a \in DaoAddresses, NEW n \in TokenAmounts \cup {0}, add_member(a, n)
      PROVE  DaoInv'
  <2>1. /\ tokens' = [tokens EXCEPT ![a] = @ + n]
        /\ voting_power' = [voting_power EXCEPT ![a] = @ + n]
        /\ total_voting_power' = total_voting_power + n /\ gone' = gone
    BY <1>1 DEF add_member
  <2>2. /\ Grown(tokens, tokens', DaoAddresses, n)
        /\ Grown(voting_power, voting_power', DaoAddresses, n)
    BY <1>0, <1>a, <2>1, SumAdd
  <2>3. n \in Int /\ gone' = gone + n - n BY <1>0, <1>a, <2>1
  <2>4. \A b \in DaoAddresses : tokens'[b] >= 0 BY <1>0, <1>a, <2>1
  <2> QED BY <1>b, <2>1, <2>2, <2>3, <2>4
<1>2. ASSUME NEW a \in DaoAddresses, remove_member(a) PROVE DaoInv'
  <2>1. /\ tokens' = [tokens EXCEPT ![a] = 0]
        /\ voting_power' = [voting_power EXCEPT ![a] = 0]
        /\ total_voting_power' = total_voting_power - tokens[a]
        /\ gone' = gone + voting_power[a] - tokens[a]
    BY <1>2 DEF remove_member
  <2>2. /\ Grown(tokens, tokens', DaoAddresses, 0 - tokens[a])
        /\ Grown(voting_power, voting_power', DaoAddresses, 0 - voting_power[a])
    BY <1>0, <1>a, <2>1, SumUpdate
  <2>3. tokens[a] \in Int /\ voting_power[a] \in Int BY <1>0
  <2>4. \A b \in DaoAddresses : tokens'[b] >= 0 BY <1>0, <2>1
  <2> DEFINE n == 0 - tokens[a]
             k == 0 - voting_power[a]
  <2>5. /\ n \in Int /\ k \in Int /\ total_voting_power' = total_voting_power + n
        /\ gone' = gone + n - k
    BY <1>0, <2>1, <2>3
  <2>6. Grown(tokens, tokens', DaoAddresses, n) /\ Grown(voting_power, voting_power', DaoAddresses, k)
    BY <2>2
  <2> HIDE DEF n, k
  <2> QED BY <1>b, <2>4, <2>5, <2>6
<1>3. ASSUME NEW a \in DaoAddresses, NEW b \in DaoAddresses, NEW n \in TokenAmounts,
             transfer_tokens(a, b, n)
      PROVE  DaoInv'
  <2>1. /\ tokens' = [[tokens EXCEPT ![a] = @ - n] EXCEPT ![b] = @ + n] /\ tokens[a] >= n
        /\ voting_power' = [[voting_power EXCEPT ![a] = @ - n] EXCEPT ![b] = @ + n]
        /\ total_voting_power' = total_voting_power /\ gone' = gone
    BY <1>3 DEF transfer_tokens, Moves, TransferPower
  <2>2. n \in Nat /\ n \in Int BY <1>a
  <2>3. /\ Grown(tokens, tokens', DaoAddresses, 0)
        /\ Grown(voting_power, voting_power', DaoAddresses, 0)
    BY <1>0, <1>a, <2>1, <2>2, SumMove
  <2>4. \A c \in DaoAddresses : tokens'[c] >= 0 BY <1>0, <2>1, <2>2
  <2>5. total_voting_power' = total_voting_power + 0 /\ gone' = gone + 0 - 0 BY <1>0, <2>1
  <2> QED BY <1>b, <2>3, <2>4, <2>5
<1>4. ASSUME NEW a \in DaoAddresses, NEW b \in DaoAddresses, NEW n \in TokenAmounts,
             delegate_voting(a, b, n)
      PROVE  DaoInv'
  <2>1. /\ voting_power' = [[voting_power EXCEPT ![a] = @ - n] EXCEPT ![b] = @ + n]
        /\ UNCHANGED <<tokens, total_voting_power, gone>>
    BY <1>4 DEF delegate_voting, Moves
  <2>2. n \in Int BY <1>a
  <2>3. Grown(voting_power, voting_power', DaoAddresses, 0) BY <1>0, <1>a, <2>1, <2>2, SumMove
  <2>4. /\ voting_power' \in [DaoAddresses -> Int]
        /\ SumFunctionOnSet(voting_power, DaoAddresses) \in Int
        /\ SumFunctionOnSet(voting_power', DaoAddresses)
              = SumFunctionOnSet(voting_power, DaoAddresses) + 0
    BY <2>3 DEF Grown
  <2>5. total_voting_power = gone + SumFunctionOnSet(voting_power', DaoAddresses)
    BY <1>0, <2>4
  <2> QED BY <1>0, <2>1, <2>4, <2>5 DEF DaoInv, PowerAddsUp
<1>5. ASSUME UNCHANGED powerVars PROVE DaoInv' BY <1>5 DEF powerVars, DaoInv, PowerAddsUp
<1>6. ASSUME NEW a \in DaoAddresses, create_proposal(a) PROVE DaoInv'
  BY <1>5, <1>6 DEF create_proposal
<1>7. ASSUME NEW a \in DaoAddresses, NEW p \in DOMAIN proposals, NEW type \in VoteTypes,
             vote_on_proposal(p, a, type)
      PROVE  DaoInv'
  BY <1>5, <1>7 DEF vote_on_proposal
<1>8. ASSUME NEW p \in DOMAIN proposals,
             \/ calculate_proposal_result(p) \/ has_proposal_passed(p)
             \/ update_proposal_status(p, "closed")
      PROVE  DaoInv'
  BY <1>5, <1>8 DEF calculate_proposal_result, has_proposal_passed, update_proposal_status
<1>9. ASSUME UNCHANGED daoVars PROVE DaoInv' BY <1>5, <1>9 DEF daoVars
<1> QED BY <1>1, <1>2, <1>3, <1>4, <1>6, <1>7, <1>8, <1>9 DEF DaoNext

\* Only what has votes was cast; all that was counted still is; the results are of
\* then.
VotesInv ==
    /\ vote_count \in [Methods -> Nat] /\ vs_order \in Seq(Methods)
    /\ vs_votes \in [Voters -> [method : Methods \cup {"none"}, power : Powers \cup {0}]]
    /\ \A m \in Methods : vote_count[m] > 0 => \E i \in DOMAIN vs_order : vs_order[i] = m
    /\ \A m \in Methods : Cardinality({a \in Voters : vs_votes[a].method = m}) <= vote_count[m]
    /\ vs_results.votes \in [Methods -> Int]
    /\ \A m \in Methods :
          /\ vs_results.votes[m] <= vote_count[m]
          /\ m # "abstain" /\ vs_results.votes[m] > 0 =>
                 /\ vs_results.winner \in Methods \ {"abstain"}
                 /\ vs_results.votes[m] <= vs_results.votes[vs_results.winner]
    /\ vs_power = PowerOf(vs_votes)

\* Before the voting opens the manager has neither votes nor results.
ManagerInv ==
    phase = "before" => /\ \A a \in Voters : pm_votes[a] = NoVote
                        /\ \A m \in Methods : pm_results[m] <= 0

\* Nobody's method is one of those that can be voted with.
LEMMA NobodyVotes ==
    ASSUME NEW votes, \A a \in Voters : votes[a] = NoVote, NEW m \in Methods
    PROVE  Cardinality({a \in Voters : votes[a].method = m}) = 0
<1>1. {a \in Voters : votes[a].method = m} = {} BY VotingAssumption DEF NoVote
<1> QED BY <1>1, FS_EmptySet

LEMMA VotesInitial ==
    ASSUME VotingInit PROVE VotesInv
<1>1. \A a \in Voters : vs_votes[a] = NoVote BY DEF VotingInit
<1>2. vs_votes \in [Voters -> [method : Methods \cup {"none"}, power : Powers \cup {0}]]
  BY DEF VotingInit, NoVote
<1>3. \A m \in Methods : Cardinality({a \in Voters : vs_votes[a].method = m}) = 0
  BY <1>1, NobodyVotes
<1>4. /\ vote_count \in [Methods -> Nat] /\ vs_order \in Seq(Methods)
      /\ \A m \in Methods : vote_count[m] = 0
  BY DEF VotingInit
<1>5. vs_power = PowerOf(vs_votes)
  <2> DEFINE P == [a \in Voters |-> vs_votes[a].power]
  <2>1. DOMAIN P = Voters /\ \A a \in Voters : P[a] = 0 BY <1>1 DEF NoVote
  <2> HIDE DEF P
  <2>2. SumFunction(P) = 0 BY <2>1, SumZero, VotingAssumption DEF SumFunction
  <2>3. vs_power = 0 BY DEF VotingInit
  <2> QED BY <2>2, <2>3 DEF P, PowerOf
<1>6. vs_results.votes \in [Methods -> Int] /\ \A m \in Methods : vs_results.votes[m] = -1
  <2>1. vs_results.votes = NoResults BY DEF VotingInit, NotCalculated
  <2>2. NoResults \in [Methods -> Int] /\ \A m \in Methods : NoResults[m] = -1 BY DEF NoResults
  <2> QED BY <2>1, <2>2
<1> QED BY <1>2, <1>3, <1>4, <1>5, <1>6 DEF VotesInv

\* Has the most votes, abstentions aside.
Leads(m) == m # "abstain" /\ \A k \in Methods \ {"abstain"} : vote_count[k] <= vote_count[m]

\* Whoever was voted for, somebody leads who was.
LEMMA SomebodyLeads ==
    ASSUME vote_count \in [Methods -> Nat], vs_order \in Seq(Methods),
           \A m \in Methods : vote_count[m] > 0 => \E i \in DOMAIN vs_order : vs_order[i] = m,
           NEW m \in Methods, m # "abstain", vote_count[m] > 0
    PROVE  \E i \in 1 .. Len(vs_order) : Leads(vs_order[i])
<1> DEFINE all == SumFunctionOnSet(vote_count, Methods)
           T == {all - vote_count[k] : k \in Methods \ {"abstain"}}
<1>1. \A k \in Methods : vote_count[k] \in Nat OBVIOUS
<1>2. IsFiniteSet(Methods) BY VotingAssumption
<1>3. \A k \in Methods : all \in Nat /\ vote_count[k] <= all BY <1>1, <1>2, SumMember
<1> HIDE DEF all
<1>4. \A k \in Methods : all - vote_count[k] \in Nat BY <1>1, <1>3
<1>5. T \subseteq Nat /\ T # {} BY <1>4
<1>6. PICK t \in T : \A s \in T : t <= s
  <2> HIDE DEF T
  <2> QED BY <1>5, Least
<1>7. PICK k \in Methods \ {"abstain"} : t = all - vote_count[k] BY <1>6
<1>8. ASSUME NEW j \in Methods \ {"abstain"} PROVE vote_count[j] <= vote_count[k]
  <2>1. all - vote_count[k] <= all - vote_count[j] BY <1>6, <1>7
  <2>2. all \in Nat /\ vote_count[k] \in Nat /\ vote_count[j] \in Nat BY <1>1, <1>3
  <2> QED BY <2>1, <2>2
<1>9. Leads(k) BY <1>8 DEF Leads
<1>10. vote_count[k] > 0
  <2>1. vote_count[m] <= vote_count[k] BY <1>8
  <2> QED BY <1>1, <2>1
<1>11. PICK i \in DOMAIN vs_order : vs_order[i] = k BY <1>10
<1>12. i \in 1 .. Len(vs_order) OBVIOUS
<1>13. Leads(vs_order[i]) BY <1>9, <1>11
<1> QED BY <1>12, <1>13

LEMMA WinnerLeads ==
    ASSUME vote_count \in [Methods -> Nat], vs_order \in Seq(Methods),
           \A m \in Methods : vote_count[m] > 0 => \E i \in DOMAIN vs_order : vs_order[i] = m,
           NEW m \in Methods, m # "abstain", vote_count[m] > 0
    PROVE  _determine_winner \in Methods /\ Leads(_determine_winner)
<1> DEFINE I == {i \in 1 .. Len(vs_order) : Leads(vs_order[i])}
           best == IF I # {} THEN Min(I) ELSE 0
<1>1. I # {} BY SomebodyLeads
<1>2. I \subseteq Nat BY DEF Leads
<1>3. Min(I) \in I
  <2> HIDE DEF I
  <2>1. \E i \in I : \A j \in I : i <= j BY <1>1, <1>2, Least
  <2> QED BY <2>1 DEF Min
<1>4. _determine_winner = IF best = 0 THEN NoWinner ELSE vs_order[best]
  BY DEF _determine_winner, SelectInSeq, Leads
<1>5. best \in 1 .. Len(vs_order) /\ Leads(vs_order[best]) BY <1>1, <1>3
<1> HIDE DEF best
<1> QED BY <1>4, <1>5

LEMMA VotesStep ==
    ASSUME VotesInv, [VotingNext]_systemVars PROVE VotesInv'
<1>0. /\ vote_count \in [Methods -> Nat] /\ vs_order \in Seq(Methods)
      /\ vs_votes \in [Voters -> [method : Methods \cup {"none"}, power : Powers \cup {0}]]
      /\ \A m \in Methods : vote_count[m] > 0 => \E i \in DOMAIN vs_order : vs_order[i] = m
      /\ \A m \in Methods :
            Cardinality({a \in Voters : vs_votes[a].method = m}) <= vote_count[m]
      /\ vs_results.votes \in [Methods -> Int]
      /\ \A m \in Methods :
            /\ vs_results.votes[m] <= vote_count[m]
            /\ m # "abstain" /\ vs_results.votes[m] > 0 =>
                   /\ vs_results.winner \in Methods \ {"abstain"}
                   /\ vs_results.votes[m] <= vs_results.votes[vs_results.winner]
      /\ vs_power = PowerOf(vs_votes)
  BY DEF VotesInv
<1>1. ASSUME UNCHANGED <<vs_votes, vote_count, vs_order, vs_power, vs_results>> PROVE VotesInv'
  BY <1>1 DEF VotesInv, PowerOf
<1>2. ASSUME AskElsewhere("other") PROVE VotesInv' BY <1>1, <1>2 DEF AskElsewhere
<1>3. ASSUME VotingSystem_create_proposal PROVE VotesInv'
  BY <1>1, <1>3 DEF VotingSystem_create_proposal
<1>4. ASSUME VotingSystem_update_proposal_status("closed") PROVE VotesInv'
  BY <1>1, <1>4 DEF VotingSystem_update_proposal_status
<1>5. ASSUME UNCHANGED systemVars PROVE VotesInv' BY <1>1, <1>5 DEF systemVars
<1>6. ASSUME get_proposal_result PROVE VotesInv'
  <2> DEFINE w == _determine_winner
  <2>1. /\ vs_results'.votes = vote_count /\ vs_results'.winner = w
        /\ UNCHANGED <<vs_votes, vote_count, vs_order, vs_power>>
    BY <1>6 DEF get_proposal_result, _calculate_results
  <2>2. \A m \in Methods : m # "abstain" /\ vote_count[m] > 0 => w \in Methods /\ Leads(w)
    BY <1>0, WinnerLeads
  <2> HIDE DEF w
  <2>3. \A m \in Methods : m # "abstain" /\ vote_count[m] > 0 =>
              w \in Methods \ {"abstain"} /\ vote_count[m] <= vote_count[w]
    BY <2>2 DEF Leads
  <2>4. vote_count \in [Methods -> Int] /\ \A m \in Methods : vote_count[m] <= vote_count[m]
    BY <1>0
  <2>5. (PowerOf(vs_votes))' = PowerOf(vs_votes) BY <2>1 DEF PowerOf
  <2> QED BY <1>0, <2>1, <2>3, <2>4, <2>5 DEF VotesInv
<1>7. ASSUME NEW a \in Voters, NEW m \in Methods, NEW n \in Powers,
             VotingSystem_cast_vote(a, m, n)
      PROVE  VotesInv'
  <2> DEFINE vote == [method |-> m, power |-> n]
  <2>1. /\ vs_votes' = [vs_votes EXCEPT ![a] = vote]
        /\ vs_power' = PowerOf(vs_votes')
        /\ vote_count' = [vote_count EXCEPT ![m] = @ + 1]
        /\ vs_order' = IF m \in ToSet(vs_order) THEN vs_order ELSE Append(vs_order, m)
        /\ vs_results' = vs_results
    BY <1>7 DEF VotingSystem_cast_vote, Counts
  <2>2. vote \in [method : Methods \cup {"none"}, power : Powers \cup {0}] /\ vote.method = m
    OBVIOUS
  <2> HIDE DEF vote
  <2>3. /\ vs_votes' \in [Voters -> [method : Methods \cup {"none"}, power : Powers \cup {0}]]
        /\ \A v \in Voters : vs_votes'[v] = IF v = a THEN vote ELSE vs_votes[v]
    BY <1>0, <2>1, <2>2
  <2>4. /\ vote_count' \in [Methods -> Nat] /\ vote_count'[m] = vote_count[m] + 1
        /\ \A k \in Methods \ {m} : vote_count'[k] = vote_count[k]
    BY <1>0, <2>1
  <2>5. vs_order' \in Seq(Methods) BY <1>0, <2>1
  <2>6. ASSUME NEW k \in Methods, vote_count'[k] > 0
        PROVE  \E i \in DOMAIN vs_order' : vs_order'[i] = k
    <3>1. CASE k = m /\ m \in ToSet(vs_order) BY <2>1, <3>1 DEF ToSet
    <3>2. CASE k = m /\ m \notin ToSet(vs_order)
      <4>1. vs_order' = Append(vs_order, m) BY <2>1, <3>2
      <4>2. Len(vs_order) + 1 \in DOMAIN vs_order' /\ vs_order'[Len(vs_order) + 1] = m
        BY <1>0, <4>1
      <4> QED BY <3>2, <4>2
    <3>3. CASE k # m
      <4>1. PICK i \in DOMAIN vs_order : vs_order[i] = k BY <1>0, <2>4, <2>6, <3>3
      <4>2. i \in DOMAIN vs_order' /\ vs_order'[i] = vs_order[i]
        BY <1>0, <2>1, <4>1
      <4> QED BY <4>1, <4>2
    <3> QED BY <3>1, <3>2, <3>3
  <2>7. ASSUME NEW k \in Methods
        PROVE  Cardinality({v \in Voters : vs_votes'[v].method = k}) <= vote_count'[k]
    <3> DEFINE before == {v \in Voters : vs_votes[v].method = k}
               after == {v \in Voters : vs_votes'[v].method = k}
    <3>1. IsFiniteSet(before)
      <4>1. before \subseteq Voters OBVIOUS
      <4> HIDE DEF before
      <4> QED BY <4>1, FS_Subset, VotingAssumption
    <3>2. Cardinality(before) \in Nat /\ Cardinality(before) <= vote_count[k] /\ vote_count[k] \in Nat
      <4>1. Cardinality(before) \in Nat BY <3>1, FS_CardinalityType
      <4> QED BY <1>0, <4>1
    <3>3. after \subseteq IF k = m THEN before \cup {a} ELSE before BY <2>2, <2>3
    <3> HIDE DEF before, after
    <3>4. CASE k = m
      <4>1. /\ IsFiniteSet(before \cup {a})
            /\ Cardinality(before \cup {a}) = Cardinality(before)
                 \/ Cardinality(before \cup {a}) = Cardinality(before) + 1
        BY <3>1, FS_AddElement
      <4>2. /\ Cardinality(after) \in Nat
            /\ Cardinality(after) <= Cardinality(before \cup {a})
        <5>1. after \subseteq before \cup {a} BY <3>3, <3>4
        <5>2. IsFiniteSet(after) /\ Cardinality(after) <= Cardinality(before \cup {a})
          BY <4>1, <5>1, FS_Subset
        <5> QED BY <5>2, FS_CardinalityType
      <4>3. vote_count'[k] = vote_count[k] + 1 BY <2>4, <3>4
      <4>4. Cardinality(after) <= vote_count'[k] BY <3>2, <4>1, <4>2, <4>3
      <4> QED BY <4>4 DEF after
    <3>5. CASE k # m
      <4>1. after \subseteq before BY <3>3, <3>5
      <4>2. IsFiniteSet(after) /\ Cardinality(after) <= Cardinality(before)
        BY <3>1, <4>1, FS_Subset
      <4>3. Cardinality(after) \in Nat BY <4>2, FS_CardinalityType
      <4>4. vote_count'[k] = vote_count[k] BY <2>4, <3>5
      <4>5. Cardinality(after) <= vote_count'[k] BY <3>2, <4>2, <4>3, <4>4
      <4> QED BY <4>5 DEF after
    <3> QED BY <3>4, <3>5
  <2>8. ASSUME NEW k \in Methods PROVE vs_results'.votes[k] <= vote_count'[k]
    <3>1. vs_results.votes[k] <= vote_count[k] /\ vote_count[k] \in Nat
          /\ vs_results.votes[k] \in Int
      BY <1>0
    <3>2. vote_count'[k] = vote_count[k] \/ vote_count'[k] = vote_count[k] + 1 BY <2>4
    <3> QED BY <2>1, <3>1, <3>2
  <2>9. vs_power' = (PowerOf(vs_votes))' BY <2>1 DEF PowerOf
  <2> QED BY <1>0, <2>1, <2>3, <2>4, <2>5, <2>6, <2>7, <2>8, <2>9 DEF VotesInv
<1> QED BY <1>2, <1>3, <1>4, <1>5, <1>6, <1>7 DEF VotingNext

LEMMA ManagerInitial ==
    ASSUME ManagerInit PROVE ManagerInv
BY DEF ManagerInit, ManagerInv, NoResults

LEMMA ManagerStep ==
    ASSUME ManagerInv, [ManagerNext]_managerVars PROVE ManagerInv'
<1>1. ASSUME phase' = "before" => phase = "before", UNCHANGED pm_votes,
             pm_results' = pm_results \/ pm_results' = Tally
      PROVE  ManagerInv'
  <2> SUFFICES ASSUME phase' = "before"
               PROVE  /\ \A a \in Voters : pm_votes'[a] = NoVote
                      /\ \A m \in Methods : pm_results'[m] <= 0
    BY DEF ManagerInv
  <2>1. /\ \A a \in Voters : pm_votes[a] = NoVote
        /\ \A m \in Methods : pm_results[m] <= 0
    BY <1>1 DEF ManagerInv
  <2>2. \A m \in Methods : Tally[m] = 0 BY <2>1, NobodyVotes DEF Tally
  <2> QED BY <1>1, <2>1, <2>2
<1>2. ASSUME NEW a \in Voters, NEW m \in Methods, NEW n \in Powers,
             ProposalManager_cast_vote(a, m, n)
      PROVE  ManagerInv'
  BY <1>2 DEF ProposalManager_cast_vote, is_voting_phase, ManagerInv
<1>3. ASSUME get_proposal_results PROVE ManagerInv' BY <1>1, <1>3 DEF get_proposal_results
<1>4. ASSUME calculate_final_results PROVE ManagerInv'
  BY <1>1, <1>4 DEF calculate_final_results
<1>5. ASSUME TimePasses PROVE ManagerInv' BY <1>1, <1>5 DEF TimePasses
<1>6. ASSUME remove_proposal PROVE ManagerInv' BY <1>1, <1>6 DEF remove_proposal
<1>7. ASSUME NEW s \in {"active", "closed"}, update_status(s) PROVE ManagerInv'
  BY <1>1, <1>7 DEF update_status
<1>8. ASSUME UNCHANGED managerVars PROVE ManagerInv' BY <1>1, <1>8 DEF managerVars
<1> QED BY <1>2, <1>3, <1>4, <1>5, <1>6, <1>7, <1>8 DEF ManagerNext

LEMMA VotesStandThen ==
    ASSUME VotesInv, ManagerInv PROVE VotesStand
<1>1. ASSUME NEW m \in Methods
      PROVE  vote_count[m] >= Cardinality({a \in Voters : vs_votes[a].method = m})
  <2> DEFINE C == Cardinality({a \in Voters : vs_votes[a].method = m})
  <2>1. C <= vote_count[m] BY DEF VotesInv
  <2> HIDE DEF C
  <2>2. vote_count[m] >= C BY <2>1
  <2> QED BY <2>2 DEF C
<1>2. ASSUME phase = "before", NEW m \in Methods PROVE Tally[m] = 0 /\ pm_results[m] <= 0
  BY <1>2, NobodyVotes DEF ManagerInv, Tally
<1> QED BY <1>1, <1>2 DEF VotesInv, VotesStand

\* Power follows the tokens through minting, transfers, delegation and removal, no vote
\* is lost from the counts, and results name who had the most votes (DAO,
\* VotingSystem, ProposalManager).
THEOREM PowerFollowsTokens == ServicesSpec => []PowerAndVotes
<1>1. ServicesInit => DaoInv /\ VotesInv /\ ManagerInv
  BY DaoInitial, VotesInitial, ManagerInitial DEF ServicesInit
<1>2. DaoInv /\ VotesInv /\ ManagerInv /\ [ServicesNext]_allVars
         => DaoInv' /\ VotesInv' /\ ManagerInv'
  BY GovernanceMoves, DaoStep, VotesStep, ManagerStep
<1>3. DaoInv /\ VotesInv /\ ManagerInv => PowerAndVotes
  BY VotesStandThen DEF DaoInv, PowerAndVotes
<1> QED BY <1>1, <1>2, <1>3, PTL DEF ServicesSpec

-----------------------------------------------------------------------------
(* The cache *)

LEMMA LimitsMove ==
    ASSUME [ServicesNext]_allVars
    PROVE  [CacheNext]_cacheVars /\ [GasNext]_gasVars /\ [RateLimiterNext]_rateLimiterVars
BY DEF ServicesNext, OnlyMoves, allVars

CacheEntry == [key : CacheKeys, timestamp : Nat, loaded : Nat]

\* Entries as the cache may have them: one of a key, and none renewed by a use.
Single(s) ==
    /\ s \in Seq(CacheEntry)
    /\ \A i \in DOMAIN s : s[i].loaded = s[i].timestamp
    /\ \A i, j \in DOMAIN s : s[i].key = s[j].key => i = j

CacheInv ==
    /\ Single(cache) /\ cache_time \in Nat
    /\ max_size \in Nat \ {0} /\ ttl \in Nat \ {0}
    /\ answer.age <= answer.ttl /\ Len(cache) <= max_size

\* The entries of s at the places o are a cache too.
PartOf(r, s, o) ==
    /\ r \in Seq(CacheEntry)
    /\ \A i \in DOMAIN r : o[i] \in DOMAIN s /\ r[i] = s[o[i]]
    /\ \A i, j \in DOMAIN r : o[i] = o[j] => i = j

LEMMA SinglePart ==
    ASSUME NEW s, Single(s), NEW r, NEW o, PartOf(r, s, o)
    PROVE  Single(r)
<1>0. /\ r \in Seq(CacheEntry)
      /\ \A i \in DOMAIN r : o[i] \in DOMAIN s /\ r[i] = s[o[i]]
      /\ \A i, j \in DOMAIN r : o[i] = o[j] => i = j
  BY DEF PartOf
<1>1. \A i, j \in DOMAIN s : s[i].key = s[j].key => i = j BY DEF Single
<1>2. ASSUME NEW i \in DOMAIN r, NEW j \in DOMAIN r, r[i].key = r[j].key PROVE i = j
  <2>1. o[i] \in DOMAIN s /\ o[j] \in DOMAIN s /\ s[o[i]].key = s[o[j]].key BY <1>0, <1>2
  <2>2. o[i] = o[j] BY <1>1, <2>1
  <2> QED BY <1>0, <2>2
<1>3. \A i \in DOMAIN r : r[i].loaded = r[i].timestamp BY <1>0 DEF Single
<1> QED BY <1>0, <1>2, <1>3 DEF Single

LEMMA SingleEnd ==
    ASSUME NEW s, Single(s), NEW a \in 1 .. Len(s) + 1
    PROVE  /\ Single(SubSeq(s, a, Len(s)))
           /\ Len(SubSeq(s, a, Len(s))) = Len(s) - a + 1
<1> DEFINE r == SubSeq(s, a, Len(s))
           o == [i \in Nat |-> a + i - 1]
<1>1. s \in Seq(CacheEntry) BY DEF Single
<1>2. r \in Seq(CacheEntry) /\ Len(r) = Len(s) - a + 1 BY <1>1
<1>4. \A i \in Nat : o[i] = a + i - 1 OBVIOUS
<1>r. \A i \in 1 .. Len(s) - a + 1 : r[i] = s[a + i - 1] BY <1>1
<1> HIDE DEF r, o
<1>3. ASSUME NEW i \in DOMAIN r PROVE i \in Nat /\ o[i] \in DOMAIN s /\ r[i] = s[o[i]]
  <2>1. i \in 1 .. Len(s) - a + 1 /\ Len(s) \in Nat /\ DOMAIN s = 1 .. Len(s) BY <1>1, <1>2
  <2>2. i \in Nat /\ a + i - 1 \in 1 .. Len(s) BY ONLY <2>1, a \in 1 .. Len(s) + 1
  <2>3. o[i] = a + i - 1 /\ r[i] = s[a + i - 1] BY <1>4, <1>r, <2>1, <2>2
  <2> QED BY <2>1, <2>2, <2>3
<1>5. ASSUME NEW i \in DOMAIN r, NEW j \in DOMAIN r, o[i] = o[j] PROVE i = j
  <2>1. i \in Int /\ j \in Int /\ a \in Int BY <1>3
  <2>2. o[i] = a + i - 1 /\ o[j] = a + j - 1 BY <1>3, <1>4
  <2>3. a + i - 1 = a + j - 1 BY <1>5, <2>2
  <2> QED BY ONLY <2>1, <2>3
<1>6. PartOf(r, s, o) BY <1>2, <1>3, <1>5 DEF PartOf
<1>7. Single(r) BY <1>6, SinglePart
<1> QED BY <1>2, <1>7 DEF r

LEMMA SingleAppend ==
    ASSUME NEW s, Single(s), NEW e \in CacheEntry, e.loaded = e.timestamp,
           \A i \in DOMAIN s : s[i].key # e.key
    PROVE  Single(Append(s, e)) /\ Len(Append(s, e)) = Len(s) + 1
<1> DEFINE r == Append(s, e)
<1>1. s \in Seq(CacheEntry) BY DEF Single
<1>2. /\ r \in Seq(CacheEntry) /\ Len(r) = Len(s) + 1
      /\ DOMAIN r = DOMAIN s \cup {Len(s) + 1} /\ r[Len(s) + 1] = e
      /\ \A i \in DOMAIN s : r[i] = s[i]
  BY <1>1
<1> HIDE DEF r
<1>3. Single(r) BY <1>2 DEF Single
<1> QED BY <1>2, <1>3 DEF r

\* Place is where the entry of the key is.
LEMMA PlaceIs ==
    ASSUME cache \in Seq(CacheEntry), NEW k
    PROVE  /\ Place(k) \in 0 .. Len(cache)
           /\ Place(k) # 0 => cache[Place(k)].key = k
           /\ Place(k) = 0 => \A i \in DOMAIN cache : cache[i].key # k
<1> DEFINE I == {i \in 1 .. Len(cache) : cache[i].key = k}
<1>1. Place(k) = IF I # {} THEN Min(I) ELSE 0 BY DEF Place, SelectInSeq
<1>2. I # {} => Min(I) \in I
  <2>1. I \subseteq Nat OBVIOUS
  <2> HIDE DEF I
  <2>2. I # {} => \E i \in I : \A j \in I : i <= j BY <2>1, Least
  <2> QED BY <2>2 DEF Min
<1>3. DOMAIN cache = 1 .. Len(cache) /\ Len(cache) \in Nat OBVIOUS
<1> QED BY <1>1, <1>2, <1>3

LEMMA SingleWithout ==
    ASSUME Single(cache), NEW k
    PROVE  /\ Single(Without(k))
           /\ \A i \in DOMAIN Without(k) : Without(k)[i].key # k
           /\ Len(Without(k)) = IF Cached(k) THEN Len(cache) - 1 ELSE Len(cache)
<1>0. cache \in Seq(CacheEntry) BY DEF Single
<1>1. CASE ~Cached(k) BY <1>0, <1>1, PlaceIs DEF Cached, Without
<1>2. CASE Cached(k)
  <2> DEFINE p == Place(k)
             n == Len(cache)
             r == RemoveAt(cache, p)
             o == [i \in Nat |-> IF i < p THEN i ELSE i + 1]
  <2>1. p \in 1 .. n /\ cache[p].key = k /\ n \in Nat BY <1>0, <1>2, PlaceIs DEF Cached
  <2> HIDE DEF p
  <2>5. /\ r \in Seq(CacheEntry) /\ Len(r) = n - 1
        /\ \A i \in 1 .. n - 1 : r[i] = IF i < p THEN cache[i] ELSE cache[i + 1]
    BY <1>0, <2>1, RemovedAt
  <2> HIDE DEF r
  <2>a. \A i \in Nat : o[i] = IF i < p THEN i ELSE i + 1 OBVIOUS
  <2>b. DOMAIN cache = 1 .. n /\ DOMAIN r = 1 .. n - 1 BY <1>0, <2>1, <2>5
  <2> HIDE DEF o, n
  <2>c. ASSUME NEW i \in DOMAIN r PROVE o[i] \in DOMAIN cache /\ o[i] # p /\ r[i] = cache[o[i]]
    <3>1. i \in 1 .. n - 1 /\ i \in Nat /\ p \in Nat BY <2>1, <2>b
    <3>2. o[i] = IF i < p THEN i ELSE i + 1 BY <2>a, <3>1
    <3>3. r[i] = cache[o[i]] BY <2>5, <3>1, <3>2
    <3>4. o[i] \in 1 .. n /\ ~(o[i] = p) BY <2>1, <3>1, <3>2
    <3> QED BY <2>b, <3>3, <3>4
  <2>d. ASSUME NEW i \in DOMAIN r, NEW j \in DOMAIN r, o[i] = o[j] PROVE i = j
    <3>1. i \in Nat /\ j \in Nat /\ p \in Nat BY <2>1, <2>b
    <3>2. /\ o[i] = IF i < p THEN i ELSE i + 1
          /\ o[j] = IF j < p THEN j ELSE j + 1
      BY <2>a, <3>1
    <3>3. (IF i < p THEN i ELSE i + 1) = (IF j < p THEN j ELSE j + 1) BY <2>d, <3>2
    <3>4. (i < p /\ j < p) \/ (i >= p /\ j >= p)
      BY ONLY <3>1, <3>3
    <3> QED BY ONLY <3>1, <3>3, <3>4
  <2>6. Single(r)
    <3>1. PartOf(r, cache, o) BY <2>5, <2>c, <2>d DEF PartOf
    <3> QED BY <3>1, SinglePart
  <2>7. \A i \in DOMAIN r : r[i].key # k
    <3>1. p \in DOMAIN cache BY <2>1, <2>b
    <3> QED BY <2>1, <2>c, <3>1 DEF Single
  <2>8. Without(k) = r BY <1>2 DEF Without, r, p
  <2> QED BY <1>2, <2>5, <2>6, <2>7, <2>8 DEF n
<1> QED BY <1>1, <1>2

LEMMA CacheInitial ==
    ASSUME CacheInit PROVE CacheInv
BY BlockCacheAssumption DEF CacheInit, CacheInv, Single

LEMMA CacheStep ==
    ASSUME CacheInv, [CacheNext]_cacheVars PROVE CacheInv'
<1>0. /\ Single(cache) /\ cache \in Seq(CacheEntry) /\ cache_time \in Nat
      /\ max_size \in Nat /\ max_size > 0 /\ ttl \in Nat \ {0}
      /\ answer.age <= answer.ttl /\ Len(cache) <= max_size /\ Len(cache) \in Nat
  BY DEF CacheInv, Single
<1>a. ASSUME Single(cache'), Len(cache') <= max_size, UNCHANGED <<max_size, ttl, cache_time, answer>>
      PROVE  CacheInv'
  BY <1>0, <1>a DEF CacheInv
<1>1. ASSUME NEW k \in CacheKeys, Cache_get(k) PROVE CacheInv'
  <2> DEFINE e == EntryOf(k)
  <2>1. Cached(k) /\ UNCHANGED <<max_size, ttl, cache_time>> BY <1>1 DEF Cache_get
  <2>2. e \in CacheEntry /\ e.key = k /\ e.loaded = e.timestamp
    <3>1. Place(k) \in DOMAIN cache /\ cache[Place(k)].key = k
      BY <1>0, <2>1, PlaceIs DEF Cached
    <3> QED BY <1>0, <3>1 DEF EntryOf, Single
  <2>3. /\ Single(Without(k)) /\ Len(Without(k)) = Len(cache) - 1
        /\ \A i \in DOMAIN Without(k) : Without(k)[i].key # k
    BY <1>0, <2>1, SingleWithout
  <2>4. CASE Expired(e)
    <3>1. cache' = Without(k) /\ answer' = answer BY <1>1, <2>4 DEF Cache_get
    <3> QED BY <1>0, <1>a, <2>1, <2>3, <3>1
  <2>5. CASE ~Expired(e)
    <3>1. cache' = Append(Without(k), e) /\ answer' = [age |-> cache_time - e.loaded, ttl |-> ttl]
      BY <1>1, <2>5 DEF Cache_get, Used
    <3>2. cache_time - e.loaded <= ttl
      <4>1. ~(cache_time - e.timestamp > ttl) BY <2>5 DEF Expired
      <4>2. e.timestamp \in Nat /\ e.loaded = e.timestamp BY <2>2 DEF CacheEntry
      <4> QED BY <1>0, <4>1, <4>2
    <3> HIDE DEF e
    <3>3. Single(Append(Without(k), e)) /\ Len(Append(Without(k), e)) = Len(cache) - 1 + 1
      BY <2>2, <2>3, SingleAppend
    <3>4. Single(cache') /\ Len(cache') <= max_size BY <1>0, <3>1, <3>3
    <3>5. answer'.age <= answer'.ttl BY <3>1, <3>2
    <3> QED BY <1>0, <2>1, <3>4, <3>5 DEF CacheInv
  <2> QED BY <2>4, <2>5
<1>2. ASSUME NEW k \in CacheKeys, Cache_set(k) PROVE CacheInv'
  <2> DEFINE others == Without(k)
             room == IF Len(others) >= max_size THEN Tail(others) ELSE others
             e == [key |-> k, timestamp |-> cache_time, loaded |-> cache_time]
  <2>1. cache' = Append(room, e) /\ UNCHANGED <<max_size, ttl, cache_time, answer>>
    BY <1>2 DEF Cache_set
  <2>2. e \in CacheEntry /\ e.key = k /\ e.loaded = e.timestamp BY <1>0 DEF CacheEntry
  <2>3. /\ Single(others) /\ Len(others) <= max_size /\ Len(others) \in Nat
        /\ \A i \in DOMAIN others : others[i].key # k
    BY <1>0, SingleWithout DEF Single
  <2> HIDE DEF others, e
  <2>4. /\ Single(room) /\ Len(room) + 1 <= max_size
        /\ \A i \in DOMAIN room : room[i].key # k
    <3>1. CASE Len(others) >= max_size
      <4>0. others \in Seq(CacheEntry) BY <2>3 DEF Single
      <4>1. 2 \in 1 .. Len(others) + 1 /\ Tail(others) = SubSeq(others, 2, Len(others))
        BY <1>0, <2>3, <3>1, <4>0
      <4>2. Single(Tail(others)) /\ Len(Tail(others)) = Len(others) - 2 + 1
        BY <2>3, <4>1, SingleEnd
      <4>3. \A i \in DOMAIN Tail(others) :
               i + 1 \in DOMAIN others /\ Tail(others)[i] = others[i + 1]
        BY <1>0, <2>3, <3>1, <4>0
      <4> QED BY <1>0, <2>3, <3>1, <4>2, <4>3
    <3>2. CASE ~(Len(others) >= max_size) BY <1>0, <2>3, <3>2
    <3> QED BY <3>1, <3>2
  <2> HIDE DEF room
  <2>5. Single(cache') /\ Len(cache') = Len(room) + 1 BY <2>1, <2>2, <2>4, SingleAppend
  <2> QED BY <1>a, <2>1, <2>4, <2>5
<1>3. ASSUME NEW k \in CacheKeys, Cache_delete(k) PROVE CacheInv'
  <2>1. /\ Cached(k) /\ cache' = Without(k)
        /\ UNCHANGED <<max_size, ttl, cache_time, answer>>
    BY <1>3 DEF Cache_delete
  <2>2. Single(cache') /\ Len(cache') = Len(cache) - 1 BY <1>0, <2>1, SingleWithout
  <2> QED BY <1>0, <1>a, <2>1, <2>2
<1>4. ASSUME NEW size \in Sizes, NEW time \in Ttls, set_cache_config(size, time)
      PROVE  CacheInv'
  <2> DEFINE end == SubSeq(cache, Len(cache) - size + 1, Len(cache))
  <2>1. /\ max_size' = size /\ ttl' = time /\ UNCHANGED <<cache_time, answer>>
        /\ cache' = IF Len(cache) > size THEN end ELSE cache
    BY <1>4 DEF set_cache_config
  <2>2. size \in Nat \ {0} /\ time \in Nat \ {0} BY BlockCacheAssumption
  <2>3. Single(cache') /\ Len(cache') <= size
    <3>1. CASE Len(cache) > size
      <4>1. Len(cache) - size + 1 \in 1 .. Len(cache) + 1 BY <1>0, <2>2, <3>1
      <4>2. Single(end) /\ Len(end) = Len(cache) - (Len(cache) - size + 1) + 1
        BY <1>0, <4>1, SingleEnd
      <4> HIDE DEF end
      <4> QED BY <1>0, <2>1, <2>2, <3>1, <4>2
    <3>2. CASE ~(Len(cache) > size) BY <1>0, <2>1, <2>2, <3>2
    <3> QED BY <3>1, <3>2
  <2> QED BY <1>0, <2>1, <2>2, <2>3 DEF CacheInv
<1>5. ASSUME clear_cache PROVE CacheInv'
  <2>1. cache' = <<>> /\ UNCHANGED <<max_size, ttl, cache_time, answer>> BY <1>5 DEF clear_cache
  <2>2. Single(cache') /\ Len(cache') = 0 BY <2>1 DEF Single
  <2> QED BY <1>0, <1>a, <2>1, <2>2
<1>6. ASSUME purge_expired_items PROVE CacheInv'
  <2> DEFINE places == {i \in DOMAIN cache : ~Expired(cache[i])}
             young == InTurn(places)
             k == Cardinality(places)
  <2>1. /\ cache' = [n \in DOMAIN young |-> cache[young[n]]]
        /\ UNCHANGED <<max_size, ttl, cache_time, answer>>
    BY <1>6 DEF purge_expired_items
  <2>2. places \in SUBSET (1 .. Len(cache)) BY <1>0
  <2> HIDE DEF places
  <2>3. k \in Nat /\ k <= Len(cache)
    <3>1. IsFiniteSet(1 .. Len(cache)) /\ Cardinality(1 .. Len(cache)) = Len(cache)
      <4>0. 1 \in Int /\ Len(cache) \in Int BY <1>0
      <4>1. /\ IsFiniteSet(1 .. Len(cache))
            /\ Cardinality(1 .. Len(cache)) = IF 1 > Len(cache) THEN 0 ELSE Len(cache) - 1 + 1
        BY ONLY <4>0, FS_Interval
      <4> QED BY <1>0, <4>1
    <3>2. IsFiniteSet(places) /\ Cardinality(places) <= Cardinality(1 .. Len(cache))
      BY <2>2, <3>1, FS_Subset
    <3> QED BY <3>1, <3>2, FS_CardinalityType
  <2>4. /\ young \in [1 .. k -> places]
        /\ \A i, j \in DOMAIN young : i < j => young[i] < young[j]
    <3>1. \E s \in IncreasingLists(places) : TRUE BY <1>0, <2>2, Listed
    <3>2. PICK s \in [1 .. k -> places] : \A i, j \in 1 .. k : i < j => s[i] < s[j]
      BY <3>1 DEF IncreasingLists
    <3>3. \E t \in [1 .. k -> places] : \A i, j \in DOMAIN t : i < j => t[i] < t[j] BY <3>2
    <3> QED BY <3>3 DEF InTurn
  <2> HIDE DEF young, k
  <2>5. \A i \in 1 .. k : young[i] \in 1 .. Len(cache) BY <2>2, <2>4
  <2>6. /\ cache' \in Seq(CacheEntry) /\ Len(cache') = k /\ DOMAIN cache' = 1 .. k
        /\ \A i \in 1 .. k : cache'[i] = cache[young[i]]
    <3>1. cache' = [n \in 1 .. k |-> cache[young[n]]] BY <2>1, <2>4
    <3>2. \A n \in 1 .. k : cache[young[n]] \in CacheEntry BY <1>0, <2>5
    <3> QED BY <2>3, <3>1, <3>2
  <2>7. ASSUME NEW i \in 1 .. k, NEW j \in 1 .. k, young[i] = young[j] PROVE i = j
    <3> SUFFICES ASSUME i # j PROVE FALSE OBVIOUS
    <3>1. i < j \/ j < i BY <2>3
    <3>2. young[i] < young[j] \/ young[j] < young[i] BY <2>4, <3>1
    <3>3. young[i] \in Nat /\ young[j] \in Nat BY <2>5
    <3> QED BY <2>7, <3>2, <3>3
  <2>8. Single(cache')
    <3>1. \A i \in DOMAIN cache' : young[i] \in DOMAIN cache /\ cache'[i] = cache[young[i]]
      BY <1>0, <2>5, <2>6
    <3>2. \A i, j \in DOMAIN cache' : young[i] = young[j] => i = j BY <2>6, <2>7
    <3>3. PartOf(cache', cache, young) BY <2>6, <3>1, <3>2 DEF PartOf
    <3> QED BY <1>0, <3>3, SinglePart
  <2> QED BY <1>0, <1>a, <2>1, <2>3, <2>6, <2>8
<1>7. ASSUME CacheTick PROVE CacheInv' BY <1>0, <1>7 DEF CacheTick, CacheInv
<1>8. ASSUME UNCHANGED cacheVars PROVE CacheInv' BY <1>0, <1>8 DEF cacheVars, CacheInv
<1> QED BY <1>1, <1>2, <1>3, <1>4, <1>5, <1>6, <1>7, <1>8 DEF CacheNext

-----------------------------------------------------------------------------
(* Gas *)

GasRecord == {NoRecord} \cup [gasLimit : Nat, gasUsed : Nat, gasRefund : Nat]

\* What of the gas of each transaction is within its limit.
GasWithin == [t \in GasTransactions |-> WithinLimit(transactionGasRecords[t])]

GasInv ==
    /\ transactionGasRecords \in [GasTransactions -> GasRecord]
    /\ currentBlockGasUsed \in Nat
    /\ SumFunctionOnSet(GasWithin, GasTransactions) <= currentBlockGasUsed
    /\ 2 * lastFinalized.effectiveGasUsed >= lastFinalized.gasUsed

\* A record of t that brings no more gas within the limit than the block pays for.
GasWritten(t, r, d) ==
    /\ t \in GasTransactions /\ r \in GasRecord /\ d \in Nat
    /\ transactionGasRecords' = [transactionGasRecords EXCEPT ![t] = r]
    /\ currentBlockGasUsed' = currentBlockGasUsed + d
    /\ WithinLimit(r) <= WithinLimit(transactionGasRecords[t]) + d

LEMMA WithinLimitType ==
    ASSUME NEW r \in GasRecord PROVE WithinLimit(r) \in Nat
BY DEF GasRecord, WithinLimit, NoRecord

\* The rest of the step is about what was last finalized.
LEMMA GasBookkeeping ==
    ASSUME GasInv, NEW t, NEW r, NEW d, GasWritten(t, r, d),
           2 * lastFinalized'.effectiveGasUsed >= lastFinalized'.gasUsed
    PROVE  GasInv'
<1> DEFINE S == GasTransactions
           f == GasWithin
           h == GasWithin'
           v == WithinLimit(r)
<1>0. IsFiniteSet(S) BY GasAssumption
<1>1. /\ transactionGasRecords \in [S -> GasRecord] /\ t \in S /\ r \in GasRecord /\ d \in Nat
      /\ transactionGasRecords' = [transactionGasRecords EXCEPT ![t] = r]
      /\ transactionGasRecords' \in [S -> GasRecord]
      /\ currentBlockGasUsed \in Nat /\ currentBlockGasUsed' = currentBlockGasUsed + d
      /\ SumFunctionOnSet(f, S) <= currentBlockGasUsed
  BY DEF GasInv, GasWritten
<1>2. f \in [S -> Int] /\ v \in Int
  <2>1. \A x \in S : WithinLimit(transactionGasRecords[x]) \in Int
    <3>1. \A x \in S : transactionGasRecords[x] \in GasRecord BY <1>1
    <3> QED BY <3>1, WithinLimitType
  <2> QED BY <1>1, <2>1, WithinLimitType DEF GasWithin
<1>3. h = [f EXCEPT ![t] = v] BY <1>1 DEF GasWithin
<1>4. v <= f[t] + d /\ f[t] \in Int BY <1>1, <1>2 DEF GasWithin, GasWritten
<1> HIDE DEF f, h, v
<1>5. Grown(f, h, S, v - f[t]) BY <1>0, <1>1, <1>2, <1>3, SumUpdate
<1>6. SumFunctionOnSet(h, S) = SumFunctionOnSet(f, S) + (v - f[t])
      /\ SumFunctionOnSet(f, S) \in Int
  BY <1>5 DEF Grown
<1>7. SumFunctionOnSet(h, S) <= currentBlockGasUsed' BY <1>1, <1>2, <1>4, <1>6
<1> QED BY <1>1, <1>7 DEF GasInv, h

\* At most half of what was used is given back.
LEMMA HalfIsPaid ==
    ASSUME NEW r \in [gasLimit : Nat, gasUsed : Nat, gasRefund : Nat]
    PROVE  2 * Effective(r) >= r.gasUsed
<1>1. r.gasUsed \in Nat /\ r.gasRefund \in Nat OBVIOUS
<1> DEFINE u == r.gasUsed
           b == IF r.gasRefund < u \div 2 THEN r.gasRefund ELSE u \div 2
<1>2. u \div 2 \in Nat /\ 2 * (u \div 2) <= u BY <1>1
<1>3. b \in Nat /\ b <= u \div 2 BY <1>1, <1>2
<1>4. Effective(r) = u - b BY DEF Effective
<1> HIDE DEF b, u
<1>5. u \in Nat BY <1>1 DEF u
<1>6. 2 * (u - b) >= u BY <1>2, <1>3, <1>5
<1> QED BY <1>4, <1>6 DEF u

LEMMA GasInitial ==
    ASSUME GasInit PROVE GasInv
<1>1. \A t \in GasTransactions : GasWithin[t] = 0 BY DEF GasInit, GasWithin, WithinLimit
<1>2. SumFunctionOnSet(GasWithin, GasTransactions) = 0 BY <1>1, GasAssumption, SumZero
<1> QED BY <1>2 DEF GasInit, GasInv, GasRecord

LEMMA GasStep ==
    ASSUME GasInv, [GasNext]_gasVars PROVE GasInv'
<1>0. /\ transactionGasRecords \in [GasTransactions -> GasRecord] /\ currentBlockGasUsed \in Nat
      /\ 2 * lastFinalized.effectiveGasUsed >= lastFinalized.gasUsed
  BY DEF GasInv
<1>a. ASSUME NEW t \in Running
      PROVE  /\ t \in GasTransactions /\ transactionGasRecords[t] # NoRecord
             /\ transactionGasRecords[t] \in [gasLimit : Nat, gasUsed : Nat, gasRefund : Nat]
  BY <1>0 DEF Running, GasRecord
<1>b. ASSUME NEW t \in GasTransactions, NEW r \in GasRecord, WithinLimit(r) = 0
      PROVE  WithinLimit(r) <= WithinLimit(transactionGasRecords[t]) + 0
  <2>1. WithinLimit(transactionGasRecords[t]) \in Nat BY <1>0, WithinLimitType
  <2> QED BY <1>b, <2>1
<1>1. ASSUME NEW t \in GasTransactions, NEW limit \in GasLimits, startTransaction(t, limit)
      PROVE  GasInv'
  <2> DEFINE r == [gasLimit |-> limit, gasUsed |-> 0, gasRefund |-> 0]
  <2>1. r \in GasRecord /\ WithinLimit(r) = 0 BY GasAssumption DEF GasRecord, WithinLimit
  <2>2. /\ transactionGasRecords' = [transactionGasRecords EXCEPT ![t] = r]
        /\ currentBlockGasUsed' = currentBlockGasUsed /\ lastFinalized' = lastFinalized
    BY <1>1 DEF startTransaction
  <2> HIDE DEF r
  <2>3. GasWritten(t, r, 0) BY <1>0, <1>b, <2>1, <2>2 DEF GasWritten
  <2>4. 2 * lastFinalized'.effectiveGasUsed >= lastFinalized'.gasUsed BY <1>0, <2>2
  <2> QED BY <2>3, <2>4, GasBookkeeping
<1>2. ASSUME NEW t \in GasTransactions, NEW n \in GasAmounts, trackGasUsage(t, n)
      PROVE  GasInv'
  <2> DEFINE old == transactionGasRecords[t]
             r == [old EXCEPT !.gasUsed = @ + n]
             d == Charged(t, n)
  <2>1. /\ old \in [gasLimit : Nat, gasUsed : Nat, gasRefund : Nat] /\ old # NoRecord
        /\ n \in Nat
    BY <1>2, <1>a, GasAssumption DEF trackGasUsage
  <2>2. /\ transactionGasRecords' = [transactionGasRecords EXCEPT ![t] = r]
        /\ currentBlockGasUsed' = currentBlockGasUsed + d /\ lastFinalized' = lastFinalized
    BY <1>2 DEF trackGasUsage
  <2>3. d = IF old.gasUsed + n > old.gasLimit THEN 0 ELSE n BY DEF Charged
  <2> HIDE DEF old, d
  <2>4. /\ r \in [gasLimit : Nat, gasUsed : Nat, gasRefund : Nat]
        /\ r.gasUsed = old.gasUsed + n /\ r.gasLimit = old.gasLimit /\ r # NoRecord
    BY <2>1 DEF NoRecord
  <2> HIDE DEF r
  <2>5. /\ WithinLimit(r) = IF r.gasUsed <= r.gasLimit THEN r.gasUsed ELSE 0
        /\ WithinLimit(old) = IF old.gasUsed <= old.gasLimit THEN old.gasUsed ELSE 0
    BY <2>1, <2>4 DEF WithinLimit
  <2>6. d \in Nat /\ WithinLimit(r) <= WithinLimit(old) + d
    <3>1. /\ old.gasUsed \in Nat /\ old.gasLimit \in Nat BY <2>1
    <3> QED BY <2>1, <2>3, <2>4, <2>5, <3>1
  <2>7. GasWritten(t, r, d) BY <2>2, <2>4, <2>6 DEF GasWritten, GasRecord, old
  <2>8. 2 * lastFinalized'.effectiveGasUsed >= lastFinalized'.gasUsed BY <1>0, <2>2
  <2> QED BY <2>7, <2>8, GasBookkeeping
<1>3. ASSUME NEW t \in GasTransactions, NEW n \in GasAmounts, addGasRefund(t, n)
      PROVE  GasInv'
  <2> DEFINE old == transactionGasRecords[t]
             r == [old EXCEPT !.gasRefund = @ + n]
  <2>1. /\ old \in [gasLimit : Nat, gasUsed : Nat, gasRefund : Nat] /\ old # NoRecord
        /\ n \in Nat
    BY <1>3, <1>a, GasAssumption DEF addGasRefund
  <2>2. /\ transactionGasRecords' = [transactionGasRecords EXCEPT ![t] = r]
        /\ currentBlockGasUsed' = currentBlockGasUsed /\ lastFinalized' = lastFinalized
    BY <1>3 DEF addGasRefund
  <2> HIDE DEF old
  <2>4. /\ r \in [gasLimit : Nat, gasUsed : Nat, gasRefund : Nat]
        /\ r.gasUsed = old.gasUsed /\ r.gasLimit = old.gasLimit /\ r # NoRecord
    BY <2>1 DEF NoRecord
  <2> HIDE DEF r
  <2>5. WithinLimit(r) = WithinLimit(old) BY <2>1, <2>4 DEF WithinLimit
  <2>6. WithinLimit(r) <= WithinLimit(old) + 0
    <3>1. r \in GasRecord /\ WithinLimit(r) \in Nat BY <2>4, WithinLimitType DEF GasRecord
    <3> QED BY <2>5, <3>1
  <2>7. GasWritten(t, r, 0) BY <1>0, <2>2, <2>4, <2>6 DEF GasWritten, GasRecord, old
  <2>8. 2 * lastFinalized'.effectiveGasUsed >= lastFinalized'.gasUsed BY <1>0, <2>2
  <2> QED BY <2>7, <2>8, GasBookkeeping
<1>4. ASSUME NEW t \in GasTransactions, finalizeTransaction(t) PROVE GasInv'
  <2>1. /\ transactionGasRecords' = [transactionGasRecords EXCEPT ![t] = NoRecord]
        /\ currentBlockGasUsed' = currentBlockGasUsed
        /\ lastFinalized'.gasUsed = transactionGasRecords[t].gasUsed
        /\ lastFinalized'.effectiveGasUsed = Effective(transactionGasRecords[t])
        /\ t \in Running
    BY <1>4 DEF finalizeTransaction
  <2>2. NoRecord \in GasRecord /\ WithinLimit(NoRecord) = 0 BY DEF GasRecord, WithinLimit
  <2>3. GasWritten(t, NoRecord, 0) BY <1>0, <1>b, <2>1, <2>2 DEF GasWritten
  <2>4. 2 * lastFinalized'.effectiveGasUsed >= lastFinalized'.gasUsed
    BY <1>a, <2>1, HalfIsPaid
  <2> QED BY <2>3, <2>4, GasBookkeeping
<1>5. ASSUME resetForNewBlock PROVE GasInv'
  <2>1. /\ currentBlockGasUsed' = 0 /\ lastFinalized' = lastFinalized
        /\ transactionGasRecords' = [t \in GasTransactions |-> NoRecord]
    BY <1>5 DEF resetForNewBlock, Cleared
  <2>2. \A t \in GasTransactions : GasWithin'[t] = 0 BY <2>1 DEF GasWithin, WithinLimit
  <2>3. SumFunctionOnSet(GasWithin', GasTransactions) = 0 BY <2>2, GasAssumption, SumZero
  <2> QED BY <1>0, <2>1, <2>3 DEF GasInv, GasRecord
<1>6. ASSUME UNCHANGED gasVars PROVE GasInv'
  BY <1>6 DEF gasVars, GasInv, GasWithin
<1> QED BY <1>1, <1>2, <1>3, <1>4, <1>5, <1>6 DEF GasNext

LEMMA GasThen ==
    ASSUME GasInv PROVE GasAccounted
<1>1. DOMAIN GasWithin = GasTransactions BY DEF GasWithin
<1> QED BY <1>1 DEF GasInv, GasAccounted, GasWithin, SumFunction

-----------------------------------------------------------------------------
(* The rate limiter *)

BucketTokens == {NoBucket} \cup 0 .. token_max_balance

\* Who has a bucket of these tokens, and spent so much, had no more than a full bucket
\* and what flowed in until then; who has none spent nothing.
LimitedTo(bucketTokens, used, at) ==
    /\ bucketTokens \in [Users -> BucketTokens] /\ used \in [Users -> Nat] /\ at \in Nat
    /\ (at - started) * tokens_per_second \in Nat
    /\ \A u \in Users :
          /\ bucketTokens[u] = NoBucket => used[u] = 0
          /\ used[u] + Available(bucketTokens, u)
                <= token_max_balance + (at - started) * tokens_per_second

LimiterInv ==
    /\ clock \in Nat /\ last_refill_time \in Nat /\ started \in Nat
    /\ started <= last_refill_time /\ last_refill_time <= clock
    /\ LimitedTo(user_tokens, spent, last_refill_time)

LEMMA Flow ==
    ASSUME NEW a \in Nat, NEW b \in Nat, NEW c \in Nat, NEW r \in Nat, a <= b, b <= c
    PROVE  /\ (c - a) * r = (b - a) * r + (c - b) * r
           /\ (c - a) * r \in Nat /\ (b - a) * r \in Nat /\ (c - b) * r \in Nat
<1> DEFINE m == b - a
           n == c - b
<1>1. m \in Nat /\ n \in Nat /\ c - a = m + n OBVIOUS
<1> HIDE DEF m, n
<1>2. (m + n) * r = m * r + n * r /\ m * r \in Nat /\ n * r \in Nat BY <1>1
<1>3. (c - a) * r = m * r + n * r BY <1>1, <1>2
<1>4. m * r + n * r \in Nat BY <1>2
<1> QED BY <1>2, <1>3, <1>4 DEF m, n

\* A refill lets in what flowed since the last one.
LEMMA RefillKeepsLimit ==
    ASSUME LimiterInv PROVE LimitedTo(Refilled, spent, clock)
<1>1. /\ clock \in Nat /\ last_refill_time \in Nat /\ started \in Nat
      /\ started <= last_refill_time /\ last_refill_time <= clock
      /\ user_tokens \in [Users -> BucketTokens] /\ spent \in [Users -> Nat]
      /\ token_max_balance \in Nat /\ tokens_per_second \in Nat
  BY RateLimiterAssumption DEF LimiterInv, LimitedTo
<1> DEFINE before == (last_refill_time - started) * tokens_per_second
           since == (clock - last_refill_time) * tokens_per_second
           now == (clock - started) * tokens_per_second
<1>2. now = before + since /\ before \in Nat /\ since \in Nat /\ now \in Nat
  BY <1>1, Flow
<1>3. \A u \in Users :
         /\ user_tokens[u] = NoBucket => spent[u] = 0
         /\ spent[u] + Available(user_tokens, u) <= token_max_balance + before
  BY DEF LimiterInv, LimitedTo
<1>4. \A u \in Users :
         Refilled[u] = IF user_tokens[u] = NoBucket THEN NoBucket
                       ELSE IF user_tokens[u] + since < token_max_balance
                            THEN user_tokens[u] + since ELSE token_max_balance
  BY DEF Refilled
<1>5. DOMAIN Refilled = Users /\ Refilled = [u \in Users |-> Refilled[u]] BY DEF Refilled
<1> HIDE DEF before, since, now
<1>6. ASSUME NEW u \in Users
      PROVE  /\ Refilled[u] \in BucketTokens
             /\ Refilled[u] = NoBucket => spent[u] = 0
             /\ spent[u] + Available(Refilled, u) <= token_max_balance + now
  <2>1. spent[u] \in Nat /\ user_tokens[u] \in BucketTokens BY <1>1
  <2>2. CASE user_tokens[u] = NoBucket
    <3>1. Refilled[u] = NoBucket /\ spent[u] = 0 BY <1>3, <1>4, <2>2
    <3>2. Available(Refilled, u) = token_max_balance BY <3>1 DEF Available
    <3> QED BY <1>1, <1>2, <3>1, <3>2 DEF BucketTokens
  <2>3. CASE user_tokens[u] # NoBucket
    <3> DEFINE t == user_tokens[u]
    <3>1. t \in 0 .. token_max_balance /\ Available(user_tokens, u) = t
      BY <2>1, <2>3 DEF BucketTokens, Available
    <3>2. Refilled[u] = IF t + since < token_max_balance THEN t + since ELSE token_max_balance
      BY <1>4, <2>3
    <3>3. spent[u] + t <= token_max_balance + before BY <1>3, <3>1
    <3> HIDE DEF t
    <3>4. Refilled[u] \in 0 .. token_max_balance /\ Refilled[u] <= t + since
      BY <1>1, <1>2, <3>1, <3>2
    <3>5. Refilled[u] # NoBucket /\ Available(Refilled, u) = Refilled[u]
      BY <1>1, <3>4 DEF NoBucket, Available
    <3>6. spent[u] + Refilled[u] <= token_max_balance + now
      <4>1. Refilled[u] \in Int /\ t \in Int BY <3>1, <3>4
      <4> QED BY <1>1, <1>2, <2>1, <3>3, <3>4, <4>1
    <3> QED BY <3>4, <3>5, <3>6 DEF BucketTokens
  <2> QED BY <2>2, <2>3
<1>7. Refilled \in [Users -> BucketTokens] BY <1>5, <1>6
<1> QED BY <1>1, <1>2, <1>6, <1>7 DEF LimitedTo, now

\* A payment moves tokens from what is left to what is spent.
LEMMA PaymentKeepsLimit ==
    ASSUME NEW bucketTokens, NEW at, LimitedTo(bucketTokens, spent, at),
           NEW u \in Users, NEW c \in Nat, c <= Available(bucketTokens, u)
    PROVE  LimitedTo([bucketTokens EXCEPT ![u] = Available(bucketTokens, u) - c],
                     [spent EXCEPT ![u] = @ + c], at)
<1> DEFINE left == Available(bucketTokens, u)
           h == [bucketTokens EXCEPT ![u] = left - c]
           p == [spent EXCEPT ![u] = @ + c]
           limit == token_max_balance + (at - started) * tokens_per_second
<1>1. /\ bucketTokens \in [Users -> BucketTokens] /\ spent \in [Users -> Nat] /\ at \in Nat
      /\ (at - started) * tokens_per_second \in Nat /\ token_max_balance \in Nat
      /\ \A x \in Users : /\ bucketTokens[x] = NoBucket => spent[x] = 0
                          /\ spent[x] + Available(bucketTokens, x) <= limit
  BY RateLimiterAssumption DEF LimitedTo
<1>2. left \in 0 .. token_max_balance /\ spent[u] \in Nat /\ spent[u] + left <= limit
  <2>1. bucketTokens[u] \in BucketTokens /\ spent[u] \in Nat BY <1>1
  <2> QED BY <1>1, <2>1 DEF BucketTokens, Available
<1>3. /\ h[u] = left - c /\ p[u] = spent[u] + c /\ DOMAIN h = Users
      /\ p \in [Users -> Nat] /\ h = [x \in Users |-> h[x]]
      /\ \A x \in Users \ {u} : h[x] = bucketTokens[x] /\ p[x] = spent[x]
  <2>1. spent[u] + c \in Nat BY <1>2
  <2>2. /\ p[u] = spent[u] + c /\ p \in [Users -> Nat]
        /\ \A x \in Users \ {u} : p[x] = spent[x]
    BY <1>1, <2>1
  <2> HIDE DEF p, left
  <2> QED BY <1>1, <2>2
<1> HIDE DEF left, h, p, limit
<1>4. h[u] \in 0 .. token_max_balance /\ p[u] + h[u] <= limit
  <2>1. left \in Nat /\ left <= token_max_balance /\ c <= left BY <1>1, <1>2 DEF left
  <2>2. left - c \in 0 .. token_max_balance BY <1>1, <2>1
  <2>3. p[u] + h[u] = spent[u] + left BY <1>2, <1>3, <2>1
  <2> QED BY <1>2, <1>3, <2>2, <2>3
<1>5. h[u] # NoBucket /\ Available(h, u) = h[u] BY <1>1, <1>4 DEF NoBucket, Available
<1>6. ASSUME NEW x \in Users
      PROVE  /\ h[x] \in BucketTokens /\ (h[x] = NoBucket => p[x] = 0)
             /\ p[x] + Available(h, x) <= limit
  <2>1. CASE x = u BY <1>4, <1>5, <2>1 DEF BucketTokens
  <2>2. CASE x # u BY <1>1, <1>3, <2>2 DEF Available
  <2> QED BY <2>1, <2>2
<1>7. h \in [Users -> BucketTokens] BY <1>3, <1>6
<1> QED BY <1>1, <1>3, <1>6, <1>7 DEF LimitedTo, h, p, left, limit

LEMMA LimiterInitial ==
    ASSUME RateLimiterInit PROVE LimiterInv
<1>1. token_max_balance \in Nat /\ tokens_per_second \in Nat BY RateLimiterAssumption
<1>2. (0 - 0) * tokens_per_second = 0 BY <1>1
<1> QED BY <1>1, <1>2 DEF RateLimiterInit, LimiterInv, LimitedTo, BucketTokens, Available

LEMMA LimiterStep ==
    ASSUME LimiterInv, [RateLimiterNext]_rateLimiterVars PROVE LimiterInv'
<1>0. /\ clock \in Nat /\ last_refill_time \in Nat /\ started \in Nat
      /\ started <= last_refill_time /\ last_refill_time <= clock
      /\ LimitedTo(user_tokens, spent, last_refill_time)
      /\ token_max_balance \in Nat /\ tokens_per_second \in Nat /\ spent \in [Users -> Nat]
  BY RateLimiterAssumption DEF LimiterInv, LimitedTo
<1>1. ASSUME RateLimiter_initialize PROVE LimiterInv'
  <2>1. (clock - clock) * tokens_per_second = 0 BY <1>0
  <2> QED BY <1>0, <1>1, <2>1
          DEF RateLimiter_initialize, LimiterInv, LimitedTo, BucketTokens, Available
<1>2. ASSUME Tick PROVE LimiterInv'
  <2>1. /\ clock' = clock + 1
        /\ UNCHANGED <<last_refill_time, user_tokens, started, spent>>
    BY <1>2 DEF Tick
  <2>2. LimitedTo(user_tokens, spent, last_refill_time)' BY <1>0, <2>1 DEF LimitedTo, Available
  <2> QED BY <1>0, <2>1, <2>2 DEF LimiterInv
<1>3. ASSUME NEW u \in Users, NEW cost \in Costs, try_consume_tokens(u, cost)
      PROVE  LimiterInv'
  <2> DEFINE bucketTokens == IF u \in Whitelist THEN user_tokens ELSE Refilled
             left == Available(bucketTokens, u)
             checked == u \in Whitelist \/ left >= cost_per_request
             isPaid == checked /\ left >= cost
             at == IF u \in Whitelist THEN last_refill_time ELSE clock
             c == IF isPaid THEN cost ELSE 0
  <2>1. /\ user_tokens' = [bucketTokens EXCEPT ![u] = IF isPaid THEN left - cost ELSE left]
        /\ spent' = [spent EXCEPT ![u] = IF isPaid THEN @ + cost ELSE @]
        /\ last_refill_time' = at /\ UNCHANGED <<clock, started>>
    BY <1>3 DEF try_consume_tokens
  <2>2. LimitedTo(bucketTokens, spent, at) BY <1>0, RefillKeepsLimit
  <2>3. left \in Nat
    <3>1. bucketTokens \in [Users -> BucketTokens] BY <2>2 DEF LimitedTo
    <3>2. bucketTokens[u] \in BucketTokens BY <3>1
    <3> QED BY <1>0, <3>2 DEF BucketTokens, Available
  <2>4. at \in Nat /\ started <= at /\ at <= clock BY <1>0
  <2> HIDE DEF bucketTokens, at
  <2>5. c \in Nat /\ c <= left
    <3>1. cost \in Nat BY RateLimiterAssumption
    <3> HIDE DEF left
    <3> QED BY <2>3, <3>1
  <2>6. /\ user_tokens' = [bucketTokens EXCEPT ![u] = left - c]
        /\ spent' = [spent EXCEPT ![u] = @ + c]
    <3>1. (IF isPaid THEN left - cost ELSE left) = left - c BY <2>3
    <3>2. (IF isPaid THEN spent[u] + cost ELSE spent[u]) = spent[u] + c
      <4>1. spent[u] \in Nat BY <1>0
      <4> QED BY <4>1
    <3> QED BY <2>1, <3>1, <3>2
  <2> HIDE DEF c, left
  <2>7. LimitedTo([bucketTokens EXCEPT ![u] = left - c], [spent EXCEPT ![u] = @ + c], at)
    BY <2>2, <2>5, PaymentKeepsLimit DEF left
  <2>8. LimitedTo(user_tokens', spent', at) BY <2>6, <2>7
  <2>9. LimitedTo(user_tokens, spent, last_refill_time)'
    BY <2>1, <2>8 DEF LimitedTo, Available
  <2> QED BY <1>0, <2>1, <2>4, <2>9 DEF LimiterInv
<1>4. ASSUME NEW u \in Users, check_rate_limit(u) PROVE LimiterInv'
  <2> DEFINE left == Available(Refilled, u)
  <2>1. /\ user_tokens' = [Refilled EXCEPT ![u] = left]
        /\ last_refill_time' = clock /\ UNCHANGED <<clock, started, spent>>
    BY <1>4 DEF check_rate_limit
  <2>2. LimitedTo(Refilled, spent, clock) BY RefillKeepsLimit
  <2>3. left \in Nat
    <3>1. Refilled \in [Users -> BucketTokens] BY <2>2 DEF LimitedTo
    <3>2. Refilled[u] \in BucketTokens BY <3>1
    <3> QED BY <1>0, <3>2 DEF BucketTokens, Available
  <2> HIDE DEF left
  <2>4. left - 0 = left /\ spent[u] + 0 = spent[u] /\ spent = [spent EXCEPT ![u] = spent[u]]
    <3>1. spent[u] \in Nat BY <1>0
    <3> QED BY <1>0, <2>3, <3>1
  <2>5. LimitedTo([Refilled EXCEPT ![u] = left - 0], [spent EXCEPT ![u] = @ + 0], clock)
    BY <2>2, <2>3, PaymentKeepsLimit DEF left
  <2>6. LimitedTo(user_tokens', spent', clock) BY <2>1, <2>4, <2>5
  <2>7. LimitedTo(user_tokens, spent, last_refill_time)'
    BY <2>1, <2>6 DEF LimitedTo, Available
  <2> QED BY <1>0, <2>1, <2>7 DEF LimiterInv
<1>5. ASSUME UNCHANGED <<clock, last_refill_time, user_tokens, started, spent>>
      PROVE  LimiterInv'
  BY <1>5 DEF LimiterInv, LimitedTo, Available
<1>6. ASSUME NEW u \in Users, unblock_user(u) PROVE LimiterInv'
  BY <1>5, <1>6 DEF unblock_user
<1>7. ASSUME NEW u \in Users, block_user(u, block_duration) PROVE LimiterInv'
  BY <1>5, <1>7 DEF block_user
<1>8. ASSUME UNCHANGED rateLimiterVars PROVE LimiterInv' BY <1>5, <1>8 DEF rateLimiterVars
<1> QED BY <1>1, <1>2, <1>3, <1>4, <1>6, <1>7, <1>8 DEF RateLimiterNext

LEMMA LimiterThen ==
    ASSUME LimiterInv PROVE SpendingIsLimited
<1> SUFFICES ASSUME NEW u \in Users, user_tokens[u] # NoBucket
             PROVE  /\ user_tokens[u] \in 0 .. token_max_balance
                    /\ spent[u] + user_tokens[u] <= token_max_balance
                          + (last_refill_time - started) * tokens_per_second
  BY DEF SpendingIsLimited
<1>1. user_tokens \in [Users -> BucketTokens] BY DEF LimiterInv, LimitedTo
<1>2. user_tokens[u] \in 0 .. token_max_balance BY <1>1 DEF BucketTokens
<1> QED BY <1>2 DEF LimiterInv, LimitedTo, Available

\* What users spend is limited by a bucket and the flow into it, blocks account for the
\* gas within limits, and answers from the cache are fresh (rate_limiter.js, gas.js,
\* caching.js).
THEOREM LimitsHold == ServicesSpec => []WithinLimits
<1>1. ServicesInit => CacheInv /\ GasInv /\ LimiterInv
  BY CacheInitial, GasInitial, LimiterInitial DEF ServicesInit
<1>2. CacheInv /\ GasInv /\ LimiterInv /\ [ServicesNext]_allVars
         => CacheInv' /\ GasInv' /\ LimiterInv'
  BY LimitsMove, CacheStep, GasStep, LimiterStep
<1>3. CacheInv /\ GasInv /\ LimiterInv => WithinLimits
  BY GasThen, LimiterThen DEF CacheInv, Single, WithinLimits, CacheIsFresh
<1> QED BY <1>1, <1>2, <1>3, PTL DEF ServicesSpec

-----------------------------------------------------------------------------
(* Staking *)

UnstakingRequest == [validator_address : Stakers, amount : Nat, completed : BOOLEAN]

StakingInv ==
    /\ staked_amount \in [Stakers -> Int] /\ total_staked \in Int
    /\ validator_registry \subseteq Stakers /\ undelegated \subseteq Stakers
    /\ unstaking_requests \in Seq(UnstakingRequest)
    /\ DOMAIN stake_requests = Stakers
    /\ StakingBooks

\* The stake of v, and the total, change by d.
StakeMoves(v, d) ==
    /\ v \in Stakers /\ d \in Int
    /\ staked_amount' = [staked_amount EXCEPT ![v] = staked_amount[v] + d]
    /\ total_staked' = total_staked + d

\* Who has the stake that is required is registered, and who is not registered any
\* more, or was not before, has less.
RegistryFollows(v) ==
    /\ validator_registry' \subseteq Stakers /\ undelegated' \subseteq Stakers
    /\ staked_amount'[v] >= validator_requirement => v \in validator_registry'
    /\ v \in validator_registry' \ undelegated' => staked_amount'[v] >= validator_requirement
    /\ \A x \in Stakers \ {v} :
          /\ x \in validator_registry' <=> x \in validator_registry
          /\ x \in undelegated /\ x \in validator_registry => x \in undelegated'

LEMMA StakeBookkeeping ==
    ASSUME StakingInv, NEW v, NEW d, StakeMoves(v, d), RegistryFollows(v)
    PROVE  /\ staked_amount' \in [Stakers -> Int] /\ total_staked' \in Int
           /\ validator_registry' \subseteq Stakers /\ undelegated' \subseteq Stakers
           /\ total_staked' = SumFunctionOnSet(staked_amount', Stakers)
           /\ \A x \in Stakers :
                 /\ staked_amount'[x] >= validator_requirement => x \in validator_registry'
                 /\ x \in validator_registry' \ undelegated'
                       => staked_amount'[x] >= validator_requirement
<1> DEFINE f == staked_amount
           h == staked_amount'
           S == Stakers
<1>1. /\ f \in [S -> Int] /\ total_staked \in Int /\ total_staked = SumFunctionOnSet(f, S)
      /\ v \in S /\ d \in Int /\ total_staked' = total_staked + d
      /\ h = [f EXCEPT ![v] = f[v] + d] /\ IsFiniteSet(S)
      /\ \A x \in S : /\ f[x] >= validator_requirement => x \in validator_registry
                      /\ x \in validator_registry \ undelegated => f[x] >= validator_requirement
  BY StakingAssumption DEF StakingInv, StakingBooks, StakeMoves
<1>2. f[v] + d \in Int /\ f[v] + d - f[v] = d BY <1>1
<1>3. h \in [S -> Int] /\ h[v] = f[v] + d /\ \A x \in S \ {v} : h[x] = f[x] BY <1>1, <1>2
<1> DEFINE n == f[v] + d
<1>9. n \in Int /\ h = [f EXCEPT ![v] = n] /\ n - f[v] = d BY <1>1, <1>2
<1> HIDE DEF f, h, n
<1>4. Grown(f, h, S, n - f[v]) BY <1>1, <1>9, SumUpdate
<1>5. SumFunctionOnSet(h, S) = SumFunctionOnSet(f, S) + d BY <1>4, <1>9 DEF Grown
<1>6. ASSUME NEW x \in S
      PROVE  /\ h[x] >= validator_requirement => x \in validator_registry'
             /\ x \in validator_registry' \ undelegated' => h[x] >= validator_requirement
  <2>1. CASE x = v BY <2>1 DEF RegistryFollows, h
  <2>2. CASE x # v BY <1>1, <1>3, <2>2 DEF RegistryFollows
  <2> QED BY <2>1, <2>2
<1>7. validator_registry' \subseteq S /\ undelegated' \subseteq S BY DEF RegistryFollows
<1>8. total_staked' \in Int /\ total_staked' = SumFunctionOnSet(h, S) BY <1>1, <1>5
<1> QED BY <1>3, <1>6, <1>7, <1>8 DEF h

LEMMA StakingInitial ==
    ASSUME StakingInit PROVE StakingInv
<1>1. SumFunctionOnSet(staked_amount, Stakers) = 0
  <2>1. \A v \in Stakers : staked_amount[v] = 0 BY DEF StakingInit
  <2> QED BY <2>1, StakingAssumption, SumZero
<1> QED BY <1>1, StakingAssumption DEF StakingInit, StakingInv, StakingBooks

LEMMA StakingStep ==
    ASSUME StakingInv, [StakingNext]_stakingVars PROVE StakingInv'
<1>0. /\ staked_amount \in [Stakers -> Int] /\ total_staked \in Int
      /\ validator_registry \subseteq Stakers /\ undelegated \subseteq Stakers
      /\ unstaking_requests \in Seq(UnstakingRequest)
      /\ DOMAIN stake_requests = Stakers
      /\ \A v \in Stakers :
            /\ staked_amount[v] >= validator_requirement => v \in validator_registry
            /\ v \in validator_registry \ undelegated => staked_amount[v] >= validator_requirement
            /\ stake_requests[v] = {i \in DOMAIN unstaking_requests :
                                       /\ unstaking_requests[i].validator_address = v
                                       /\ ~unstaking_requests[i].completed}
      /\ validator_requirement \in Nat \ {0}
  BY StakingAssumption DEF StakingInv, StakingBooks
<1>a. ASSUME NEW v, NEW d, StakeMoves(v, d), RegistryFollows(v),
             UNCHANGED <<unstaking_requests, stake_requests>>
      PROVE  StakingInv'
  BY <1>0, <1>a, StakeBookkeeping DEF StakingInv, StakingBooks
<1>1. ASSUME NEW v \in Stakers, NEW n \in StakeAmounts, stake(v, n) PROVE StakingInv'
  <2>1. n \in Nat /\ StakeMoves(v, n) BY <1>0, <1>1, StakingAssumption DEF stake, StakeMoves
  <2>2. /\ validator_registry' = IF staked_amount'[v] >= validator_requirement
                                 THEN validator_registry \cup {v} ELSE validator_registry
        /\ UNCHANGED <<unstaking_requests, stake_requests, undelegated>>
    BY <1>1 DEF stake
  <2>3. staked_amount'[v] = staked_amount[v] + n /\ staked_amount[v] \in Int
    BY <1>0, <2>1 DEF StakeMoves
  <2>4. RegistryFollows(v) BY <1>0, <2>1, <2>2, <2>3 DEF RegistryFollows
  <2> QED BY <1>a, <2>1, <2>2, <2>4
<1>2. ASSUME NEW v \in Stakers, NEW n \in StakeAmounts, unstake(v, n) PROVE StakingInv'
  <2> DEFINE q == [validator_address |-> v, amount |-> n, completed |-> FALSE]
             m == Len(unstaking_requests)
  <2>1. n \in Nat BY StakingAssumption
  <2>2. /\ staked_amount' = [staked_amount EXCEPT ![v] = @ - n]
        /\ total_staked' = total_staked - n
        /\ validator_registry' = IF staked_amount[v] - n < validator_requirement
                                 THEN validator_registry \ {v} ELSE validator_registry
        /\ undelegated' = undelegated \cap validator_registry'
        /\ unstaking_requests' = Append(unstaking_requests, q)
        /\ stake_requests' = [stake_requests EXCEPT ![v] = @ \cup {m + 1}]
    BY <1>2 DEF unstake, Unregistered
  <2>3. StakeMoves(v, -n)
    <3>1. staked_amount[v] \in Int BY <1>0
    <3>2. staked_amount[v] - n = staked_amount[v] + (-n) /\ -n \in Int
          /\ total_staked - n = total_staked + (-n)
      BY <1>0, <2>1, <3>1
    <3> QED BY <2>2, <3>2 DEF StakeMoves
  <2>4. staked_amount'[v] = staked_amount[v] - n /\ staked_amount[v] \in Int
    BY <1>0, <2>2
  <2>5. RegistryFollows(v) BY <1>0, <2>1, <2>2, <2>4 DEF RegistryFollows
  <2>6. /\ unstaking_requests' \in Seq(UnstakingRequest)
        /\ DOMAIN unstaking_requests' = DOMAIN unstaking_requests \cup {m + 1}
        /\ m + 1 \notin DOMAIN unstaking_requests
        /\ unstaking_requests'[m + 1] = q
        /\ \A i \in DOMAIN unstaking_requests : unstaking_requests'[i] = unstaking_requests[i]
    <3>1. q \in UnstakingRequest BY <2>1 DEF UnstakingRequest
    <3> HIDE DEF q
    <3> QED BY <1>0, <2>2, <3>1
  <2>7. q.validator_address = v /\ ~q.completed OBVIOUS
  <2> HIDE DEF q, m
  <2>8. ASSUME NEW x \in Stakers
        PROVE  stake_requests'[x] = {i \in DOMAIN unstaking_requests' :
                                       /\ unstaking_requests'[i].validator_address = x
                                       /\ ~unstaking_requests'[i].completed}
    <3>1. stake_requests[x] = {i \in DOMAIN unstaking_requests :
                                       /\ unstaking_requests[i].validator_address = x
                                       /\ ~unstaking_requests[i].completed}
      BY <1>0
    <3>2. stake_requests'[x] = stake_requests[x] \cup (IF x = v THEN {m + 1} ELSE {})
      BY <1>0, <2>2
    <3> QED BY <2>6, <2>7, <3>1, <3>2
  <2>9. DOMAIN stake_requests' = Stakers BY <1>0, <2>2
  <2> QED BY <2>3, <2>5, <2>6, <2>8, <2>9, StakeBookkeeping DEF StakingInv, StakingBooks
<1>3. ASSUME NEW v \in Stakers, NEW d \in Delegators, NEW n \in StakeAmounts, delegate(v, d, n)
      PROVE  StakingInv'
  <2>1. n \in Nat /\ StakeMoves(v, n) BY <1>0, <1>3, StakingAssumption DEF delegate, StakeMoves
  <2>2. /\ v \in validator_registry
        /\ UNCHANGED <<validator_registry, unstaking_requests, stake_requests, undelegated>>
    BY <1>3 DEF delegate
  <2>3. staked_amount'[v] = staked_amount[v] + n /\ staked_amount[v] \in Int
    BY <1>0, <2>1 DEF StakeMoves
  <2>4. RegistryFollows(v) BY <1>0, <2>1, <2>2, <2>3 DEF RegistryFollows
  <2> QED BY <1>a, <2>1, <2>2, <2>4
<1>4. ASSUME NEW v \in Stakers, NEW d \in Delegators, NEW n \in StakeAmounts,
             undelegate(v, d, n)
      PROVE  StakingInv'
  <2>1. n \in Nat BY StakingAssumption
  <2>2. /\ staked_amount' = [staked_amount EXCEPT ![v] = @ - n]
        /\ total_staked' = total_staked - n
        /\ undelegated' = IF v \in validator_registry THEN undelegated \cup {v} ELSE undelegated
        /\ UNCHANGED <<validator_registry, unstaking_requests, stake_requests>>
    BY <1>4 DEF undelegate
  <2>3. StakeMoves(v, -n)
    <3>1. staked_amount[v] \in Int BY <1>0
    <3>2. staked_amount[v] - n = staked_amount[v] + (-n) /\ -n \in Int
          /\ total_staked - n = total_staked + (-n)
      BY <1>0, <2>1, <3>1
    <3> QED BY <2>2, <3>2 DEF StakeMoves
  <2>4. staked_amount'[v] = staked_amount[v] - n /\ staked_amount[v] \in Int
    BY <1>0, <2>2
  <2>5. RegistryFollows(v) BY <1>0, <2>1, <2>2, <2>4 DEF RegistryFollows
  <2> QED BY <1>a, <2>2, <2>3, <2>5
<1>5. ASSUME NEW n \in DOMAIN unstaking_requests, process_unstaking_requests(n)
      PROVE  StakingInv'
  <2>1. /\ unstaking_requests' = [i \in DOMAIN unstaking_requests |->
               [unstaking_requests[i] EXCEPT !.completed = @ \/ i <= n]]
        /\ stake_requests' = [v \in Stakers |-> {i \in stake_requests[v] : i > n}]
        /\ UNCHANGED <<staked_amount, total_staked, validator_registry, undelegated>>
    BY <1>5 DEF process_unstaking_requests
  <2>2. /\ DOMAIN unstaking_requests = 1 .. Len(unstaking_requests)
        /\ Len(unstaking_requests) \in Nat
        /\ \A i \in DOMAIN unstaking_requests : unstaking_requests[i] \in UnstakingRequest
    BY <1>0
  <2>3. ASSUME NEW i \in DOMAIN unstaking_requests
        PROVE  /\ unstaking_requests'[i] \in UnstakingRequest
               /\ unstaking_requests'[i].validator_address
                     = unstaking_requests[i].validator_address
               /\ unstaking_requests'[i].completed
                     <=> (unstaking_requests[i].completed \/ i <= n)
    <3> DEFINE r == unstaking_requests[i]
    <3>1. r \in UnstakingRequest BY <2>2
    <3>2. unstaking_requests'[i] = [r EXCEPT !.completed = @ \/ i <= n] BY <2>1
    <3> HIDE DEF r
    <3>3. (r.completed \/ i <= n) \in BOOLEAN BY <3>1 DEF UnstakingRequest
    <3> QED BY <3>1, <3>2, <3>3 DEF UnstakingRequest, r
  <2>4. /\ DOMAIN unstaking_requests' = DOMAIN unstaking_requests
        /\ unstaking_requests' \in Seq(UnstakingRequest)
    <3> DEFINE m == Len(unstaking_requests)
    <3>1. /\ DOMAIN unstaking_requests' = DOMAIN unstaking_requests
          /\ unstaking_requests' = [i \in 1 .. m |-> unstaking_requests'[i]]
          /\ DOMAIN unstaking_requests = 1 .. m /\ m \in Nat
      BY <2>1, <2>2
    <3> HIDE DEF m
    <3>2. unstaking_requests' \in [1 .. m -> UnstakingRequest] BY <2>3, <3>1
    <3> QED BY <3>1, <3>2
  <2>5. ASSUME NEW x \in Stakers
        PROVE  stake_requests'[x] = {i \in DOMAIN unstaking_requests' :
                                       /\ unstaking_requests'[i].validator_address = x
                                       /\ ~unstaking_requests'[i].completed}
    <3>1. stake_requests[x] = {i \in DOMAIN unstaking_requests :
                                       /\ unstaking_requests[i].validator_address = x
                                       /\ ~unstaking_requests[i].completed}
      BY <1>0
    <3>2. stake_requests'[x] = {i \in stake_requests[x] : i > n} BY <2>1
    <3>3. \A i \in DOMAIN unstaking_requests : i > n <=> ~(i <= n) BY <2>2
    <3> QED BY <2>3, <2>4, <3>1, <3>2, <3>3
  <2> QED BY <1>0, <2>1, <2>4, <2>5 DEF StakingInv, StakingBooks
<1>6. ASSUME UNCHANGED stakingVars PROVE StakingInv'
  BY <1>6 DEF stakingVars, StakingInv, StakingBooks
<1> QED BY <1>1, <1>2, <1>3, <1>4, <1>5, <1>6 DEF StakingNext

-----------------------------------------------------------------------------
(* Tokens *)

\* Balances that add up to n.
TokensOf(f, n) ==
    f \in [Holders -> Nat] /\ n \in Nat /\ SumFunctionOnSet(f, Holders) = n

LEMMA MovedTokens ==
    ASSUME NEW f, NEW n, TokensOf(f, n), NEW from \in Holders, NEW to \in Holders, NEW k \in Nat,
           k <= f[from]
    PROVE  TokensOf(Moved(f, from, to, k), n)
<1> DEFINE h == Moved(f, from, to, k)
<1>1. f \in [Holders -> Nat] /\ n \in Nat /\ SumFunctionOnSet(f, Holders) = n BY DEF TokensOf
<1>2. h \in [Holders -> Nat]
  <2>1. f[from] \in Nat /\ f[to] \in Nat /\ f[from] - k \in Nat BY <1>1
  <2>2. ASSUME NEW z \in Holders PROVE h[z] \in Nat
    <3>1. CASE z = to /\ to = from BY <1>1, <2>1, <3>1 DEF Moved
    <3>2. CASE z = to /\ to # from BY <1>1, <2>1, <3>2 DEF Moved
    <3>3. CASE z # to /\ z = from BY <1>1, <2>1, <3>3 DEF Moved
    <3>4. CASE z # to /\ z # from BY <1>1, <3>4 DEF Moved
    <3> QED BY <3>1, <3>2, <3>3, <3>4
  <2>3. h = [z \in Holders |-> h[z]] BY <1>1 DEF Moved
  <2> HIDE DEF h
  <2> QED BY <2>2, <2>3
<1>3. Grown(f, h, Holders, 0)
  <2>1. f \in [Holders -> Int] /\ k \in Int /\ IsFiniteSet(Holders) BY <1>1, TokensAssumption
  <2>2. h = [[f EXCEPT ![from] = @ - k] EXCEPT ![to] = @ + k] BY DEF Moved
  <2> HIDE DEF h
  <2> QED BY <2>1, <2>2, SumMove
<1>4. SumFunctionOnSet(h, Holders) = n BY <1>1, <1>3 DEF Grown
<1> QED BY <1>1, <1>2, <1>4 DEF TokensOf

LEMMA GivenTokens ==
    ASSUME NEW f, NEW n, TokensOf(f, n), NEW a \in Holders, NEW k \in Nat
    PROVE  TokensOf([f EXCEPT ![a] = @ + k], n + k)
<1> DEFINE h == [f EXCEPT ![a] = @ + k]
<1>1. /\ f \in [Holders -> Nat] /\ n \in Nat /\ SumFunctionOnSet(f, Holders) = n
      /\ f \in [Holders -> Int] /\ IsFiniteSet(Holders)
  BY TokensAssumption DEF TokensOf
<1>2. h \in [Holders -> Nat]
  <2>1. f[a] + k \in Nat BY <1>1
  <2> QED BY <1>1, <2>1
<1>3. Grown(f, h, Holders, k)
  <2> DEFINE v == f[a] + k
  <2>1. v \in Int /\ h = [f EXCEPT ![a] = v] /\ v - f[a] = k
    <3>1. f[a] \in Int BY <1>1
    <3> QED BY <1>1, <3>1
  <2> HIDE DEF v, h
  <2>2. Grown(f, h, Holders, v - f[a]) BY <1>1, <2>1, SumUpdate
  <2> QED BY <2>1, <2>2
<1>4. SumFunctionOnSet(h, Holders) = n + k BY <1>1, <1>3 DEF Grown
<1> QED BY <1>1, <1>2, <1>4 DEF TokensOf

TokensInv ==
    /\ given \in [erc20 : Nat, erc1155 : [TokenIds -> Nat]]
    /\ TokensOf(erc20, given.erc20)
    /\ erc1155 = [t \in TokenIds |-> erc1155[t]]
    /\ \A t \in TokenIds : TokensOf(erc1155[t], given.erc1155[t])

\* One token's balances change, and what was given of it.
LEMMA TokenWritten ==
    ASSUME TokensInv, NEW t \in TokenIds, NEW h, NEW n, TokensOf(h, n),
           erc1155' = [erc1155 EXCEPT ![t] = h], erc20' = erc20,
           given' = [given EXCEPT !.erc1155 = [given.erc1155 EXCEPT ![t] = n]]
    PROVE  TokensInv'
<1>1. n \in Nat BY DEF TokensOf
<1>2. /\ given \in [erc20 : Nat, erc1155 : [TokenIds -> Nat]]
      /\ erc1155 = [x \in TokenIds |-> erc1155[x]]
      /\ TokensOf(erc20, given.erc20)
      /\ \A x \in TokenIds : TokensOf(erc1155[x], given.erc1155[x])
  BY DEF TokensInv
<1>3. /\ given' \in [erc20 : Nat, erc1155 : [TokenIds -> Nat]]
      /\ given'.erc20 = given.erc20
      /\ \A x \in TokenIds : given'.erc1155[x] = IF x = t THEN n ELSE given.erc1155[x]
  BY <1>1, <1>2
<1>4. /\ DOMAIN erc1155 = TokenIds
      /\ erc1155' = [x \in TokenIds |-> IF x = t THEN h ELSE erc1155[x]]
  BY <1>2
<1>5. erc1155' = [x \in TokenIds |-> erc1155'[x]] BY <1>4
<1>6. ASSUME NEW x \in TokenIds PROVE TokensOf(erc1155'[x], given'.erc1155[x])
  BY <1>2, <1>3, <1>4
<1>7. TokensOf(erc20', given'.erc20) BY <1>2, <1>3
<1> QED BY <1>3, <1>5, <1>6, <1>7 DEF TokensInv, TokensOf

LEMMA TokensInitial ==
    ASSUME TokensInit PROVE TokensInv
<1> DEFINE none == [a \in Holders |-> 0]
<1>1. TokensOf(none, 0)
  <2>1. \A a \in Holders : none[a] = 0 OBVIOUS
  <2>2. none \in [Holders -> Nat] OBVIOUS
  <2> HIDE DEF none
  <2>3. SumFunctionOnSet(none, Holders) = 0 BY <2>1, TokensAssumption, SumZero
  <2> QED BY <2>2, <2>3 DEF TokensOf
<1>2. /\ erc20 = none /\ erc1155 = [t \in TokenIds |-> none]
      /\ given = [erc20 |-> 0, erc1155 |-> [t \in TokenIds |-> 0]]
  BY DEF TokensInit
<1> HIDE DEF none
<1> QED BY <1>1, <1>2 DEF TokensInv

LEMMA TokensStep ==
    ASSUME TokensInv, [TokensNext]_tokenVars PROVE TokensInv'
<1>0. /\ given \in [erc20 : Nat, erc1155 : [TokenIds -> Nat]]
      /\ TokensOf(erc20, given.erc20) /\ DOMAIN erc1155 = TokenIds
      /\ erc1155 = [t \in TokenIds |-> erc1155[t]]
      /\ \A t \in TokenIds : TokensOf(erc1155[t], given.erc1155[t])
      /\ Values \subseteq Nat /\ Sender \in Holders
  BY TokensAssumption DEF TokensInv
<1>a. ASSUME TokensOf(erc20, given.erc20)', UNCHANGED erc1155,
             given' \in [erc20 : Nat, erc1155 : [TokenIds -> Nat]],
             given'.erc1155 = given.erc1155
      PROVE  TokensInv'
  <2>1. \A t \in TokenIds : TokensOf(erc1155[t], given.erc1155[t])'
    BY <1>0, <1>a DEF TokensOf
  <2>2. (erc1155 = [t \in TokenIds |-> erc1155[t]])' BY <1>0, <1>a
  <2> QED BY <1>a, <2>1, <2>2 DEF TokensInv
<1>b. ASSUME NEW t \in TokenIds, given' = given
      PROVE  given' = [given EXCEPT !.erc1155 = [given.erc1155 EXCEPT ![t] = given.erc1155[t]]]
  BY <1>0, <1>b
<1>1. ASSUME NEW a \in Holders, NEW n \in Values, Give(a, n) PROVE TokensInv'
  <2>1. /\ erc20' = [erc20 EXCEPT ![a] = @ + n] /\ given' = [given EXCEPT !.erc20 = @ + n]
        /\ UNCHANGED erc1155 /\ n \in Nat
    BY <1>0, <1>1 DEF Give
  <2>2. TokensOf([erc20 EXCEPT ![a] = @ + n], given.erc20 + n) BY <1>0, <2>1, GivenTokens
  <2>3. /\ given' \in [erc20 : Nat, erc1155 : [TokenIds -> Nat]]
        /\ given'.erc20 = given.erc20 + n /\ given'.erc1155 = given.erc1155
    BY <1>0, <2>1
  <2>4. TokensOf(erc20', given'.erc20) BY <2>1, <2>2, <2>3
  <2> QED BY <1>a, <2>1, <2>3, <2>4 DEF TokensOf
<1>2. ASSUME NEW to \in Holders, NEW from \in Holders, NEW n \in Values, n <= erc20[from],
             erc20' = Moved(erc20, from, to, n), UNCHANGED <<erc1155, given>>
      PROVE  TokensInv'
  <2>1. TokensOf(Moved(erc20, from, to, n), given.erc20) BY <1>0, <1>2, MovedTokens
  <2>2. TokensOf(erc20', given'.erc20) BY <1>2, <2>1
  <2> QED BY <1>0, <1>a, <1>2, <2>2 DEF TokensOf
<1>3. ASSUME NEW to \in Holders, NEW n \in Values, transfer(to, n) PROVE TokensInv'
  BY <1>0, <1>2, <1>3 DEF transfer
<1>4. ASSUME NEW to \in Holders, NEW from \in Holders, NEW n \in Values,
             transferFrom(from, to, n)
      PROVE  TokensInv'
  BY <1>2, <1>4 DEF transferFrom
<1>5. ASSUME UNCHANGED <<erc20, erc1155, given>> PROVE TokensInv'
  BY <1>5 DEF TokensInv, TokensOf
<1>6. ASSUME NEW t \in TokenIds, NEW a \in Holders, NEW n \in Values, GiveToken(a, t, n)
      PROVE  TokensInv'
  <2> DEFINE h == [erc1155[t] EXCEPT ![a] = @ + n]
             m == given.erc1155[t] + n
  <2>1. /\ erc1155' = [erc1155 EXCEPT ![t] = h] /\ erc20' = erc20
        /\ given' = [given EXCEPT !.erc1155 = [given.erc1155 EXCEPT ![t] = m]]
    BY <1>0, <1>6 DEF GiveToken
  <2>2. TokensOf(h, m) BY <1>0, GivenTokens
  <2> HIDE DEF h, m
  <2> QED BY <2>1, <2>2, TokenWritten
<1>7. ASSUME NEW t \in TokenIds, NEW from \in Holders, NEW to \in Holders, NEW n \in Values,
             safeTransferFrom(from, to, t, n)
      PROVE  TokensInv'
  <2> DEFINE h == Moved(erc1155[t], from, to, n)
             m == given.erc1155[t]
  <2>1. /\ erc1155' = [erc1155 EXCEPT ![t] = h] /\ UNCHANGED <<erc20, given>>
        /\ n <= erc1155[t][from]
    BY <1>0, <1>7 DEF safeTransferFrom
  <2>2. TokensOf(h, m) BY <1>0, <2>1, MovedTokens
  <2>3. given' = [given EXCEPT !.erc1155 = [given.erc1155 EXCEPT ![t] = m]] BY <1>b, <2>1
  <2> HIDE DEF h, m
  <2> QED BY <2>1, <2>2, <2>3, TokenWritten
<1>8. ASSUME NEW t \in TokenIds, NEW s \in TokenIds, NEW from \in Holders, NEW to \in Holders,
             NEW n \in Values, safeBatchTransferFrom(from, to, <<t, s>>, n)
      PROVE  TokensInv'
  <2> DEFINE h == Moved(erc1155[t], from, to, n)
             first == [erc1155 EXCEPT ![t] = h]
             k == Moved(first[s], from, to, n)
  <2>1. /\ erc1155' = IF n > first[s][from] THEN first ELSE [first EXCEPT ![s] = k]
        /\ UNCHANGED <<erc20, given>> /\ n <= erc1155[t][from]
    BY <1>0, <1>8 DEF safeBatchTransferFrom
  <2>2. TokensOf(h, given.erc1155[t]) BY <1>0, <2>1, MovedTokens
  <2>3. /\ first = [x \in TokenIds |-> IF x = t THEN h ELSE erc1155[x]]
        /\ DOMAIN first = TokenIds
    BY <1>0
  <2>4. \A x \in TokenIds : TokensOf(first[x], given.erc1155[x]) BY <1>0, <2>2, <2>3
  <2> HIDE DEF h, first
  <2>5. ASSUME n <= first[s][from] PROVE TokensOf(k, given.erc1155[s])
    BY <1>0, <2>4, <2>5, MovedTokens
  <2>6. n > first[s][from] \/ n <= first[s][from]
    <3>1. first[s] \in [Holders -> Nat] BY <2>4 DEF TokensOf
    <3>2. first[s][from] \in Nat /\ n \in Nat BY <1>0, <3>1
    <3> QED BY <3>2
  <2> HIDE DEF k
  <2>7. /\ erc1155' = [x \in TokenIds |-> erc1155'[x]]
        /\ \A x \in TokenIds : TokensOf(erc1155'[x], given.erc1155[x])
    <3>1. CASE n > first[s][from] BY <2>1, <2>3, <2>4, <3>1
    <3>2. CASE ~(n > first[s][from])
      <4>1. erc1155' = [x \in TokenIds |-> IF x = s THEN k ELSE first[x]]
        BY <2>1, <2>3, <3>2
      <4>2. TokensOf(k, given.erc1155[s]) BY <2>5, <2>6, <3>2
      <4> QED BY <2>4, <4>1, <4>2
    <3> QED BY <3>1, <3>2
  <2> QED BY <1>0, <2>1, <2>7 DEF TokensInv, TokensOf
<1>9. ASSUME NEW t \in TokenIds, NEW from \in Holders, NEW to \in Holders,
             transferToken(from, to, t)
      PROVE  TokensInv'
  BY <1>5, <1>9 DEF transferToken
<1>10. ASSUME NEW to \in Holders, NEW n \in Values, approve(to, n) PROVE TokensInv'
  BY <1>5, <1>10 DEF approve
<1>11. ASSUME UNCHANGED tokenVars PROVE TokensInv' BY <1>5, <1>11 DEF tokenVars
<1> QED BY <1>1, <1>3, <1>4, <1>6, <1>7, <1>8, <1>9, <1>10, <1>11 DEF TokensNext

LEMMA TokensThen ==
    ASSUME TokensInv PROVE TokensConserved
<1>1. ASSUME NEW a \in Holders
      PROVE  erc20[a] >= 0 /\ \A t \in TokenIds : erc1155[t][a] >= 0
  <2>1. erc20[a] \in Nat BY DEF TokensInv, TokensOf
  <2>2. ASSUME NEW t \in TokenIds PROVE erc1155[t][a] >= 0
    <3>1. erc1155[t] \in [Holders -> Nat] BY DEF TokensInv, TokensOf
    <3>2. erc1155[t][a] \in Nat BY <3>1
    <3> QED BY <3>2
  <2> QED BY <2>1, <2>2
<1> QED BY <1>1 DEF TokensInv, TokensOf, TokensConserved

-----------------------------------------------------------------------------
(* Supply *)

SupplyInv ==
    /\ totalSupply \in Nat /\ circulatingSupply \in Nat /\ stakingRewardsPool \in Nat
    /\ treasury \in Nat /\ burned \in Nat
    /\ supplyBlock \in Nat
    /\ distribution_lockup \in {NoLockup} \cup [start : Nat, end : Nat]
    /\ circulatingSupply <= totalSupply /\ totalSupply + burned = InitialSupply
    /\ stakingRewardsPool + treasury <= circulatingSupply + burned

LEMMA SupplyInitial ==
    ASSUME SupplyInit PROVE SupplyInv
BY SupplyAssumption DEF SupplyInit, SupplyInv

LEMMA SupplyStep ==
    ASSUME SupplyInv, [SupplyNext]_supplyVars PROVE SupplyInv'
<1>0. TokenSums \subseteq Nat /\ LockupBlocks \subseteq Nat /\ InitialSupply \in Nat
  BY SupplyAssumption
<1>1. ASSUME NEW amount \in TokenSums,
             NEW d \in {"circulating", "staking_rewards", "treasury", "reserved"},
             mintTokens(amount, d)
      PROVE  SupplyInv'
  BY <1>0, <1>1 DEF mintTokens, SupplyInv
<1>2. ASSUME NEW amount \in TokenSums, burnTokens(amount) PROVE SupplyInv'
  BY <1>0, <1>2 DEF burnTokens, SupplyAfterBurn, SupplyInv
<1>3. ASSUME NEW amount \in TokenSums, distributeStakingRewards(amount) PROVE SupplyInv'
  BY <1>0, <1>3 DEF distributeStakingRewards, SupplyInv
<1>4. ASSUME NEW first \in LockupBlocks, NEW end \in LockupBlocks,
             set_distribution_lockup(first, end)
      PROVE  SupplyInv'
  BY <1>0, <1>4 DEF set_distribution_lockup, tokenomicsVars, SupplyInv
<1>5. ASSUME NextSupplyBlock PROVE SupplyInv'
  BY <1>5 DEF NextSupplyBlock, tokenomicsVars, SupplyInv
<1>6. ASSUME UNCHANGED supplyVars PROVE SupplyInv' BY <1>6 DEF supplyVars, SupplyInv
<1> QED BY <1>1, <1>2, <1>3, <1>4, <1>5, <1>6 DEF SupplyNext

\* More is released at each block, up to the amount.
LEMMA LockupReleases ==
    ASSUME SupplyInv, NEW amount \in Nat
    PROVE  LET now == calculate_distribution_lockup(amount, supplyBlock)
               later == calculate_distribution_lockup(amount, supplyBlock + 1)
           IN  now.part * later.of <= later.part * now.of /\ later.part <= amount * later.of
<1> DEFINE b == supplyBlock
           s == distribution_lockup.start
           e == distribution_lockup.end
           Part1(n) == IF distribution_lockup = NoLockup THEN amount
                       ELSE IF n < s THEN 0 ELSE IF n >= e THEN amount ELSE amount * (n - s)
           Of(n) == IF distribution_lockup = NoLockup \/ n < s \/ n >= e THEN 1 ELSE e - s
<1>0. b \in Nat BY DEF SupplyInv
<1>1. \A n \in Nat : calculate_distribution_lockup(amount, n) = [part |-> Part1(n), of |-> Of(n)]
  BY DEF calculate_distribution_lockup
<1>2. CASE distribution_lockup = NoLockup
  <2>1. Part1(b) = amount /\ Part1(b + 1) = amount /\ Of(b) = 1 /\ Of(b + 1) = 1 BY <1>2
  <2> HIDE DEF Part1, Of
  <2> QED BY <1>0, <1>1, <2>1
<1>3. CASE distribution_lockup # NoLockup
  <2>1. s \in Nat /\ e \in Nat BY <1>3 DEF SupplyInv
  <2>2. \A n \in Nat :
           /\ Part1(n) = IF n < s THEN 0 ELSE IF n >= e THEN amount ELSE amount * (n - s)
           /\ Of(n) = IF n < s \/ n >= e THEN 1 ELSE e - s
    BY <1>3
  <2> HIDE DEF s, e, b, Part1, Of
  <2>3. Part1(b) * Of(b + 1) <= Part1(b + 1) * Of(b) /\ Part1(b + 1) <= amount * Of(b + 1)
    <3>0. b + 1 \in Nat BY <1>0
    <3>1. CASE b < s
      <4>1. Part1(b) = 0 /\ Of(b) = 1 BY <1>0, <2>2, <3>1
      <4>2. CASE b + 1 < s
        BY <1>0, <2>1, <2>2, <3>0, <4>1, <4>2
      <4>3. CASE ~(b + 1 < s) /\ b + 1 >= e
        BY <1>0, <2>1, <2>2, <3>0, <4>1, <4>3
      <4>4. CASE ~(b + 1 < s) /\ ~(b + 1 >= e)
        <5>1. b + 1 = s /\ e - s \in Nat BY <1>0, <2>1, <3>1, <4>4
        <5>2. Part1(b + 1) = amount * 0 /\ Of(b + 1) = e - s BY <2>1, <2>2, <3>0, <4>4, <5>1
        <5>3. amount * 0 = 0 /\ 0 * (e - s) = 0 /\ amount * (e - s) \in Nat BY <5>1
        <5> QED BY <4>1, <5>2, <5>3
      <4> QED BY <4>2, <4>3, <4>4
    <3>2. CASE ~(b < s) /\ b >= e
      BY <1>0, <2>1, <2>2, <3>0, <3>2
    <3>3. CASE ~(b < s) /\ ~(b >= e)
      <4> DEFINE x == b - s
                 y == e - s
      <4>1. Part1(b) = amount * x /\ Of(b) = y BY <1>0, <2>2, <3>3
      <4>2. x \in Nat /\ y \in Nat /\ x + 1 <= y /\ b + 1 - s = x + 1 BY <1>0, <2>1, <3>3
      <4>3. ~(b + 1 < s) BY <1>0, <2>1, <3>3
      <4>4. Part1(b + 1) = IF b + 1 >= e THEN amount ELSE amount * (x + 1)
        <5>1. Part1(b + 1) = IF b + 1 >= e THEN amount ELSE amount * (b + 1 - s)
          BY <1>0, <2>1, <2>2, <3>0, <4>3
        <5> QED BY <4>2, <5>1
      <4>5. Of(b + 1) = IF b + 1 >= e THEN 1 ELSE y BY <2>2, <3>0, <4>3
      <4> HIDE DEF x, y
      <4>6. amount * x \in Nat /\ amount * x <= amount * (x + 1) /\ amount * (x + 1) <= amount * y
            /\ amount * (x + 1) \in Nat /\ amount * y \in Nat
        BY <4>2
      <4>7. CASE b + 1 >= e
        BY <4>1, <4>2, <4>4, <4>5, <4>6, <4>7
      <4>8. CASE ~(b + 1 >= e)
        <5> DEFINE p == amount * x
                   q == amount * (x + 1)
        <5>1. p \in Nat /\ q \in Nat /\ p <= q BY <4>6
        <5> HIDE DEF p, q
        <5>2. p * y <= q * y BY <4>2, <5>1
        <5> QED BY <4>1, <4>4, <4>5, <4>6, <4>8, <5>2 DEF p, q
      <4> QED BY <4>7, <4>8
    <3> QED BY <3>1, <3>2, <3>3
  <2> QED BY <1>0, <1>1, <2>3 DEF b
<1> QED BY <1>2, <1>3

LEMMA SupplyThen ==
    ASSUME SupplyInv PROVE SupplyCovered
BY LockupReleases DEF SupplyInv, SupplyCovered

-----------------------------------------------------------------------------
(* Fees *)

\* The sum over the four categories.
LEMMA CategorySum ==
    ASSUME NEW f \in [Categories -> Int]
    PROVE  /\ SumFunction(f) = f["validators"] + f["treasury"] + f["development"] + f["community"]
           /\ SumFunction(f) \in Int
<1> DEFINE S == Categories
           z == [c \in S |-> 0]
           h1 == [z EXCEPT !["validators"] = f["validators"]]
           h2 == [h1 EXCEPT !["treasury"] = f["treasury"]]
           h3 == [h2 EXCEPT !["development"] = f["development"]]
           h4 == [h3 EXCEPT !["community"] = f["community"]]
<1>1. IsFiniteSet(S)
  <2>1. S = {"validators"} \cup {"treasury"} \cup {"development"} \cup {"community"}
    BY DEF Categories
  <2> QED BY <2>1, FS_Singleton, FS_Union
<1>2. /\ z \in [S -> Int] /\ h1 \in [S -> Int] /\ h2 \in [S -> Int] /\ h3 \in [S -> Int]
      /\ z["validators"] = 0 /\ h1["treasury"] = 0 /\ h2["development"] = 0
      /\ h3["community"] = 0
  BY DEF Categories
<1>3. h4 = f
  <2>1. h4 \in [S -> Int] BY DEF Categories
  <2>2. \A c \in S : h4[c] = f[c] BY DEF Categories
  <2> HIDE DEF h4
  <2> QED BY <2>1, <2>2
<1>4. SumFunctionOnSet(z, S) = 0
  <2>1. \A c \in S : z[c] = 0 OBVIOUS
  <2> HIDE DEF z
  <2> QED BY <1>1, <2>1, SumZero
<1>5. /\ "validators" \in S /\ "treasury" \in S /\ "development" \in S /\ "community" \in S
      /\ f["validators"] \in Int /\ f["treasury"] \in Int /\ f["development"] \in Int
      /\ f["community"] \in Int
  BY DEF Categories
<1>6. h1 = [z EXCEPT !["validators"] = f["validators"]] OBVIOUS
<1>7. h2 = [h1 EXCEPT !["treasury"] = f["treasury"]] OBVIOUS
<1>8. h3 = [h2 EXCEPT !["development"] = f["development"]] OBVIOUS
<1>9. h4 = [h3 EXCEPT !["community"] = f["community"]] OBVIOUS
<1> HIDE DEF z, h1, h2, h3, h4, S
<1>10. /\ Grown(z, h1, S, f["validators"] - z["validators"])
       /\ Grown(h1, h2, S, f["treasury"] - h1["treasury"])
       /\ Grown(h2, h3, S, f["development"] - h2["development"])
       /\ Grown(h3, h4, S, f["community"] - h3["community"])
  BY <1>1, <1>2, <1>5, <1>6, <1>7, <1>8, <1>9, SumUpdate
<1>11. /\ SumFunctionOnSet(h1, S) = 0 + (f["validators"] - 0)
       /\ SumFunctionOnSet(h2, S) = SumFunctionOnSet(h1, S) + (f["treasury"] - 0)
       /\ SumFunctionOnSet(h3, S) = SumFunctionOnSet(h2, S) + (f["development"] - 0)
       /\ SumFunctionOnSet(h4, S) = SumFunctionOnSet(h3, S) + (f["community"] - 0)
  BY <1>2, <1>4, <1>10 DEF Grown
<1>12. SumFunctionOnSet(f, S)
          = f["validators"] + f["treasury"] + f["development"] + f["community"]
  BY <1>3, <1>5, <1>11
<1>13. SumFunction(f) = SumFunctionOnSet(f, S) BY DEF SumFunction, S
<1> QED BY <1>5, <1>12, <1>13

FeesInv ==
    /\ fee_distribution \in [Categories -> Nat]
    /\ accumulated_fees \in [Categories -> Nat]
    /\ validator_rewards \in [Rewarded -> Nat]
    /\ collected \in Nat /\ distributed \in Nat /\ most \in Nat
    /\ SumFunction(fee_distribution) <= most
    /\ 100 * (SumFunction(accumulated_fees) + distributed) <= most * collected
    /\ SumFunction(validator_rewards) <= accumulated_fees["validators"]

\* A larger sum of hundredths of the same amount is no less.
LEMMA ShareGrows ==
    ASSUME NEW x \in Nat, NEW k \in Nat, NEW m \in Nat, k <= m
    PROVE  x * k <= x * m
<1> DEFINE j == m - k
<1>1. j \in Nat /\ m = k + j OBVIOUS
<1> HIDE DEF j
<1>2. x * (k + j) = x * k + x * j BY <1>1
<1>3. x * j \in Nat /\ x * k \in Nat BY <1>1
<1> QED BY <1>1, <1>2, <1>3

\* The parts of a fee come to no more than the sum of the hundredths says.
LEMMA PartsOfFee ==
    ASSUME NEW a \in Nat, NEW b \in Nat, NEW c \in Nat, NEW d \in Nat, NEW fee \in Nat,
           NEW m \in Nat, a + b + c + d <= m
    PROVE  100 * ((fee * a) \div 100 + (fee * b) \div 100 + (fee * c) \div 100 + (fee * d) \div 100)
              <= fee * m
<1>1. /\ fee * a \in Nat /\ fee * b \in Nat /\ fee * c \in Nat /\ fee * d \in Nat
      /\ fee * a + fee * b + fee * c + fee * d <= fee * m
  <2>1. /\ fee * a \in Nat /\ fee * b \in Nat /\ fee * c \in Nat /\ fee * d \in Nat OBVIOUS
  <2>2. fee * a + fee * b + fee * c + fee * d = fee * (a + b + c + d) OBVIOUS
  <2> DEFINE k == a + b + c + d
  <2>3. k \in Nat /\ k <= m OBVIOUS
  <2> HIDE DEF k
  <2>4. fee * k <= fee * m BY <2>3, ShareGrows
  <2> QED BY <2>1, <2>2, <2>4 DEF k
<1> DEFINE p == fee * a
           q == fee * b
           r == fee * c
           s == fee * d
           t == fee * m
<1>2. /\ p \in Nat /\ q \in Nat /\ r \in Nat /\ s \in Nat /\ t \in Nat
      /\ p + q + r + s <= t
  BY <1>1
<1> HIDE DEF p, q, r, s, t
<1>3. 100 * (p \div 100 + q \div 100 + r \div 100 + s \div 100) <= t BY <1>2
<1> QED BY <1>3 DEF p, q, r, s, t

\* A part is a natural number no larger than the exact one, also when the product
\* falls short.
LEMMA PartType ==
    ASSUME FeesInv, NEW fee \in Nat, fee > 0, NEW short \in SUBSET MayFallShort(fee),
           NEW c \in Categories
    PROVE  /\ FeePart(fee, short, c) \in Nat /\ Part(fee, c) \in Nat
           /\ FeePart(fee, short, c) <= Part(fee, c)
<1> DEFINE d == fee_distribution[c]
           x == fee * d
<1>1. d \in Nat BY DEF FeesInv
<1>2. x \in Nat BY <1>1
<1>3. Part(fee, c) = x \div 100 BY DEF Part
<1>4. CASE c \in short
  <2>1. d % 100 # 0 /\ x % 100 = 0 BY <1>4 DEF MayFallShort
  <2>2. d > 0
    <3> HIDE DEF d
    <3>1. d # 0 BY <2>1
    <3> QED BY <1>1, <3>1
  <2>3. x > 0
    <3> HIDE DEF d
    <3>1. 1 \in Nat /\ 1 <= d BY <1>1, <2>2
    <3>2. fee * 1 <= fee * d BY <1>1, <3>1, ShareGrows
    <3>3. fee * 1 = fee OBVIOUS
    <3> DEFINE y == fee * d
    <3>4. fee <= y BY <3>2, <3>3
    <3>5. y \in Nat BY <1>2
    <3> HIDE DEF y
    <3>6. y > 0 BY <3>4, <3>5
    <3> QED BY <3>6 DEF y
  <2> HIDE DEF d, x
  <2>4. x \div 100 >= 1 BY <1>2, <2>1, <2>3
  <2>5. FeePart(fee, short, c) = (x \div 100) - 1 BY <1>3, <1>4 DEF FeePart
  <2>6. x \div 100 \in Nat BY <1>2
  <2> QED BY <1>3, <2>4, <2>5, <2>6
<1>5. CASE c \notin short
  <2>1. x \div 100 \in Nat
    <3> HIDE DEF x
    <3> QED BY <1>2
  <2> HIDE DEF x
  <2>2. FeePart(fee, short, c) = (x \div 100) - 0 BY <1>3, <1>5 DEF FeePart
  <2> QED BY <1>3, <2>1, <2>2
<1> QED BY <1>4, <1>5

LEMMA FeesInitial ==
    ASSUME FeeInit PROVE FeesInv
<1>1. fee_distribution \in [Categories -> Nat] /\ accumulated_fees \in [Categories -> Nat]
  BY DEF FeeInit, DEFAULT_DISTRIBUTION, NoFees, Categories
<1>2. fee_distribution \in [Categories -> Int] /\ accumulated_fees \in [Categories -> Int]
  BY <1>1
<1>3. SumFunction(fee_distribution) = 100
  <2>1. /\ fee_distribution["validators"] = 70 /\ fee_distribution["treasury"] = 20
        /\ fee_distribution["development"] = 10 /\ fee_distribution["community"] = 0
    BY DEF FeeInit, DEFAULT_DISTRIBUTION, Categories
  <2> QED BY <1>2, <2>1, CategorySum
<1>4. SumFunction(accumulated_fees) = 0
  <2>1. /\ accumulated_fees["validators"] = 0 /\ accumulated_fees["treasury"] = 0
        /\ accumulated_fees["development"] = 0 /\ accumulated_fees["community"] = 0
    BY DEF FeeInit, NoFees, Categories
  <2> QED BY <1>2, <2>1, CategorySum
<1>5. SumFunction(validator_rewards) = 0 /\ validator_rewards \in [Rewarded -> Nat]
  <2>1. /\ \A v \in Rewarded : validator_rewards[v] = 0
        /\ DOMAIN validator_rewards = Rewarded /\ validator_rewards \in [Rewarded -> Nat]
    BY DEF FeeInit, NoRewards
  <2>2. SumFunctionOnSet(validator_rewards, Rewarded) = 0 BY <2>1, FeeAssumption, SumZero
  <2> QED BY <2>1, <2>2 DEF SumFunction
<1>6. accumulated_fees["validators"] = 0 BY DEF FeeInit, NoFees, Categories
<1>7. collected = 0 /\ distributed = 0 /\ most = 100 BY <1>3 DEF FeeInit
<1> QED BY <1>1, <1>3, <1>4, <1>5, <1>6, <1>7 DEF FeesInv

LEMMA FeesStep ==
    ASSUME FeesInv, [FeeNext]_feeVars PROVE FeesInv'
<1>0. /\ fee_distribution \in [Categories -> Nat] /\ accumulated_fees \in [Categories -> Nat]
      /\ fee_distribution \in [Categories -> Int] /\ accumulated_fees \in [Categories -> Int]
      /\ validator_rewards \in [Rewarded -> Nat] /\ IsFiniteSet(Rewarded)
      /\ collected \in Nat /\ distributed \in Nat /\ most \in Nat
      /\ SumFunction(fee_distribution) <= most
      /\ 100 * (SumFunction(accumulated_fees) + distributed) <= most * collected
      /\ SumFunction(validator_rewards) <= accumulated_fees["validators"]
      /\ FeeAmounts \subseteq Nat \ {0}
      /\ "validators" \in Categories /\ "treasury" \in Categories
      /\ "development" \in Categories /\ "community" \in Categories
  BY FeeAssumption DEF FeesInv, Categories
<1>1. ASSUME UNCHANGED <<fee_distribution, accumulated_fees, validator_rewards, collected,
                         distributed, most>>
      PROVE  FeesInv'
  BY <1>1 DEF FeesInv
<1>2. ASSUME NEW fee \in FeeAmounts, NEW v, NEW short \in SUBSET MayFallShort(fee),
             collect_transaction_fee(fee, v, short)
      PROVE  FeesInv'
  <2> DEFINE A == accumulated_fees
             P(c) == FeePart(fee, short, c)
             Sum4 == Part(fee, "validators") + Part(fee, "treasury")
                         + Part(fee, "development") + Part(fee, "community")
  <2>1. /\ collected' = collected + fee
        /\ accumulated_fees' = [c \in Categories |-> A[c] + P(c)]
        /\ validator_rewards' = [x \in Rewarded |->
              validator_rewards[x] + IF x = v THEN P("validators") ELSE 0]
        /\ UNCHANGED <<fee_distribution, distributed, most>>
    BY <1>2 DEF collect_transaction_fee
  <2>f. fee \in Nat /\ fee > 0 BY <1>0
  <2>t. \A c \in Categories :
           P(c) \in Nat /\ Part(fee, c) \in Nat /\ P(c) <= Part(fee, c)
    BY <2>f, PartType
  <2>2. fee \in Nat /\ \A c \in Categories : A[c] \in Nat /\ P(c) \in Nat
    BY <1>0, <2>f, <2>t
  <2>w. Sum4 \in Nat /\ 100 * Sum4 <= fee * most
    <3> DEFINE D == fee_distribution
    <3>1. /\ D["validators"] \in Nat /\ D["treasury"] \in Nat /\ D["development"] \in Nat
          /\ D["community"] \in Nat
      BY <1>0
    <3>2. SumFunction(D) = D["validators"] + D["treasury"] + D["development"] + D["community"]
      BY <1>0, CategorySum
    <3>3. D["validators"] + D["treasury"] + D["development"] + D["community"] <= most
      BY <1>0, <3>2
    <3> HIDE DEF D
    <3>m. most \in Nat BY <1>0
    <3>4. 100 * ((fee * D["validators"]) \div 100 + (fee * D["treasury"]) \div 100
             + (fee * D["development"]) \div 100 + (fee * D["community"]) \div 100) <= fee * most
      BY ONLY <3>m, <2>f, <3>1, <3>3, PartsOfFee
    <3>5. 100 * Sum4 <= fee * most BY <3>4 DEF Part, D
    <3>6. /\ Part(fee, "validators") \in Nat /\ Part(fee, "treasury") \in Nat
          /\ Part(fee, "development") \in Nat /\ Part(fee, "community") \in Nat
      BY <1>0, <2>t
    <3> QED BY <3>5, <3>6
  <2>p. /\ P("validators") \in Nat /\ P("treasury") \in Nat /\ P("development") \in Nat
        /\ P("community") \in Nat
        /\ P("validators") + P("treasury") + P("development") + P("community") <= Sum4
    <3>1. /\ P("validators") \in Nat /\ P("validators") <= Part(fee, "validators")
          /\ P("treasury") \in Nat /\ P("treasury") <= Part(fee, "treasury")
          /\ P("development") \in Nat /\ P("development") <= Part(fee, "development")
          /\ P("community") \in Nat /\ P("community") <= Part(fee, "community")
          /\ Part(fee, "validators") \in Nat /\ Part(fee, "treasury") \in Nat
          /\ Part(fee, "development") \in Nat /\ Part(fee, "community") \in Nat
      BY <1>0, <2>t
    <3> HIDE DEF P
    <3> QED BY <3>1
  <2> HIDE DEF A, P, Sum4
  <2>3. /\ accumulated_fees' \in [Categories -> Nat] /\ accumulated_fees' \in [Categories -> Int]
        /\ \A c \in Categories : accumulated_fees'[c] = A[c] + P(c)
    BY <2>1, <2>2
  <2>4. 100 * (SumFunction(accumulated_fees') + distributed') <= most' * collected'
    <3>1. SumFunction(accumulated_fees') = accumulated_fees'["validators"]
             + accumulated_fees'["treasury"] + accumulated_fees'["development"]
             + accumulated_fees'["community"]
      BY <2>3, CategorySum
    <3>2. SumFunction(A) = A["validators"] + A["treasury"] + A["development"] + A["community"]
      BY <1>0, CategorySum DEF A
    <3>3. 100 * (SumFunction(A) + distributed) <= most * collected BY <1>0 DEF A
    <3>5. SumFunction(accumulated_fees') = (A["validators"] + P("validators"))
             + (A["treasury"] + P("treasury")) + (A["development"] + P("development"))
             + (A["community"] + P("community"))
      BY <1>0, <2>3, <3>1
    <3>6. /\ A["validators"] \in Nat /\ A["treasury"] \in Nat /\ A["development"] \in Nat
          /\ A["community"] \in Nat
      BY <1>0, <2>2
    <3>7. SumFunction(accumulated_fees') <= SumFunction(A) + Sum4
          /\ SumFunction(accumulated_fees') \in Nat /\ SumFunction(A) \in Nat
      BY <2>p, <2>w, <3>2, <3>5, <3>6
    <3>8. most * (collected + fee) = most * collected + fee * most BY <1>0, <2>f
    <3>9. most * collected \in Nat /\ fee * most \in Nat BY <1>0, <2>f
    <3> DEFINE x == most * collected
               y == fee * most
               z == most * (collected + fee)
               S == SumFunction(A)
               T == SumFunction(accumulated_fees')
    <3>10. /\ 100 * (S + distributed) <= x /\ 100 * Sum4 <= y /\ z = x + y
           /\ T <= S + Sum4 /\ x \in Nat /\ y \in Nat /\ S \in Nat /\ T \in Nat
      BY <2>w, <3>3, <3>7, <3>8, <3>9
    <3> HIDE DEF x, y, z, S, T
    <3>11. 100 * (T + distributed) <= z BY <1>0, <2>w, <3>10
    <3> QED BY <2>1, <3>11 DEF T, z
  <2>5. /\ validator_rewards' \in [Rewarded -> Nat]
        /\ SumFunction(validator_rewards') <= accumulated_fees'["validators"]
    <3> DEFINE n == P("validators")
               R == validator_rewards
               w == R[v] + n
    <3>1. n \in Nat /\ accumulated_fees'["validators"] = A["validators"] + n
          /\ A["validators"] \in Nat
      BY <1>0, <2>2, <2>3
    <3>2. /\ R \in [Rewarded -> Int] /\ DOMAIN R = Rewarded
          /\ SumFunctionOnSet(R, Rewarded) <= A["validators"]
      BY <1>0 DEF SumFunction, A
    <3>3. CASE v \in Rewarded
      <4>1. w \in Int /\ w - R[v] = n /\ w \in Nat
        <5>1. R[v] \in Nat BY <1>0, <3>3
        <5> QED BY <3>1, <5>1
      <4>2. validator_rewards' = [R EXCEPT ![v] = w]
        <5>1. \A x \in Rewarded : R[x] + 0 = R[x] BY <3>2
        <5> HIDE DEF n
        <5> QED BY <2>1, <3>2, <3>3, <5>1 DEF n
      <4>3. validator_rewards' \in [Rewarded -> Nat] BY <1>0, <4>1, <4>2
      <4> HIDE DEF R, w, n
      <4>4. Grown(R, validator_rewards', Rewarded, w - R[v])
        BY <1>0, <3>2, <3>3, <4>1, <4>2, SumUpdate
      <4>5. /\ SumFunctionOnSet(validator_rewards', Rewarded) = SumFunctionOnSet(R, Rewarded) + n
            /\ SumFunctionOnSet(R, Rewarded) \in Int
        BY <4>1, <4>4 DEF Grown
      <4>6. SumFunctionOnSet(validator_rewards', Rewarded) <= A["validators"] + n
        BY <3>1, <3>2, <4>5
      <4> QED BY <3>1, <4>3, <4>6 DEF SumFunction
    <3>4. CASE v \notin Rewarded
      <4>1. validator_rewards' = [x \in Rewarded |-> R[x]]
        <5>1. \A x \in Rewarded : R[x] + 0 = R[x] /\ x # v BY <3>2, <3>4
        <5> QED BY <2>1, <5>1
      <4>2. validator_rewards' = R BY <3>2, <4>1
      <4>3. SumFunctionOnSet(R, Rewarded) \in Int
        <5>1. \A x \in Rewarded : R[x] \in Int BY <3>2
        <5> HIDE DEF R
        <5> QED BY <1>0, <5>1, SumType
      <4>4. SumFunctionOnSet(R, Rewarded) <= A["validators"] + n BY <3>1, <3>2, <4>3
      <4> QED BY <1>0, <3>1, <3>2, <4>2, <4>4 DEF SumFunction
    <3> QED BY <3>3, <3>4
  <2> QED BY <1>0, <2>1, <2>2, <2>3, <2>4, <2>5 DEF FeesInv
<1>3. ASSUME NEW force \in BOOLEAN, distribute_fees(force) PROVE FeesInv'
  <2>1. /\ distributed' = distributed + SumFunction(accumulated_fees)
        /\ accumulated_fees' = NoFees /\ validator_rewards' = NoRewards
        /\ UNCHANGED <<fee_distribution, collected, most>>
    BY <1>3 DEF distribute_fees
  <2>2. /\ SumFunction(accumulated_fees) \in Nat
    <3>1. /\ accumulated_fees["validators"] \in Nat /\ accumulated_fees["treasury"] \in Nat
          /\ accumulated_fees["development"] \in Nat /\ accumulated_fees["community"] \in Nat
      BY <1>0
    <3>2. SumFunction(accumulated_fees) = accumulated_fees["validators"]
             + accumulated_fees["treasury"] + accumulated_fees["development"]
             + accumulated_fees["community"]
      BY <1>0, CategorySum
    <3> QED BY <3>1, <3>2
  <2>3. NoFees \in [Categories -> Nat] /\ NoFees \in [Categories -> Int]
        /\ \A c \in Categories : NoFees[c] = 0
    BY DEF NoFees
  <2>4. SumFunction(NoFees) = 0 BY <1>0, <2>3, CategorySum
  <2>5. SumFunction(NoRewards) = 0 /\ NoRewards \in [Rewarded -> Nat]
    <3>1. /\ \A x \in Rewarded : NoRewards[x] = 0
          /\ DOMAIN NoRewards = Rewarded /\ NoRewards \in [Rewarded -> Nat]
      BY DEF NoRewards
    <3>2. SumFunctionOnSet(NoRewards, Rewarded) = 0 BY <1>0, <3>1, SumZero
    <3> QED BY <3>1, <3>2 DEF SumFunction
  <2>6. 100 * (SumFunction(accumulated_fees') + distributed') <= most' * collected'
    <3>1. SumFunction(accumulated_fees') + distributed' = SumFunction(accumulated_fees) + distributed
      BY <1>0, <2>1, <2>2, <2>4
    <3> QED BY <1>0, <2>1, <3>1
  <2> QED BY <1>0, <2>1, <2>2, <2>3, <2>5, <2>6 DEF FeesInv
<1>4. ASSUME NEW setting \in Settings, set_fee_distribution(setting) PROVE FeesInv'
  <2>1. /\ \A c \in DOMAIN setting : setting[c] \in 0 .. 100
        /\ fee_distribution' = [c \in Categories |->
              IF c \in DOMAIN setting THEN setting[c] ELSE fee_distribution[c]]
        /\ most' = IF SumFunction(fee_distribution') > most THEN SumFunction(fee_distribution')
                   ELSE most
        /\ UNCHANGED <<accumulated_fees, validator_rewards, collected, distributed>>
    BY <1>4 DEF set_fee_distribution
  <2>2. fee_distribution' \in [Categories -> Nat] BY <1>0, <2>1
  <2>3. SumFunction(fee_distribution') \in Nat
    <3>1. /\ fee_distribution'["validators"] \in Nat /\ fee_distribution'["treasury"] \in Nat
          /\ fee_distribution'["development"] \in Nat /\ fee_distribution'["community"] \in Nat
          /\ fee_distribution' \in [Categories -> Int]
      BY <1>0, <2>2
    <3>2. SumFunction(fee_distribution') = fee_distribution'["validators"]
             + fee_distribution'["treasury"] + fee_distribution'["development"]
             + fee_distribution'["community"]
      BY <3>1, CategorySum
    <3> QED BY <3>1, <3>2
  <2>4. most' \in Nat /\ most <= most' /\ SumFunction(fee_distribution') <= most'
    BY <1>0, <2>1, <2>3
  <2>5. 100 * (SumFunction(accumulated_fees) + distributed) <= most' * collected
    <3>1. collected * most <= collected * most' BY <1>0, <2>4, ShareGrows
    <3>2. collected * most = most * collected /\ collected * most' = most' * collected
      BY <1>0, <2>4
    <3>3. /\ SumFunction(accumulated_fees) \in Int /\ most * collected \in Nat
          /\ most' * collected \in Nat
      <4>1. SumFunction(accumulated_fees) \in Int
        <5>1. /\ accumulated_fees["validators"] \in Int /\ accumulated_fees["treasury"] \in Int
              /\ accumulated_fees["development"] \in Int /\ accumulated_fees["community"] \in Int
          BY <1>0
        <5>2. SumFunction(accumulated_fees) = accumulated_fees["validators"]
                 + accumulated_fees["treasury"] + accumulated_fees["development"]
                 + accumulated_fees["community"]
          BY <1>0, CategorySum
        <5> QED BY <5>1, <5>2
      <4>2. most * collected \in Nat /\ most' * collected \in Nat
        <5>1. \A x, y \in Nat : x * y \in Nat OBVIOUS
        <5> QED BY <1>0, <2>4, <5>1
      <4> QED BY <4>1, <4>2
    <3> DEFINE x == most * collected
               y == most' * collected
               S == SumFunction(accumulated_fees)
    <3>4. /\ x <= y /\ 100 * (S + distributed) <= x /\ x \in Nat /\ y \in Nat /\ S \in Int
      BY <1>0, <3>1, <3>2, <3>3
    <3> HIDE DEF x, y, S
    <3>5. 100 * (S + distributed) <= y BY <1>0, <3>4
    <3> QED BY <3>5 DEF S, y
  <2> QED BY <1>0, <2>1, <2>2, <2>4, <2>5 DEF FeesInv
<1>5. ASSUME FeeTimePasses PROVE FeesInv' BY <1>1, <1>5 DEF FeeTimePasses
<1>6. ASSUME UNCHANGED feeVars PROVE FeesInv' BY <1>1, <1>6 DEF feeVars
<1> QED BY <1>2, <1>3, <1>4, <1>5, <1>6 DEF FeeNext

-----------------------------------------------------------------------------
(* Receipts *)

Txs == [amount : Int, fee : Int, gasLimit : Int]
Receipts == [status : {"successful", "failed"}, gasUsed : Int, fee : Int,
             cumulativeGasUsed : Int]
JobFields == {"at", "txs", "receipts", "applied", "list", "index", "stays", "skips", "called"}

\* The gas of receipts is the sum of theirs.
GasOf(rs) == SumFunctionOnSet([i \in DOMAIN rs |-> rs[i].gasUsed], DOMAIN rs)

LEMMA TotalGasIs ==
    ASSUME NEW rs \in Seq(Receipts)
    PROVE  TotalGas(rs) = GasOf(rs) /\ TotalGas(rs) \in Int
<1> DEFINE S == DOMAIN rs
           f == [i \in S |-> rs[i].gasUsed]
           D == SUBSET S
           m == [s \in D |-> Max(s)]
           body(g) == [s \in D |-> IF s = {} THEN 0
                                   ELSE g[s \ {Max(s)}] + rs[Max(s)].gasUsed]
           I == CHOOSE g : g = body(g)
           w == [s \in D |-> SumFunctionOnSet(f, s)]
<1>1. TotalGas(rs) = I[S] BY DEF TotalGas, FoldLeft, MapThenFoldSet
<1>2. /\ S = 1 .. Len(rs) /\ Len(rs) \in Nat /\ \A i \in S : f[i] = rs[i].gasUsed /\ f[i] \in Int
  <2>1. \A i \in S : rs[i] \in Receipts OBVIOUS
  <2>2. \A r \in Receipts : r.gasUsed \in Int BY DEF Receipts
  <2> QED BY <2>1, <2>2
<1>3. IsFiniteSet(S)
  <2>1. 1 \in Int /\ Len(rs) \in Int BY <1>2
  <2>2. IsFiniteSet(1 .. Len(rs)) BY ONLY <2>1, FS_Interval
  <2> QED BY <1>2, <2>2
<1>4. ASSUME NEW s \in D, s # {} PROVE m[s] = Max(s) /\ Max(s) \in s
  <2>1. Max(s) = Greatest(s) BY DEF Max, Greatest
  <2>2. Greatest(s) \in s BY <1>2, <1>4, GreatestIn
  <2> QED BY <2>1, <2>2
<1>5. FoldsUp(f, S, m, w)
  <2>1. \A s \in SUBSET S : s # {} => m[s] \in s BY <1>4
  <2>2. \A i \in S : f[i] \in Int BY <1>2
  <2> HIDE DEF f, m, S
  <2> QED BY <1>3, <2>1, <2>2, SumFoldsUp
<1>6. w = body(w)
  <2> HIDE DEF w
  <2>1. w = [s \in D |-> w[s]] BY <1>5 DEF FoldsUp
  <2>2. ASSUME NEW s \in D PROVE w[s] = body(w)[s]
    <3>1. w[s] = IF s = {} THEN 0 ELSE w[s \ {m[s]}] + f[m[s]] BY <1>5 DEF FoldsUp
    <3>2. CASE s = {} BY <3>1, <3>2
    <3>3. CASE s # {}
      <4>1. m[s] = Max(s) /\ Max(s) \in S /\ f[Max(s)] = rs[Max(s)].gasUsed
        BY <1>2, <1>4, <3>3
      <4> HIDE DEF m, f
      <4> QED BY <3>1, <3>3, <4>1
    <3> QED BY <3>2, <3>3
  <2> QED BY <2>1, <2>2
<1>7. I = body(I) BY <1>6
<1> HIDE DEF I
<1>8. FoldsUp(f, S, m, I)
  <2>1. I = [s \in D |-> I[s]] BY <1>7
  <2>2. ASSUME NEW s \in D PROVE I[s] = IF s = {} THEN 0 ELSE I[s \ {m[s]}] + f[m[s]]
    <3>1. I[s] = IF s = {} THEN 0 ELSE I[s \ {Max(s)}] + rs[Max(s)].gasUsed BY <1>7
    <3>2. CASE s = {} BY <3>1, <3>2
    <3>3. CASE s # {}
      <4>1. m[s] = Max(s) /\ Max(s) \in S /\ f[Max(s)] = rs[Max(s)].gasUsed
        BY <1>2, <1>4, <3>3
      <4> HIDE DEF m, f
      <4> QED BY <3>1, <3>3, <4>1
    <3> QED BY <3>2, <3>3
  <2> HIDE DEF m, f
  <2> QED BY <2>1, <2>2 DEF FoldsUp
<1>9. I[S] = SumFunctionOnSet(f, S)
  <2>1. \A s \in SUBSET S : s # {} => m[s] \in s BY <1>4
  <2>2. \A i \in S : f[i] \in Int BY <1>2
  <2> HIDE DEF f, m, S
  <2> QED BY <1>3, <1>8, <2>1, <2>2, FoldIsSum
<1>10. SumFunctionOnSet(f, S) \in Int
  <2>2. \A i \in S : f[i] \in Int BY <1>2
  <2> HIDE DEF f, S
  <2> QED BY <1>3, <2>2, SumType
<1> QED BY <1>1, <1>9, <1>10 DEF GasOf

\* One receipt more brings its gas.
LEMMA TotalGasAppend ==
    ASSUME NEW rs \in Seq(Receipts), NEW r \in Receipts
    PROVE  TotalGas(Append(rs, r)) = TotalGas(rs) + r.gasUsed
<1> DEFINE q == Append(rs, r)
           n == Len(rs)
           f == [i \in DOMAIN rs |-> rs[i].gasUsed]
           h == [i \in DOMAIN q |-> q[i].gasUsed]
<1>1. /\ q \in Seq(Receipts) /\ n \in Nat /\ DOMAIN rs = 1 .. n /\ DOMAIN q = 1 .. (n + 1)
      /\ q[n + 1] = r /\ \A i \in 1 .. n : q[i] = rs[i]
      /\ (1 .. (n + 1)) \ {n + 1} = 1 .. n
  OBVIOUS
<1>2. /\ \A i \in 1 .. n : f[i] \in Int /\ h[i] = f[i]
      /\ \A i \in 1 .. (n + 1) : h[i] \in Int
      /\ h[n + 1] = r.gasUsed
  <2>0. \A x \in Receipts : x.gasUsed \in Int BY DEF Receipts
  <2>3. \A i \in 1 .. n : rs[i] \in Receipts BY <1>1
  <2>4. \A i \in 1 .. (n + 1) : q[i] \in Receipts BY <1>1
  <2>1. \A i \in 1 .. n : rs[i].gasUsed \in Int BY <2>0, <2>3
  <2>2. \A i \in 1 .. (n + 1) : q[i].gasUsed \in Int BY <2>0, <2>4
  <2> HIDE DEF q, n
  <2> QED BY <1>1, <2>1, <2>2
<1>3. IsFiniteSet(1 .. n) /\ IsFiniteSet(1 .. (n + 1))
  <2>1. 1 \in Int /\ n \in Int /\ n + 1 \in Int BY <1>1
  <2> QED BY ONLY <2>1, FS_Interval
<1> HIDE DEF q, n, f, h
<1>4. SumFunctionOnSet(h, 1 .. n) = SumFunctionOnSet(f, 1 .. n) BY <1>2, <1>3, SumSame
<1>5. SumFunctionOnSet(h, 1 .. (n + 1)) = SumFunctionOnSet(h, 1 .. n) + h[n + 1]
  <2>1. \A i \in 1 .. (n + 1) : h[i] \in Int BY <1>2
  <2>2. n + 1 \in 1 .. (n + 1) BY <1>1
  <2>3. SumFunctionOnSet(h, 1 .. (n + 1))
           = SumFunctionOnSet(h, (1 .. (n + 1)) \ {n + 1}) + h[n + 1]
    BY <1>3, <2>1, <2>2, SumWithout
  <2> QED BY <1>1, <2>3
<1>6. TotalGas(rs) = SumFunctionOnSet(f, 1 .. n) BY <1>1, TotalGasIs DEF GasOf, f
<1>7. TotalGas(q) = SumFunctionOnSet(h, 1 .. (n + 1)) BY <1>1, TotalGasIs DEF GasOf, h
<1> QED BY <1>2, <1>4, <1>5, <1>6, <1>7 DEF q

\* What is right about the i-th receipt of transactions txs, of which those of ap were
\* applied.
ReceiptRight(txs, rs, ap, i) ==
    /\ rs[i].cumulativeGasUsed = TotalGas(SubSeq(rs, 1, i))
    /\ rs[i].status = "successful" => i \in ap /\ validate(txs[i])
    /\ rs[i].status = "failed" =>
          rs[i].gasUsed = 0 /\ rs[i].fee = 0 /\ (i \in ap => txs[i].gasLimit < 0)

BooksRight(txs, rs, ap) ==
    /\ txs \in Seq(Txs) /\ rs \in Seq(Receipts)
    /\ Len(rs) <= Len(txs) /\ ap \subseteq 1 .. Len(rs) + 1
    /\ \A i \in DOMAIN rs : ReceiptRight(txs, rs, ap, i)

\* What a job at this point knows of its present transaction.
AtRight(at, txs, rs, ap) ==
    /\ at = "idle" => rs = <<>> /\ ap = {}
    /\ at \in {"postProcessBlock", "done"} => Len(rs) = Len(txs)
    /\ at \in {"preProcess", "transition", "postProcess"} =>
          Len(rs) < Len(txs) /\ validate(txs[Len(rs) + 1])
    /\ at = "postProcess" => Len(rs) + 1 \in ap
    /\ at # "postProcess" => Len(rs) + 1 \notin ap

JobInv(job) ==
    /\ DOMAIN job = JobFields /\ job = [x \in JobFields |-> job[x]]
    /\ BooksRight(job.txs, job.receipts, job.applied)
    /\ AtRight(job.at, job.txs, job.receipts, job.applied)

ExecutionInv ==
    /\ DOMAIN jobs = ExecutionJobs /\ jobs = [j \in ExecutionJobs |-> jobs[j]]
    /\ \A j \in ExecutionJobs : JobInv(jobs[j])

\* More applied beyond the receipts leaves them right.
LEMMA BooksStay ==
    ASSUME NEW txs, NEW rs, NEW ap, BooksRight(txs, rs, ap)
    PROVE  BooksRight(txs, rs, ap \cup {Len(rs) + 1})
<1>1. /\ rs \in Seq(Receipts) /\ Len(rs) \in Nat /\ DOMAIN rs = 1 .. Len(rs)
      /\ ap \subseteq 1 .. Len(rs) + 1
  BY DEF BooksRight
<1>2. ASSUME NEW i \in DOMAIN rs PROVE ReceiptRight(txs, rs, ap \cup {Len(rs) + 1}, i)
  <2>1. i \in ap \cup {Len(rs) + 1} <=> i \in ap BY <1>1
  <2> QED BY <2>1 DEF BooksRight, ReceiptRight
<1>3. ap \cup {Len(rs) + 1} \subseteq 1 .. Len(rs) + 1
  <2>1. Len(rs) + 1 \in 1 .. Len(rs) + 1 BY <1>1
  <2> QED BY <1>1, <2>1
<1> QED BY <1>2, <1>3 DEF BooksRight

\* A receipt that is right by itself is added with the gas up to it.
LEMMA BooksGrow ==
    ASSUME NEW txs, NEW rs, NEW ap, BooksRight(txs, rs, ap), Len(rs) < Len(txs),
           NEW r \in Receipts, r.cumulativeGasUsed = TotalGas(rs) + r.gasUsed,
           r.status = "successful" => Len(rs) + 1 \in ap /\ validate(txs[Len(rs) + 1]),
           r.status = "failed" =>
              r.gasUsed = 0 /\ r.fee = 0
                 /\ (Len(rs) + 1 \in ap => txs[Len(rs) + 1].gasLimit < 0)
    PROVE  BooksRight(txs, Append(rs, r), ap) /\ Len(Append(rs, r)) = Len(rs) + 1
<1> DEFINE n == Len(rs)
           q == Append(rs, r)
<1>1. /\ txs \in Seq(Txs) /\ rs \in Seq(Receipts) /\ n \in Nat /\ Len(txs) \in Nat
      /\ ap \subseteq 1 .. n + 1 /\ DOMAIN rs = 1 .. n
      /\ \A i \in DOMAIN rs : ReceiptRight(txs, rs, ap, i)
  BY DEF BooksRight
<1>2. /\ q \in Seq(Receipts) /\ Len(q) = n + 1 /\ DOMAIN q = 1 .. (n + 1) /\ q[n + 1] = r
      /\ \A i \in 1 .. n : q[i] = rs[i]
  BY <1>1
<1>3. TotalGas(q) = TotalGas(rs) + r.gasUsed BY <1>1, TotalGasAppend
<1>4. SubSeq(q, 1, n + 1) = q /\ \A i \in 1 .. n : SubSeq(q, 1, i) = SubSeq(rs, 1, i)
  <2>1. SubSeq(q, 1, n + 1) = q
    <3> DEFINE u == SubSeq(q, 1, n + 1)
    <3>1. /\ u \in Seq(Receipts) /\ Len(u) = Len(q) /\ \A k \in 1 .. Len(q) : u[k] = q[k]
      BY <1>1, <1>2
    <3> HIDE DEF u, q
    <3>2. u = q BY <1>2, <3>1, SeqEqual
    <3> QED BY <3>2 DEF u
  <2>2. ASSUME NEW i \in 1 .. n PROVE SubSeq(q, 1, i) = SubSeq(rs, 1, i)
    <3> DEFINE u == SubSeq(q, 1, i)
               v == SubSeq(rs, 1, i)
    <3>1. v \in Seq(Receipts) /\ Len(v) = i /\ \A k \in 1 .. i : v[k] = rs[k] BY <1>1
    <3> HIDE DEF q
    <3>2. u \in Seq(Receipts) /\ Len(u) = i /\ \A k \in 1 .. i : u[k] = q[k] BY <1>1, <1>2
    <3>3. \A k \in 1 .. i : k \in 1 .. n BY <1>1
    <3> HIDE DEF u, v
    <3>4. \A k \in 1 .. i : u[k] = v[k] BY <1>2, <3>1, <3>2, <3>3
    <3>5. u = v BY <3>1, <3>2, <3>4, SeqEqual
    <3> QED BY <3>5 DEF u, v
  <2> QED BY <2>1, <2>2
<1> HIDE DEF q
<1>5. ASSUME NEW i \in DOMAIN q PROVE ReceiptRight(txs, q, ap, i)
  <2>1. CASE i \in 1 .. n BY <1>1, <1>2, <1>4, <2>1 DEF ReceiptRight
  <2>2. CASE i = n + 1 BY <1>2, <1>3, <1>4, <2>2 DEF ReceiptRight
  <2> QED BY <1>1, <1>2, <2>1, <2>2
<1>6. ap \subseteq 1 .. (n + 1) + 1 BY <1>1
<1>7. BooksRight(txs, q, ap) BY <1>1, <1>2, <1>5, <1>6 DEF BooksRight
<1> QED BY <1>2, <1>7 DEF q

\* A walk over plugins leaves the books of its job alone.
SameBooks(job, k) ==
    /\ DOMAIN k = JobFields /\ k = [x \in JobFields |-> k[x]]
    /\ k.txs = job.txs /\ k.receipts = job.receipts /\ k.applied = job.applied

LEMMA CallKeepsBooks ==
    ASSUME NEW job, DOMAIN job = JobFields, job = [x \in JobFields |-> job[x]],
           NEW list, NEW i
    PROVE  SameBooks(job, CallAt(job, list, i)) /\ CallAt(job, list, i).at = job.at
BY DEF CallAt, SameBooks, JobFields

LEMMA HookKeepsBooks ==
    ASSUME NEW job, DOMAIN job = JobFields, job = [x \in JobFields |-> job[x]], NEW hook
    PROVE  SameBooks(job, executePlugins(job, hook)) /\ executePlugins(job, hook).at = hook
<1> DEFINE k == [job EXCEPT !.at = hook, !.list = Len(pluginLists), !.stays = ToSet(Plugins),
                            !.skips = FALSE, !.called = <<>>]
<1>1. /\ DOMAIN k = JobFields /\ k = [x \in JobFields |-> k[x]] /\ k.at = hook
      /\ k.txs = job.txs /\ k.receipts = job.receipts /\ k.applied = job.applied
  BY DEF JobFields
<1>2. executePlugins(job, hook) = CallAt(k, Plugins, 1) BY DEF executePlugins
<1> HIDE DEF k
<1>3. SameBooks(k, CallAt(k, Plugins, 1)) /\ CallAt(k, Plugins, 1).at = k.at
  BY <1>1, CallKeepsBooks
<1> QED BY <1>1, <1>2, <1>3 DEF SameBooks

LEMMA BooksCarryOver ==
    ASSUME NEW job, JobInv(job), NEW k, SameBooks(job, k),
           AtRight(k.at, job.txs, job.receipts, job.applied)
    PROVE  JobInv(k)
BY DEF JobInv, SameBooks

\* The receipt of the present transaction.
LEMMA ReceiptKeepsJob ==
    ASSUME NEW job, JobInv(job), Len(job.receipts) < Len(job.txs),
           NEW r \in Receipts,
           r.status = "successful" => /\ Len(job.receipts) + 1 \in job.applied
                                      /\ validate(CurrentTx(job)),
           r.status = "failed" => /\ r.gasUsed = 0 /\ r.fee = 0
                                  /\ Len(job.receipts) + 1 \in job.applied
                                        => CurrentTx(job).gasLimit < 0
    PROVE  JobInv(WithReceipt(job, r))
<1> DEFINE rs == job.receipts
           q == [r EXCEPT !.cumulativeGasUsed = TotalGas(rs) + r.gasUsed]
           k == WithReceipt(job, r)
<1>1. /\ DOMAIN job = JobFields /\ job = [x \in JobFields |-> job[x]]
      /\ BooksRight(job.txs, rs, job.applied) /\ rs \in Seq(Receipts) /\ Len(rs) \in Nat
      /\ job.applied \subseteq 1 .. Len(rs) + 1
  <2>1. /\ DOMAIN job = JobFields /\ job = [x \in JobFields |-> job[x]]
        /\ BooksRight(job.txs, rs, job.applied)
    BY DEF JobInv
  <2> HIDE DEF rs
  <2>2. rs \in Seq(Receipts) /\ job.applied \subseteq 1 .. Len(rs) + 1
    BY <2>1 DEF BooksRight
  <2>3. Len(rs) \in Nat BY <2>2
  <2> QED BY ONLY <2>1, <2>2, <2>3
<1>2. TotalGas(rs) \in Int /\ r.gasUsed \in Int BY <1>1, TotalGasIs DEF Receipts
<1>3. /\ q \in Receipts /\ q.cumulativeGasUsed = TotalGas(rs) + r.gasUsed
      /\ q.gasUsed = r.gasUsed /\ q.status = r.status /\ q.fee = r.fee
  <2>1. TotalGas(rs) + r.gasUsed \in Int BY <1>2
  <2> QED BY <2>1 DEF Receipts
<1>4. /\ DOMAIN k = JobFields /\ k = [x \in JobFields |-> k[x]] /\ k.at = "next"
      /\ k.txs = job.txs /\ k.receipts = Append(rs, q) /\ k.applied = job.applied
  BY <1>1 DEF WithReceipt, JobFields
<1> HIDE DEF q, k
<1>5. BooksRight(job.txs, Append(rs, q), job.applied) /\ Len(Append(rs, q)) = Len(rs) + 1
  <2>1. /\ r.status = "successful" => Len(rs) + 1 \in job.applied /\ validate(job.txs[Len(rs) + 1])
        /\ r.status = "failed" =>
              r.gasUsed = 0 /\ r.fee = 0
                 /\ (Len(rs) + 1 \in job.applied => job.txs[Len(rs) + 1].gasLimit < 0)
    BY DEF CurrentTx
  <2>2. Len(rs) < Len(job.txs) OBVIOUS
  <2> HIDE DEF rs
  <2> QED BY <1>1, <1>3, <2>1, <2>2, BooksGrow
<1>6. AtRight("next", job.txs, Append(rs, q), job.applied)
  <2> HIDE DEF rs
  <2>0. job.applied \subseteq 1 .. Len(rs) + 1 /\ Len(rs) \in Nat BY <1>1
  <2>1. Len(rs) + 1 + 1 \notin job.applied BY ONLY <2>0
  <2> QED BY <1>5, <2>1 DEF AtRight
<1> QED BY <1>4, <1>5, <1>6 DEF JobInv, k

LEMMA ExecutionInitial ==
    ASSUME ExecutionInit PROVE ExecutionInv
<1>1. BooksRight(<<>>, <<>>, {}) /\ AtRight("idle", <<>>, <<>>, {})
  BY DEF BooksRight, AtRight
<1>2. JobInv(NoJob)
  <2>1. /\ DOMAIN NoJob = JobFields /\ NoJob = [x \in JobFields |-> NoJob[x]]
        /\ NoJob.at = "idle" /\ NoJob.txs = <<>> /\ NoJob.receipts = <<>> /\ NoJob.applied = {}
    BY DEF NoJob, JobFields
  <2> QED BY <1>1, <2>1 DEF JobInv
<1>3. jobs = [j \in ExecutionJobs |-> NoJob] BY DEF ExecutionInit
<1> QED BY <1>2, <1>3 DEF ExecutionInv

LEMMA ExecutionStep ==
    ASSUME ExecutionInv, [ExecutionNext]_executionVars PROVE ExecutionInv'
<1>0. DOMAIN jobs = ExecutionJobs /\ \A j \in ExecutionJobs : JobInv(jobs[j])
  BY DEF ExecutionInv
<1>a. ASSUME NEW j \in ExecutionJobs
      PROVE  LET job == jobs[j] IN
             /\ JobInv(job) /\ DOMAIN job = JobFields /\ job = [x \in JobFields |-> job[x]]
             /\ BooksRight(job.txs, job.receipts, job.applied)
             /\ AtRight(job.at, job.txs, job.receipts, job.applied)
             /\ job.txs \in Seq(Txs) /\ job.receipts \in Seq(Receipts)
             /\ Len(job.receipts) <= Len(job.txs)
             /\ Len(job.receipts) \in Nat /\ Len(job.txs) \in Nat
  <2> DEFINE job == jobs[j]
  <2>1. JobInv(job) BY <1>0
  <2> HIDE DEF job
  <2>2. /\ DOMAIN job = JobFields /\ job = [x \in JobFields |-> job[x]]
        /\ BooksRight(job.txs, job.receipts, job.applied)
        /\ AtRight(job.at, job.txs, job.receipts, job.applied)
    BY <2>1 DEF JobInv
  <2>3. /\ job.txs \in Seq(Txs) /\ job.receipts \in Seq(Receipts)
        /\ Len(job.receipts) <= Len(job.txs)
    BY <2>2 DEF BooksRight
  <2>4. Len(job.receipts) \in Nat /\ Len(job.txs) \in Nat BY <2>3
  <2> QED BY ONLY <2>1, <2>2, <2>3, <2>4 DEF job
<1>b. ASSUME NEW j \in ExecutionJobs, NEW k, JobInv(k), jobs' = [jobs EXCEPT ![j] = k]
      PROVE  ExecutionInv'
  BY <1>0, <1>b DEF ExecutionInv
<1>1. ASSUME NEW j \in ExecutionJobs, NEW txs \in BlocksOfTxs, processBlock(j, txs)
      PROVE  ExecutionInv'
  <2> DEFINE job == jobs[j]
             b == [job EXCEPT !.txs = txs]
             k == executePlugins(b, "preProcessBlock")
  <2>1. job.at = "idle" /\ jobs' = [jobs EXCEPT ![j] = k] BY <1>1 DEF processBlock, Step
  <2>2. /\ DOMAIN job = JobFields /\ job = [x \in JobFields |-> job[x]]
        /\ AtRight(job.at, job.txs, job.receipts, job.applied)
    BY <1>a
  <2> HIDE DEF job
  <2>3. job.receipts = <<>> /\ job.applied = {} BY <2>1, <2>2 DEF AtRight
  <2>4. /\ DOMAIN b = JobFields /\ b = [x \in JobFields |-> b[x]]
        /\ b.txs = txs /\ b.receipts = <<>> /\ b.applied = {}
    BY <2>2, <2>3 DEF JobFields
  <2> HIDE DEF b
  <2>5. SameBooks(b, k) /\ k.at = "preProcessBlock" BY <2>4, HookKeepsBooks
  <2>6. txs \in Seq(Txs) /\ Len(txs) \in Nat BY ExecutionAssumption DEF Txs
  <2>7. BooksRight(txs, <<>>, {}) /\ AtRight("preProcessBlock", txs, <<>>, {})
    BY <2>6 DEF BooksRight, AtRight
  <2> HIDE DEF k
  <2>8. JobInv(k) BY <2>4, <2>5, <2>7 DEF JobInv, SameBooks
  <2> QED BY <1>b, <2>1, <2>8
<1>2. ASSUME NEW j \in ExecutionJobs, PluginReturns(j) PROVE ExecutionInv'
  <2> DEFINE job == jobs[j]
             k == CallAt(job, pluginLists[job.list], job.index + 1)
  <2>1. jobs' = [jobs EXCEPT ![j] = k] BY <1>2 DEF PluginReturns, Step
  <2>2. /\ JobInv(job) /\ DOMAIN job = JobFields /\ job = [x \in JobFields |-> job[x]]
        /\ AtRight(job.at, job.txs, job.receipts, job.applied)
    BY <1>a
  <2> HIDE DEF job
  <2>3. SameBooks(job, k) /\ k.at = job.at BY <2>2, CallKeepsBooks
  <2> HIDE DEF k
  <2>4. JobInv(k) BY <2>2, <2>3, BooksCarryOver
  <2> QED BY <1>b, <2>1, <2>4
<1>3. ASSUME NEW j \in ExecutionJobs, NEW from, NEW to,
             AtRight(to, jobs[j].txs, jobs[j].receipts, jobs[j].applied),
             Step(j, from, [jobs[j] EXCEPT !.at = to])
      PROVE  ExecutionInv'
  <2> DEFINE job == jobs[j]
             k == [job EXCEPT !.at = to]
  <2>1. jobs' = [jobs EXCEPT ![j] = k] BY <1>3 DEF Step
  <2>2. /\ JobInv(job) /\ DOMAIN job = JobFields /\ job = [x \in JobFields |-> job[x]] BY <1>a
  <2>3. AtRight(to, job.txs, job.receipts, job.applied) BY <1>3
  <2> HIDE DEF job
  <2>4. SameBooks(job, k) /\ k.at = to BY <2>2 DEF SameBooks, JobFields
  <2> HIDE DEF k
  <2>5. JobInv(k) BY <2>2, <2>3, <2>4, BooksCarryOver
  <2> QED BY <1>b, <2>1, <2>5
<1>4. ASSUME NEW j \in ExecutionJobs, BlockPrepared(j) PROVE ExecutionInv'
  <2>1. Step(j, "preProcessBlock", [jobs[j] EXCEPT !.at = "next"])
        /\ jobs[j].at = "preProcessBlock"
    BY <1>4 DEF BlockPrepared, Step
  <2>2. AtRight("next", jobs[j].txs, jobs[j].receipts, jobs[j].applied)
    BY <1>a, <2>1 DEF AtRight
  <2> QED BY <1>3, <2>1, <2>2
<1>5. ASSUME NEW j \in ExecutionJobs, executeTransaction(j) PROVE ExecutionInv'
  <2>1. Step(j, "preProcess", [jobs[j] EXCEPT !.at = "transition"])
        /\ jobs[j].at = "preProcess"
    BY <1>5 DEF executeTransaction, Step
  <2>2. AtRight("transition", jobs[j].txs, jobs[j].receipts, jobs[j].applied)
    BY <1>a, <2>1 DEF AtRight
  <2> QED BY <1>3, <2>1, <2>2
<1>6. ASSUME NEW j \in ExecutionJobs, BlockDone(j) PROVE ExecutionInv'
  <2>1. Step(j, "postProcessBlock", [jobs[j] EXCEPT !.at = "done"])
        /\ jobs[j].at = "postProcessBlock"
    BY <1>6 DEF BlockDone, Step
  <2>2. AtRight("done", jobs[j].txs, jobs[j].receipts, jobs[j].applied)
    BY <1>a, <2>1 DEF AtRight
  <2> QED BY <1>3, <2>1, <2>2
<1>7. ASSUME NEW j \in ExecutionJobs, processTransactions(j) PROVE ExecutionInv'
  <2> DEFINE job == jobs[j]
             n == Len(job.receipts)
             k == IF n = Len(job.txs) THEN executePlugins(job, "postProcessBlock")
                  ELSE IF validate(CurrentTx(job)) THEN executePlugins(job, "preProcess")
                  ELSE WithReceipt(job, FailedReceipt)
  <2>1. jobs' = [jobs EXCEPT ![j] = k] /\ job.at = "next" BY <1>7 DEF processTransactions, Step
  <2>2. /\ JobInv(job) /\ DOMAIN job = JobFields /\ job = [x \in JobFields |-> job[x]]
        /\ AtRight(job.at, job.txs, job.receipts, job.applied)
        /\ n <= Len(job.txs) /\ n \in Nat /\ Len(job.txs) \in Nat
    BY <1>a
  <2> HIDE DEF job
  <2>3. n + 1 \notin job.applied BY <2>1, <2>2 DEF AtRight
  <2>4. JobInv(k)
    <3>1. CASE n = Len(job.txs)
      <4>1. SameBooks(job, k) /\ k.at = "postProcessBlock" BY <2>2, <3>1, HookKeepsBooks
      <4>2. AtRight("postProcessBlock", job.txs, job.receipts, job.applied)
        BY <2>3, <3>1 DEF AtRight
      <4> HIDE DEF k
      <4> QED BY <2>2, <4>1, <4>2, BooksCarryOver
    <3>2. CASE n # Len(job.txs) /\ validate(CurrentTx(job))
      <4>1. SameBooks(job, k) /\ k.at = "preProcess" BY <2>2, <3>2, HookKeepsBooks
      <4>2. n < Len(job.txs) BY <2>2, <3>2
      <4>3. AtRight("preProcess", job.txs, job.receipts, job.applied)
        BY <2>3, <3>2, <4>2 DEF AtRight, CurrentTx
      <4> HIDE DEF k
      <4> QED BY <2>2, <4>1, <4>3, BooksCarryOver
    <3>3. CASE n # Len(job.txs) /\ ~validate(CurrentTx(job))
      <4>1. n < Len(job.txs) BY <2>2, <3>3
      <4>2. /\ FailedReceipt \in Receipts /\ FailedReceipt.status = "failed"
            /\ FailedReceipt.gasUsed = 0 /\ FailedReceipt.fee = 0
        BY DEF FailedReceipt, TransactionReceipt, Receipts
      <4> HIDE DEF n
      <4>3. JobInv(WithReceipt(job, FailedReceipt))
        BY <2>2, <2>3, <4>1, <4>2, ReceiptKeepsJob DEF n
      <4> QED BY <3>3, <4>3
    <3> QED BY <3>1, <3>2, <3>3
  <2> HIDE DEF k
  <2> QED BY <1>b, <2>1, <2>4
<1>8. ASSUME NEW j \in ExecutionJobs, NEW ok \in BOOLEAN, Transitioned(j, ok)
      PROVE  ExecutionInv'
  <2> DEFINE job == jobs[j]
             n == Len(job.receipts)
             done == [job EXCEPT !.applied = @ \cup {n + 1}]
             k == IF ~ok THEN WithReceipt(job, FailedReceipt)
                  ELSE IF setGasUsed(GasLimit(CurrentTx(job)))
                       THEN executePlugins(done, "postProcess")
                       ELSE WithReceipt(done, FailedReceipt)
  <2>1. jobs' = [jobs EXCEPT ![j] = k] /\ job.at = "transition" BY <1>8 DEF Transitioned, Step
  <2>2. /\ JobInv(job) /\ DOMAIN job = JobFields /\ job = [x \in JobFields |-> job[x]]
        /\ BooksRight(job.txs, job.receipts, job.applied)
        /\ AtRight(job.at, job.txs, job.receipts, job.applied)
        /\ n <= Len(job.txs) /\ n \in Nat /\ Len(job.txs) \in Nat
        /\ job.txs \in Seq(Txs)
    BY <1>a
  <2> HIDE DEF job
  <2>3. n + 1 \notin job.applied /\ n < Len(job.txs) /\ validate(CurrentTx(job))
    BY <2>1, <2>2 DEF AtRight, CurrentTx
  <2>4. /\ FailedReceipt \in Receipts /\ FailedReceipt.status = "failed"
        /\ FailedReceipt.gasUsed = 0 /\ FailedReceipt.fee = 0
    BY DEF FailedReceipt, TransactionReceipt, Receipts
  <2>5. /\ DOMAIN done = JobFields /\ done = [x \in JobFields |-> done[x]]
        /\ done.txs = job.txs /\ done.receipts = job.receipts
        /\ done.applied = job.applied \cup {n + 1} /\ CurrentTx(done) = CurrentTx(job)
        /\ done.at = job.at
    BY <2>2 DEF JobFields, CurrentTx
  <2> HIDE DEF done
  <2>6. BooksRight(job.txs, job.receipts, job.applied \cup {n + 1}) BY <2>2, BooksStay
  <2>7. JobInv(k)
    <3>1. CASE ~ok
      <4>1. JobInv(WithReceipt(job, FailedReceipt)) BY <2>2, <2>3, <2>4, ReceiptKeepsJob
      <4> QED BY <3>1, <4>1
    <3>2. CASE ok /\ setGasUsed(GasLimit(CurrentTx(job)))
      <4>1. SameBooks(done, k) /\ k.at = "postProcess" BY <2>5, <3>2, HookKeepsBooks
      <4>2. AtRight("postProcess", job.txs, job.receipts, job.applied \cup {n + 1})
        BY <2>3 DEF AtRight, CurrentTx
      <4> HIDE DEF k, n
      <4> QED BY <2>5, <2>6, <4>1, <4>2 DEF JobInv, SameBooks
    <3>3. CASE ok /\ ~setGasUsed(GasLimit(CurrentTx(job)))
      <4>1. CurrentTx(job).gasLimit < 0
        <5>1. CurrentTx(job) \in Txs BY <2>2, <2>3 DEF CurrentTx
        <5>2. CurrentTx(job).gasLimit \in Int BY <5>1 DEF Txs
        <5> QED BY <3>3, <5>2, ExecutionAssumption DEF setGasUsed, GasLimit
      <4> DEFINE a == [done EXCEPT !.at = "next"]
      <4>2. BooksRight(done.txs, WithReceipt(done, FailedReceipt).receipts, done.applied)
            /\ Len(WithReceipt(done, FailedReceipt).receipts) = n + 1
        <5> DEFINE rs == job.receipts
                   q == [FailedReceipt EXCEPT
                            !.cumulativeGasUsed = TotalGas(rs) + FailedReceipt.gasUsed]
        <5>1. rs \in Seq(Receipts) /\ TotalGas(rs) \in Int BY <2>2, TotalGasIs DEF BooksRight
        <5>2. /\ q \in Receipts /\ q.status = "failed" /\ q.gasUsed = 0 /\ q.fee = 0
              /\ q.cumulativeGasUsed = TotalGas(rs) + q.gasUsed
          BY <5>1 DEF FailedReceipt, TransactionReceipt, Receipts
        <5>3. WithReceipt(done, FailedReceipt).receipts = Append(rs, q)
          BY <2>5 DEF WithReceipt, JobFields
        <5> HIDE DEF q
        <5>4. BooksRight(job.txs, Append(rs, q), job.applied \cup {n + 1})
              /\ Len(Append(rs, q)) = Len(rs) + 1
          BY <2>3, <2>6, <4>1, <5>2, BooksGrow DEF CurrentTx
        <5> QED BY <2>5, <5>3, <5>4
      <4>3. LET w == WithReceipt(done, FailedReceipt)
            IN  /\ DOMAIN w = JobFields /\ w = [x \in JobFields |-> w[x]] /\ w.at = "next"
                /\ w.txs = done.txs /\ w.applied = done.applied
        BY <2>5 DEF WithReceipt, JobFields
      <4> DEFINE w == WithReceipt(done, FailedReceipt)
      <4> HIDE DEF w
      <4>4. AtRight(w.at, w.txs, w.receipts, w.applied)
        <5>1. Len(w.receipts) + 1 \notin w.applied
          <6>1. job.applied \subseteq 1 .. n + 1 BY <2>2 DEF BooksRight
          <6>2. w.applied = job.applied \cup {n + 1} /\ Len(w.receipts) = n + 1
            BY <2>5, <4>2, <4>3 DEF w
          <6>3. n \in Nat BY <2>2
          <6> HIDE DEF n
          <6>4. ASSUME NEW set, set \subseteq 1 .. n + 1
                PROVE  n + 1 + 1 \notin set \cup {n + 1}
            BY ONLY <6>3, <6>4
          <6>5. n + 1 + 1 \notin job.applied \cup {n + 1} BY ONLY <6>1, <6>4
          <6> QED BY ONLY <6>2, <6>5
        <5>2. w.at = "next" BY <4>3 DEF w
        <5> QED BY <5>1, <5>2 DEF AtRight
      <4>5. JobInv(w)
        <5>1. BooksRight(w.txs, w.receipts, w.applied) BY <4>2, <4>3 DEF w
        <5>2. DOMAIN w = JobFields /\ w = [x \in JobFields |-> w[x]] BY <4>3 DEF w
        <5> QED BY <4>4, <5>1, <5>2 DEF JobInv
      <4> QED BY <3>3, <4>5 DEF w
    <3> QED BY <3>1, <3>2, <3>3
  <2> HIDE DEF k
  <2> QED BY <1>b, <2>1, <2>7
<1>9. ASSUME NEW j \in ExecutionJobs, TransactionDone(j) PROVE ExecutionInv'
  <2> DEFINE job == jobs[j]
             n == Len(job.receipts)
             r == Successful(CurrentTx(job))
  <2>1. jobs' = [jobs EXCEPT ![j] = WithReceipt(job, r)] /\ job.at = "postProcess"
    BY <1>9 DEF TransactionDone, Step
  <2>2. /\ JobInv(job) /\ AtRight(job.at, job.txs, job.receipts, job.applied)
        /\ n \in Nat /\ Len(job.txs) \in Nat /\ job.txs \in Seq(Txs)
    BY <1>a
  <2> HIDE DEF job
  <2>3. n < Len(job.txs) /\ n + 1 \in job.applied /\ validate(CurrentTx(job))
    BY <2>1, <2>2 DEF AtRight, CurrentTx
  <2>4. r \in Receipts /\ r.status = "successful"
    <3> DEFINE tx == CurrentTx(job)
    <3>1. tx \in Txs BY <2>2, <2>3 DEF CurrentTx
    <3>2. GasLimit(tx) \in Int /\ tx.fee \in Int BY <3>1, ExecutionAssumption DEF GasLimit, Txs
    <3>3. tx.fee * GasLimit(tx) \in Int BY <3>2
    <3> HIDE DEF tx
    <3> QED BY <3>2, <3>3 DEF Successful, TransactionReceipt, Receipts, tx
  <2> HIDE DEF r
  <2>5. JobInv(WithReceipt(job, r)) BY <2>2, <2>3, <2>4, ReceiptKeepsJob
  <2> QED BY <1>b, <2>1, <2>5
<1>10. ASSUME UNCHANGED jobs PROVE ExecutionInv' BY <1>10 DEF ExecutionInv
<1>11. ASSUME NEW p \in PipelinePlugins, removePlugin(p) PROVE ExecutionInv'
  <2>1. /\ DOMAIN jobs' = ExecutionJobs /\ jobs' = [j \in ExecutionJobs |-> jobs'[j]]
        /\ \A j \in ExecutionJobs : jobs'[j] = jobs[j] \/ \E a, b :
              jobs'[j] = [jobs[j] EXCEPT !.stays = a, !.skips = b]
    BY <1>11 DEF removePlugin
  <2>2. ASSUME NEW j \in ExecutionJobs PROVE JobInv(jobs'[j])
    <3>1. CASE jobs'[j] = jobs[j] BY <1>0, <3>1
    <3>2. CASE \E a, b : jobs'[j] = [jobs[j] EXCEPT !.stays = a, !.skips = b]
      <4>0. PICK a, b : jobs'[j] = [jobs[j] EXCEPT !.stays = a, !.skips = b] BY <3>2
      <4> DEFINE job == jobs[j]
                 k == jobs'[j]
      <4>1. /\ JobInv(job) /\ DOMAIN job = JobFields /\ job = [x \in JobFields |-> job[x]]
            /\ AtRight(job.at, job.txs, job.receipts, job.applied)
        BY <1>a
      <4>2. k = [job EXCEPT !.stays = a, !.skips = b] BY <4>0
      <4> HIDE DEF job, k
      <4>3. SameBooks(job, k) /\ k.at = job.at BY <4>1, <4>2 DEF SameBooks, JobFields
      <4>4. JobInv(k) BY <4>1, <4>3, BooksCarryOver
      <4> QED BY <4>4 DEF k
    <3> QED BY <2>1, <3>1, <3>2
  <2> QED BY <2>1, <2>2 DEF ExecutionInv
<1>12. ASSUME NEW p \in PipelinePlugins, addPlugin(p) PROVE ExecutionInv'
  BY <1>10, <1>12 DEF addPlugin
<1>13. ASSUME clearPlugins PROVE ExecutionInv' BY <1>10, <1>13 DEF clearPlugins
<1>14. ASSUME UNCHANGED executionVars PROVE ExecutionInv' BY <1>10, <1>14 DEF executionVars
<1> QED BY <1>1, <1>2, <1>4, <1>5, <1>6, <1>7, <1>8, <1>9, <1>11, <1>12, <1>13, <1>14
        DEF ExecutionNext

LEMMA ExecutionThen ==
    ASSUME ExecutionInv PROVE ReceiptsAddUp
<1> SUFFICES ASSUME NEW j \in ExecutionJobs
             PROVE  LET job == jobs[j] IN
                    /\ job.at = "done" => Len(job.receipts) = Len(job.txs)
                    /\ \A i \in DOMAIN job.receipts :
                          ReceiptRight(job.txs, job.receipts, job.applied, i)
  BY DEF ReceiptsAddUp, ReceiptRight
<1>1. JobInv(jobs[j]) BY DEF ExecutionInv
<1> QED BY <1>1 DEF JobInv, BooksRight, AtRight

-----------------------------------------------------------------------------
(* Books *)

LEMMA BooksMove ==
    ASSUME [ServicesNext]_allVars
    PROVE  /\ [LendingNext]_lendingVars /\ [StakingNext]_stakingVars
           /\ [TokensNext]_tokenVars /\ [SupplyNext]_supplyVars
           /\ [FeeNext]_feeVars /\ [ExecutionNext]_executionVars
BY DEF ServicesNext, OnlyMoves, allVars

BooksInv == LendingInv /\ StakingInv /\ TokensInv /\ SupplyInv /\ FeesInv /\ ExecutionInv

\* Every total kept beside its entries is their sum: the markets of lending with their
\* deposits and debts, of which none is made without the collateral it asks for, the
\* stake of all and of each; tokens and fees are neither made nor lost by moving
\* them, the supply covers its pools, and the receipts of a block its gas (lending.js,
\* staking.js, standards.js, supply.js, fee_distribution.js, execution_pipeline.js).
THEOREM BooksAgree == ServicesSpec => []BooksBalance
<1>1. ServicesInit => BooksInv
  BY LendingInitial, StakingInitial, TokensInitial, SupplyInitial, FeesInitial,
     ExecutionInitial DEF ServicesInit, BooksInv
<1>2. BooksInv /\ [ServicesNext]_allVars => BooksInv'
  BY BooksMove, LendingStep, StakingStep, TokensStep, SupplyStep, FeesStep, ExecutionStep
     DEF BooksInv
<1>3. BooksInv => BooksBalance
  <2> SUFFICES ASSUME BooksInv PROVE BooksBalance OBVIOUS
  <2>1. LendingBooks /\ DebtIsCovered BY DEF BooksInv, LendingInv
  <2>2. StakingBooks BY DEF BooksInv, StakingInv
  <2>3. TokensConserved BY TokensThen DEF BooksInv
  <2>4. SupplyCovered BY SupplyThen DEF BooksInv
  <2>5. FeesAccounted BY DEF BooksInv, FeesInv, FeesAccounted
  <2>6. ReceiptsAddUp BY ExecutionThen DEF BooksInv
  <2> QED BY <2>1, <2>2, <2>3, <2>4, <2>5, <2>6 DEF BooksBalance
<1> QED BY <1>1, <1>2, <1>3, PTL DEF ServicesSpec

-----------------------------------------------------------------------------
(* Shards *)

ShardingInv ==
    /\ transaction_pool \in [Shards -> SUBSET ShardTxs]
    /\ confirmed \in [Shards -> SUBSET ShardTxs]
    /\ shard_validators \in [Shards -> SUBSET ShardValidators]
    /\ \A c \in cross_shard_transactions : c.tx \in routed
    /\ routed \subseteq ShardTxs
    /\ ShardsKeepTransactions

LEMMA ShardingInitial ==
    ASSUME ShardingInit PROVE ShardingInv
BY DEF ShardingInit, ShardingInv, ShardsKeepTransactions

LEMMA ShardingStep ==
    ASSUME ShardingInv, [ShardingNext]_shardingVars PROVE ShardingInv'
<1>0. /\ transaction_pool \in [Shards -> SUBSET ShardTxs]
      /\ confirmed \in [Shards -> SUBSET ShardTxs]
      /\ shard_validators \in [Shards -> SUBSET ShardValidators]
      /\ \A c \in cross_shard_transactions : c.tx \in routed
      /\ routed \subseteq ShardTxs
      /\ \A tx \in routed :
           \/ \E c \in cross_shard_transactions : c.tx = tx
           \/ tx \in transaction_pool[shardOf[tx].receiver] \cup confirmed[shardOf[tx].receiver]
      /\ \A s \in Shards : \A tx \in transaction_pool[s] :
            tx \in routed /\ shardOf[tx].receiver = s
      /\ \A s, x \in Shards : s # x => shard_validators[s] \cap shard_validators[x] = {}
  BY DEF ShardingInv, ShardsKeepTransactions
<1>a. \A tx \in ShardTxs : shardOf[tx].receiver \in Shards /\ shardOf[tx].id \in Shards
  BY ShardingAssumption
<1>1. ASSUME UNCHANGED <<transaction_pool, cross_shard_transactions, confirmed, routed>>,
             UNCHANGED shard_validators
      PROVE  ShardingInv'
  BY <1>0, <1>1 DEF ShardingInv, ShardsKeepTransactions
<1>2. ASSUME NEW tx \in ShardTxs, route_transaction(tx) PROVE ShardingInv'
  <2>1. /\ routed' = routed \cup {tx} /\ confirmed' = confirmed
        /\ shard_validators' = shard_validators
    BY <1>2 DEF route_transaction
  <2>2. CASE shardOf[tx].id = shardOf[tx].receiver
    <3>1. /\ transaction_pool' = [transaction_pool EXCEPT
                 ![shardOf[tx].receiver] = transaction_pool[shardOf[tx].receiver] \cup {tx}]
          /\ cross_shard_transactions' = cross_shard_transactions
      BY <1>2, <2>2 DEF route_transaction
    <3>2. transaction_pool' \in [Shards -> SUBSET ShardTxs] BY <1>0, <1>a, <3>1
    <3>3. ASSUME NEW s \in Shards, NEW t \in transaction_pool'[s]
          PROVE  t \in routed' /\ shardOf[t].receiver = s
      BY <1>0, <1>a, <2>1, <3>1, <3>3
    <3>4. ASSUME NEW t \in routed'
          PROVE  \/ \E c \in cross_shard_transactions' : c.tx = t
                 \/ t \in transaction_pool'[shardOf[t].receiver] \cup confirmed'[shardOf[t].receiver]
      BY <1>0, <1>a, <2>1, <3>1
    <3> QED BY <1>0, <2>1, <3>1, <3>2, <3>3, <3>4 DEF ShardingInv, ShardsKeepTransactions
  <2>3. CASE shardOf[tx].id # shardOf[tx].receiver
    <3>1. /\ transaction_pool' = transaction_pool
          /\ cross_shard_transactions' =
                cross_shard_transactions \cup {[tx |-> tx, timestamp |-> shardTime]}
      BY <1>2, <2>3 DEF route_transaction
    <3>2. \A c \in cross_shard_transactions' : c.tx \in routed' BY <1>0, <2>1, <3>1
    <3>3. ASSUME NEW t \in routed'
          PROVE  \/ \E c \in cross_shard_transactions' : c.tx = t
                 \/ t \in transaction_pool'[shardOf[t].receiver] \cup confirmed'[shardOf[t].receiver]
      <4>1. [tx |-> tx, timestamp |-> shardTime].tx = tx OBVIOUS
      <4> QED BY <1>0, <2>1, <3>1, <4>1
    <3> QED BY <1>0, <2>1, <3>1, <3>2, <3>3 DEF ShardingInv, ShardsKeepTransactions
  <2> QED BY <2>2, <2>3
<1>3. ASSUME NEW n, process_cross_shard_transactions(n) PROVE ShardingInv'
  <2> DEFINE SentTo(s) == {c.tx : c \in {d \in Due(n) : shardOf[d.tx].receiver = s}}
  <2>1. /\ transaction_pool' = [s \in Shards |-> transaction_pool[s] \cup SentTo(s)]
        /\ cross_shard_transactions' = cross_shard_transactions \ Due(n)
        /\ Due(n) \subseteq cross_shard_transactions
        /\ routed' = routed /\ confirmed' = confirmed /\ shard_validators' = shard_validators
    BY <1>3 DEF process_cross_shard_transactions, StillWaiting, Due
  <2>2. ASSUME NEW s \in Shards
        PROVE  /\ transaction_pool'[s] \subseteq ShardTxs
               /\ \A t \in transaction_pool'[s] : t \in routed' /\ shardOf[t].receiver = s
    BY <1>0, <2>1
  <2>3. ASSUME NEW t \in routed'
        PROVE  \/ \E c \in cross_shard_transactions' : c.tx = t
               \/ t \in transaction_pool'[shardOf[t].receiver] \cup confirmed'[shardOf[t].receiver]
    <3>1. t \in routed /\ shardOf[t].receiver \in Shards BY <1>0, <1>a, <2>1
    <3>2. ASSUME NEW c \in cross_shard_transactions, c.tx = t, c \in Due(n)
          PROVE  t \in transaction_pool'[shardOf[t].receiver]
      BY <2>1, <3>1, <3>2
    <3> QED BY <1>0, <2>1, <3>1, <3>2
  <2> HIDE DEF SentTo
  <2>4. transaction_pool' \in [Shards -> SUBSET ShardTxs]
    <3>1. transaction_pool' = [s \in Shards |-> transaction_pool'[s]] BY <2>1
    <3> QED BY <2>2, <3>1
  <2> QED BY <1>0, <2>1, <2>2, <2>3, <2>4 DEF ShardingInv, ShardsKeepTransactions
<1>4. ASSUME NEW s \in Shards, NEW txs \in SUBSET ShardTxs, add_block(s, txs)
      PROVE  ShardingInv'
  <2>1. /\ confirmed' = [confirmed EXCEPT ![s] = confirmed[s] \cup txs]
        /\ transaction_pool' = [transaction_pool EXCEPT ![s] = transaction_pool[s] \ txs]
        /\ cross_shard_transactions' = cross_shard_transactions /\ routed' = routed
        /\ shard_validators' = shard_validators
    BY <1>4 DEF add_block
  <2>2. /\ confirmed' \in [Shards -> SUBSET ShardTxs]
        /\ transaction_pool' \in [Shards -> SUBSET ShardTxs]
    BY <1>0, <2>1
  <2>3. \A x \in Shards : /\ transaction_pool'[x] \subseteq transaction_pool[x]
                          /\ transaction_pool[x] \cup confirmed[x]
                                \subseteq transaction_pool'[x] \cup confirmed'[x]
    BY <1>0, <2>1
  <2>4. ASSUME NEW t \in routed'
        PROVE  \/ \E c \in cross_shard_transactions' : c.tx = t
               \/ t \in transaction_pool'[shardOf[t].receiver] \cup confirmed'[shardOf[t].receiver]
    BY <1>0, <1>a, <2>1, <2>3
  <2>5. \A x \in Shards : \A t \in transaction_pool'[x] : t \in routed' /\ shardOf[t].receiver = x
    BY <1>0, <2>1, <2>3
  <2> QED BY <1>0, <2>1, <2>2, <2>4, <2>5 DEF ShardingInv, ShardsKeepTransactions
<1>5. ASSUME NEW s \in Shards, NEW v \in ShardValidators, AssignValidator(s, v)
      PROVE  ShardingInv'
  <2>1. /\ shard_validators' = [shard_validators EXCEPT ![s] = shard_validators[s] \cup {v}]
        /\ \A x \in Shards : v \notin shard_validators[x]
        /\ UNCHANGED <<transaction_pool, cross_shard_transactions, confirmed, routed>>
    BY <1>5 DEF AssignValidator
  <2>2. shard_validators' \in [Shards -> SUBSET ShardValidators] BY <1>0, <2>1
  <2>3. \A y, x \in Shards : y # x => shard_validators'[y] \cap shard_validators'[x] = {}
    BY <1>0, <2>1
  <2> QED BY <1>0, <2>1, <2>2, <2>3 DEF ShardingInv, ShardsKeepTransactions
<1>6. ASSUME shuffle_validators PROVE ShardingInv'
  <2>1. UNCHANGED <<transaction_pool, cross_shard_transactions, confirmed, routed>>
    BY <1>6 DEF shuffle_validators
  <2>2. CASE UNCHANGED shard_validators BY <1>1, <2>1, <2>2
  <2>3. CASE /\ shard_validators' \in [Shards -> SUBSET UNION {shard_validators[x] : x \in Shards}]
             /\ Shuffled(shard_validators')
    <3>1. UNION {shard_validators[x] : x \in Shards} \subseteq ShardValidators BY <1>0
    <3>2. shard_validators' \in [Shards -> SUBSET ShardValidators] BY <2>3, <3>1
    <3>3. \A s, x \in Shards : s # x => shard_validators'[s] \cap shard_validators'[x] = {}
      BY <2>3 DEF Shuffled
    <3> QED BY <1>0, <2>1, <3>2, <3>3 DEF ShardingInv, ShardsKeepTransactions
  <2> QED BY <1>6, <2>2, <2>3 DEF shuffle_validators
<1>7. ASSUME ShardTimePasses PROVE ShardingInv' BY <1>1, <1>7 DEF ShardTimePasses
<1>8. ASSUME UNCHANGED shardingVars PROVE ShardingInv' BY <1>1, <1>8 DEF shardingVars
<1> QED BY <1>2, <1>3, <1>4, <1>5, <1>6, <1>7, <1>8 DEF ShardingNext

-----------------------------------------------------------------------------
(* Pruning *)

PruningInv ==
    /\ state_history \in [PrunableBlocks -> Int]
    /\ recorded \in Nat /\ pruneTime \in Nat /\ max_blocks_to_keep \in Nat
    /\ \A b \in KeptStates : b < recorded /\ state_history[b] >= 0 /\ state_history[b] <= pruneTime
    /\ PruningLeavesNoGap

LEMMA PruningInitial ==
    ASSUME PruningInit PROVE PruningInv
BY PruningAssumption DEF PruningInit, PruningInv, PruningLeavesNoGap, KeptStates, Gone

LEMMA InRange ==
    ASSUME NEW x \in Nat, NEW n \in Nat, NEW c \in x .. (n - 1)
    PROVE  x \in Nat /\ x <= c /\ c < n /\ c \in Nat
OBVIOUS

LEMMA PruningStep ==
    ASSUME PruningInv, [PruningNext]_pruningVars PROVE PruningInv'
<1>0. /\ state_history \in [PrunableBlocks -> Int]
      /\ recorded \in Nat /\ pruneTime \in Nat /\ max_blocks_to_keep \in Nat
      /\ \A b \in KeptStates : b < recorded /\ state_history[b] >= 0 /\ state_history[b] <= pruneTime
      /\ ~cut => \A b \in KeptStates \ again : \A c \in b .. recorded - 1 :
                    c \in KeptStates /\ state_history[b] <= state_history[c]
  BY DEF PruningInv, PruningLeavesNoGap
<1>1. \A b : b \in KeptStates <=> b \in PrunableBlocks /\ state_history[b] # -1
  BY DEF KeptStates, Gone
<1>2. \A b : b \in KeptStates' <=> b \in PrunableBlocks /\ state_history'[b] # -1
  BY DEF KeptStates, Gone
<1>3. PrunableBlocks \subseteq Nat BY PruningAssumption DEF PrunableBlocks
<1>4. ASSUME UNCHANGED <<state_history, recorded, cut, again>>, max_blocks_to_keep' \in Nat,
             pruneTime' \in Nat, pruneTime' >= pruneTime
      PROVE  PruningInv'
  <2>1. KeptStates' = KeptStates BY <1>1, <1>2, <1>4
  <2>2. ASSUME NEW b \in KeptStates' PROVE state_history'[b] <= pruneTime'
    <3>1. state_history'[b] = state_history[b] /\ state_history[b] <= pruneTime BY <1>0, <1>4, <2>1
    <3>2. state_history[b] \in Int BY <1>0, <1>1, <2>1
    <3> QED BY <1>0, <1>4, <3>1, <3>2
  <2> QED BY <1>0, <1>4, <2>1, <2>2 DEF PruningInv, PruningLeavesNoGap
\* What is pruned are the oldest states, or a range was cut out.
<1>5. ASSUME NEW blocks, Prune(blocks),
             UNCHANGED <<recorded, pruneTime, max_blocks_to_keep, again>>,
             ~cut' => ~cut /\ \A b \in (KeptStates \ again) \ blocks : \A c \in b .. recorded - 1 : c \notin blocks
      PROVE  PruningInv'
  <2>1. state_history' = [b \in PrunableBlocks |-> IF b \in blocks THEN -1 ELSE state_history[b]]
    BY <1>5 DEF Prune, Gone
  <2>2. state_history' \in [PrunableBlocks -> Int] BY <1>0, <2>1
  <2>3. \A b : b \in KeptStates' <=> b \in KeptStates /\ b \notin blocks BY <1>1, <1>2, <2>1
  <2>4. \A b \in KeptStates' : state_history'[b] = state_history[b] BY <1>1, <2>1, <2>3
  <2>5. \A b \in KeptStates' :
           b < recorded' /\ state_history'[b] >= 0 /\ state_history'[b] <= pruneTime'
    BY <1>0, <1>5, <2>3, <2>4
  <2>6. ~cut' => \A b \in KeptStates' \ again' : \A c \in b .. recorded' - 1 :
                    c \in KeptStates' /\ state_history'[b] <= state_history'[c]
    BY <1>0, <1>5, <2>3, <2>4
  <2> QED BY <1>0, <1>5, <2>2, <2>5, <2>6 DEF PruningInv, PruningLeavesNoGap
<1>6. ASSUME PruneTimePasses PROVE PruningInv' BY <1>0, <1>4, <1>6 DEF PruneTimePasses
<1>7. ASSUME NEW b \in PrunableBlocks, record_block_state(b) PROVE PruningInv'
  <2>1. /\ b <= recorded
        /\ recorded' = IF b = recorded THEN recorded + 1 ELSE recorded
        /\ state_history' = [state_history EXCEPT
                                ![b] = IF state_history[b] = -1 THEN pruneTime ELSE state_history[b]]
        /\ again' = IF b < recorded /\ state_history[b] = -1 THEN again \cup {b} ELSE again
        /\ pruneTime' = pruneTime /\ cut' = cut /\ max_blocks_to_keep' = max_blocks_to_keep
    BY <1>7 DEF record_block_state, Gone
  <2>b. b \in Nat BY <1>3
  <2>2. CASE b \in KeptStates
    <3>1. state_history' = state_history BY <1>0, <1>1, <2>1, <2>2
    <3>2. b # recorded /\ again' = again BY <1>0, <1>1, <2>1, <2>2
    <3> QED BY <1>0, <1>4, <2>1, <3>1, <3>2
  \* A new block, or one that was pruned.
  <2>3. CASE b \notin KeptStates
    <3>1. state_history[b] = -1 BY <1>1, <2>3
    <3>2. state_history' = [state_history EXCEPT ![b] = pruneTime] BY <2>1, <3>1
    <3>3. state_history' \in [PrunableBlocks -> Int] BY <1>0, <3>2
    <3>4. \A c : c \in KeptStates' <=> c \in KeptStates \/ c = b BY <1>0, <1>1, <1>2, <3>2
    <3>5. \A c \in KeptStates : c # b /\ state_history'[c] = state_history[c]
      BY <1>0, <1>1, <2>3, <3>2
    <3>6. state_history'[b] = pruneTime BY <1>0, <3>2
    <3>a. /\ again \subseteq again' /\ recorded' \in Nat /\ b < recorded'
          /\ recorded <= recorded' /\ (b # recorded => b \in again' /\ recorded' = recorded)
      BY <1>0, <2>1, <2>b, <3>1
    <3>7. ASSUME NEW c \in KeptStates'
          PROVE  c < recorded' /\ state_history'[c] >= 0 /\ state_history'[c] <= pruneTime'
      <4>1. CASE c = b BY <1>0, <2>1, <3>6, <3>a, <4>1
      <4>2. CASE c # b
        <5>1. c \in KeptStates /\ state_history'[c] = state_history[c] /\ c \in Nat
          BY <1>1, <1>3, <3>4, <3>5, <4>2
        <5> QED BY <1>0, <2>1, <3>a, <5>1
      <4> QED BY <4>1, <4>2
    <3>8. ASSUME ~cut', NEW x \in KeptStates' \ again', NEW c \in x .. recorded' - 1
          PROVE  c \in KeptStates' /\ state_history'[x] <= state_history'[c]
      <4>1. CASE c = b BY <1>0, <2>1, <3>4, <3>6, <3>7, <3>8, <4>1
      <4>2. CASE c # b
        <5>0. x \in Nat /\ x <= c /\ c < recorded' /\ c \in Nat
          <6>1. x \in KeptStates' BY <3>8
          <6>2. x \in Nat BY <1>2, <1>3, <6>1
          <6>3. c \in x .. (recorded' - 1) BY <3>8
          <6>4. recorded' \in Nat BY <3>a
          <6> QED BY <6>2, <6>3, <6>4, InRange
        <5>1. c < recorded
          <6>1. CASE b = recorded BY <1>0, <2>1, <4>2, <5>0, <6>1
          <6>2. CASE b # recorded BY <3>a, <5>0, <6>2
          <6> QED BY <6>1, <6>2
        <5>2. x # b BY <1>0, <3>8, <3>a, <5>0, <5>1
        <5>3. x \in KeptStates \ again /\ c \in x .. recorded - 1
          BY <1>0, <3>4, <3>8, <3>a, <5>0, <5>1, <5>2
        <5> QED BY <1>0, <2>1, <3>4, <3>5, <3>8, <5>3
      <4> QED BY <4>1, <4>2
    <3> QED BY <1>0, <2>1, <3>3, <3>7, <3>8, <3>a DEF PruningInv, PruningLeavesNoGap
  <2> QED BY <2>2, <2>3
<1>8. ASSUME NEW n \in 0 .. recorded - 1, calculate_prune_range(n)
      PROVE  PruningInv'
  <2>1. ASSUME NEW b \in KeptStates \ PruneRange(n), NEW c \in b .. recorded - 1
        PROVE  c \notin PruneRange(n)
    <3>1. b \in Nat BY <1>1, <1>3
    <3> QED BY <1>0, <3>1 DEF PruneRange
  <2> QED BY <1>5, <1>8, <2>1 DEF calculate_prune_range
<1>9. ASSUME NEW age \in MaxAges, prune_old_states(age) PROVE PruningInv'
  <2> DEFINE old == {b \in KeptStates : pruneTime - state_history[b] > age}
  <2>1. ASSUME ~cut
        PROVE  \A b \in (KeptStates \ again) \ old : \A c \in b .. recorded - 1 : c \notin old
    <3>1. age \in Nat BY PruningAssumption
    <3>2. ASSUME NEW b \in (KeptStates \ again) \ old, NEW c \in b .. recorded - 1, c \in old PROVE FALSE
      <4>1. /\ state_history[b] <= state_history[c] /\ c \in KeptStates
            /\ state_history[b] \in Int /\ state_history[c] \in Int
        BY <1>0, <1>1, <2>1, <3>2
      <4>2. pruneTime - state_history[c] > age /\ ~(pruneTime - state_history[b] > age) BY <3>2
      <4> QED BY ONLY <1>0, <3>1, <4>1, <4>2
    <3> QED BY <3>2
  <2>2. /\ Prune(old) /\ UNCHANGED <<recorded, pruneTime, max_blocks_to_keep, cut, again>>
    BY <1>9 DEF prune_old_states
  <2> HIDE DEF old
  <2> QED BY <1>5, <2>1, <2>2
<1>10. ASSUME NEW first, NEW end, prune_states_by_range(first, end) PROVE PruningInv'
  BY <1>5, <1>10 DEF prune_states_by_range
<1>11. ASSUME StatePruning_clear PROVE PruningInv'
  <2>1. KeptStates \ PrunableBlocks = {} BY <1>1
  <2> QED BY <1>5, <1>11, <2>1 DEF StatePruning_clear
<1>12. ASSUME NEW e, set_enabled(e) PROVE PruningInv' BY <1>0, <1>4, <1>12 DEF set_enabled
<1>13. ASSUME NEW n \in KeptBlocks, set_max_blocks_to_keep(n) PROVE PruningInv'
  BY PruningAssumption, <1>0, <1>4, <1>13 DEF set_max_blocks_to_keep
<1>14. ASSUME UNCHANGED pruningVars PROVE PruningInv' BY <1>0, <1>4, <1>14 DEF pruningVars
<1> QED BY <1>6, <1>7, <1>8, <1>9, <1>10, <1>11, <1>12, <1>13, <1>14 DEF PruningNext

-----------------------------------------------------------------------------
(* Balances *)

Payment == [sender : Accounts, receiver : Accounts, amount : Nat]

\* What a has at one end of the payments ps.
PassedOn(ps, a, end) ==
    [i \in DOMAIN ps |-> IF ps[i][end] = a THEN ps[i].amount ELSE 0]
Passed(ps, a, end) == SumFunctionOnSet(PassedOn(ps, a, end), DOMAIN ps)

LEMMA PassedOnIs ==
    ASSUME NEW ps \in Seq(Payment), NEW a, NEW end
    PROVE  /\ DOMAIN ps = 1 .. Len(ps) /\ Len(ps) \in Nat /\ IsFiniteSet(DOMAIN ps)
           /\ \A i \in DOMAIN ps : PassedOn(ps, a, end)[i] \in Int
<1>1. DOMAIN ps = 1 .. Len(ps) /\ Len(ps) \in Nat OBVIOUS
<1>2. IsFiniteSet(DOMAIN ps)
  <2>1. 1 \in Int /\ Len(ps) \in Int BY <1>1
  <2>2. IsFiniteSet(1 .. Len(ps)) BY ONLY <2>1, FS_Interval
  <2> QED BY <1>1, <2>2
<1>3. ASSUME NEW i \in DOMAIN ps PROVE PassedOn(ps, a, end)[i] \in Int
  <2>1. ps[i] \in Payment OBVIOUS
  <2>2. ps[i].amount \in Int BY <2>1 DEF Payment
  <2> QED BY <2>2 DEF PassedOn
<1> QED BY <1>1, <1>2, <1>3

\* Through is that sum.
LEMMA ThroughIs ==
    ASSUME NEW s, s.transactions \in Seq(Payment), NEW a, NEW end
    PROVE  Through(s, a, end) = Passed(s.transactions, a, end)
<1> DEFINE ps == s.transactions
           S == DOMAIN ps
           f == PassedOn(ps, a, end)
           D == SUBSET S
           m == [t \in D |-> Max(t)]
           body(g) == [t \in D |-> IF t = {} THEN 0
                                   ELSE g[t \ {Max(t)}]
                                          + IF ps[Max(t)][end] = a THEN ps[Max(t)].amount ELSE 0]
           I == CHOOSE g : g = body(g)
           w == [t \in D |-> SumFunctionOnSet(f, t)]
<1>1. Through(s, a, end) = I[S] BY DEF Through, FoldLeft, MapThenFoldSet
<1>2. /\ S = 1 .. Len(ps) /\ Len(ps) \in Nat /\ IsFiniteSet(S) /\ \A i \in S : f[i] \in Int
  BY PassedOnIs
<1>3. \A i \in S : f[i] = IF ps[i][end] = a THEN ps[i].amount ELSE 0 BY DEF PassedOn
<1>4. ASSUME NEW t \in D, t # {} PROVE m[t] = Max(t) /\ Max(t) \in t
  <2>1. Max(t) = Greatest(t) BY DEF Max, Greatest
  <2>2. Greatest(t) \in t BY <1>2, <1>4, GreatestIn
  <2> QED BY <2>1, <2>2
<1>5. FoldsUp(f, S, m, w)
  <2>1. \A t \in SUBSET S : t # {} => m[t] \in t BY <1>4
  <2> HIDE DEF f, m, S
  <2> QED BY <1>2, <2>1, SumFoldsUp
<1> HIDE DEF ps
<1>6. w = body(w)
  <2> HIDE DEF w
  <2>1. w = [t \in D |-> w[t]] BY <1>5 DEF FoldsUp
  <2>2. ASSUME NEW t \in D PROVE w[t] = body(w)[t]
    <3>1. w[t] = IF t = {} THEN 0 ELSE w[t \ {m[t]}] + f[m[t]] BY <1>5 DEF FoldsUp
    <3>2. CASE t = {} BY <3>1, <3>2
    <3>3. CASE t # {}
      <4>1. m[t] = Max(t) /\ Max(t) \in S BY <1>4, <3>3
      <4>2. f[Max(t)] = IF ps[Max(t)][end] = a THEN ps[Max(t)].amount ELSE 0 BY <1>3, <4>1
      <4> HIDE DEF m, f
      <4> QED BY <3>1, <3>3, <4>1, <4>2
    <3> QED BY <3>2, <3>3
  <2> QED BY <2>1, <2>2
<1>7. I = body(I) BY <1>6
<1> HIDE DEF I
<1>8. FoldsUp(f, S, m, I)
  <2>1. I = [t \in D |-> I[t]] BY <1>7
  <2>2. ASSUME NEW t \in D PROVE I[t] = IF t = {} THEN 0 ELSE I[t \ {m[t]}] + f[m[t]]
    <3>1. I[t] = IF t = {} THEN 0 ELSE I[t \ {Max(t)}]
                    + IF ps[Max(t)][end] = a THEN ps[Max(t)].amount ELSE 0
      BY <1>7
    <3>2. CASE t = {} BY <3>1, <3>2
    <3>3. CASE t # {}
      <4>1. m[t] = Max(t) /\ Max(t) \in S BY <1>4, <3>3
      <4>2. f[Max(t)] = IF ps[Max(t)][end] = a THEN ps[Max(t)].amount ELSE 0 BY <1>3, <4>1
      <4> HIDE DEF m, f
      <4> QED BY <3>1, <3>3, <4>1, <4>2
    <3> QED BY <3>2, <3>3
  <2> HIDE DEF m, f
  <2> QED BY <2>1, <2>2 DEF FoldsUp
<1>9. I[S] = SumFunctionOnSet(f, S)
  <2>1. \A t \in SUBSET S : t # {} => m[t] \in t BY <1>4
  <2> HIDE DEF f, m, S
  <2> QED BY <1>2, <1>8, <2>1, FoldIsSum
<1> QED BY <1>1, <1>9 DEF Passed, ps

\* One payment more brings its amount to its ends.
LEMMA PassedAppend ==
    ASSUME NEW ps \in Seq(Payment), NEW p \in Payment, NEW a, NEW end
    PROVE  /\ Passed(Append(ps, p), a, end)
                 = Passed(ps, a, end) + IF p[end] = a THEN p.amount ELSE 0
           /\ Passed(ps, a, end) \in Int
<1> DEFINE q == Append(ps, p)
           n == Len(ps)
           f == PassedOn(ps, a, end)
           h == PassedOn(q, a, end)
<1>1. /\ q \in Seq(Payment) /\ n \in Nat /\ DOMAIN ps = 1 .. n /\ DOMAIN q = 1 .. (n + 1)
      /\ q[n + 1] = p /\ \A i \in 1 .. n : q[i] = ps[i]
      /\ (1 .. (n + 1)) \ {n + 1} = 1 .. n
  OBVIOUS
<1> HIDE DEF q
<1>2. /\ \A i \in 1 .. n : f[i] \in Int
      /\ \A i \in 1 .. (n + 1) : h[i] \in Int
      /\ IsFiniteSet(1 .. n) /\ IsFiniteSet(1 .. (n + 1))
  BY <1>1, PassedOnIs
<1>3. /\ \A i \in 1 .. n : h[i] = f[i]
      /\ h[n + 1] = IF p[end] = a THEN p.amount ELSE 0
  BY <1>1 DEF PassedOn
<1> HIDE DEF n, f, h
<1>4. SumFunctionOnSet(h, 1 .. n) = SumFunctionOnSet(f, 1 .. n)
  <2>1. \A i \in 1 .. n : f[i] \in Int /\ h[i] = f[i] BY <1>2, <1>3
  <2> QED BY <1>2, <2>1, SumSame
<1>5. SumFunctionOnSet(h, 1 .. (n + 1)) = SumFunctionOnSet(h, 1 .. n) + h[n + 1]
  <2>1. n + 1 \in 1 .. (n + 1) BY <1>1
  <2>2. SumFunctionOnSet(h, 1 .. (n + 1))
           = SumFunctionOnSet(h, (1 .. (n + 1)) \ {n + 1}) + h[n + 1]
    BY <1>2, <2>1, SumWithout
  <2> QED BY <1>1, <2>2
<1>6. SumFunctionOnSet(f, 1 .. n) \in Int BY <1>2, SumType
<1>7. /\ Passed(ps, a, end) = SumFunctionOnSet(f, 1 .. n)
      /\ Passed(q, a, end) = SumFunctionOnSet(h, 1 .. (n + 1))
  BY <1>1 DEF Passed, f, h
<1> QED BY <1>3, <1>4, <1>5, <1>6, <1>7 DEF q

\* What a state knows of an account.
BalanceOf(s, a) ==
    /\ s.balance[a] = s.base[a] + Passed(s.transactions, a, "receiver")
                                - Passed(s.transactions, a, "sender")
    /\ s.balance[a] >= 0

RightStates ==
    {s \in [balance : [Accounts -> Int], transactions : Seq(Payment), base : [Accounts -> Int]] :
        \A a \in Accounts : BalanceOf(s, a)}

AccountInv ==
    /\ state \in RightStates
    /\ history \in Seq([blockHeight : Nat, state : RightStates])
    /\ blockHeight \in Nat /\ alias \in 0 .. Len(history)

LEMMA RightParts ==
    ASSUME NEW s \in RightStates
    PROVE  /\ s \in [balance : [Accounts -> Int], transactions : Seq(Payment),
                     base : [Accounts -> Int]]
           /\ s.balance \in [Accounts -> Int] /\ s.base \in [Accounts -> Int]
           /\ s.transactions \in Seq(Payment)
           /\ \A a \in Accounts : BalanceOf(s, a)
BY DEF RightStates

LEMMA EmptyIsRight == Empty \in RightStates
<1>1. ASSUME NEW a \in Accounts, NEW end PROVE Passed(<<>>, a, end) = 0
  <2>1. <<>> \in Seq(Payment) /\ DOMAIN <<>> = {} OBVIOUS
  <2>2. IsFiniteSet(DOMAIN <<>>) BY <2>1, PassedOnIs
  <2>3. \A i \in DOMAIN <<>> : PassedOn(<<>>, a, end)[i] = 0 BY <2>1
  <2> QED BY <2>2, <2>3, SumZero DEF Passed
<1>2. /\ Empty \in [balance : [Accounts -> Int], transactions : Seq(Payment),
                    base : [Accounts -> Int]]
      /\ Empty.transactions = <<>>
      /\ \A a \in Accounts : Empty.balance[a] = 0 /\ Empty.base[a] = 0
  BY DEF Empty
<1>3. \A a \in Accounts : BalanceOf(Empty, a) BY <1>1, <1>2 DEF BalanceOf
<1> QED BY <1>2, <1>3 DEF RightStates

\* Balances after a payment, which may be to its sender.
LEMMA PaidIs ==
    ASSUME NEW b \in [Accounts -> Int], NEW p \in Payment
    PROVE  /\ Paid(b, p) \in [Accounts -> Int]
           /\ \A a \in Accounts : Paid(b, p)[a] = b[a] - (IF p.sender = a THEN p.amount ELSE 0)
                                                      + IF p.receiver = a THEN p.amount ELSE 0
<1> DEFINE x == p.sender
           y == p.receiver
           n == p.amount
           d == [b EXCEPT ![x] = b[x] - n]
           c == [d EXCEPT ![y] = d[y] + n]
<1>1. x \in Accounts /\ y \in Accounts /\ n \in Int /\ Paid(b, p) = c BY DEF Payment, Paid
<1> HIDE DEF x, y, n
<1>2. d \in [Accounts -> Int] BY <1>1
<1>3. c \in [Accounts -> Int] BY <1>1, <1>2
<1>4. ASSUME NEW a \in Accounts
      PROVE  c[a] = b[a] - (IF x = a THEN n ELSE 0) + IF y = a THEN n ELSE 0
  <2>1. b[a] \in Int /\ d[a] \in Int BY <1>2
  <2>2. d[a] = b[a] - IF x = a THEN n ELSE 0 BY <1>1, <2>1
  <2>3. c[a] = d[a] + IF y = a THEN n ELSE 0
    <3> HIDE DEF d
    <3> QED BY <1>1, <1>2, <2>1
  <2> QED BY <2>2, <2>3
<1> QED BY <1>1, <1>3, <1>4 DEF x, y, n

\* A payment leaves a state right.
LEMMA AppliedOneIsRight ==
    ASSUME NEW s \in RightStates, NEW p \in Payment
    PROVE  AppliedOne(s, p) \in RightStates
<1> DEFINE b == s.balance
           c == Paid(b, p)
           q == Append(s.transactions, p)
           r == [balance |-> c, transactions |-> q, base |-> s.base]
<1>1. /\ b \in [Accounts -> Int] /\ s.base \in [Accounts -> Int]
      /\ s.transactions \in Seq(Payment) /\ \A a \in Accounts : BalanceOf(s, a)
      /\ s \in [balance : [Accounts -> Int], transactions : Seq(Payment),
                base : [Accounts -> Int]]
  BY RightParts
<1>2. p.sender \in Accounts /\ p.receiver \in Accounts /\ p.amount \in Nat BY DEF Payment
<1>3. AppliedOne(s, p) = IF b[p.sender] < p.amount THEN s ELSE r
  <2>2. [s EXCEPT !.balance = c, !.transactions = q] = r
    <3> DEFINE e == [s EXCEPT !.balance = c, !.transactions = q]
    <3> HIDE DEF c, q
    <3>1. /\ e \in [balance : {c}, transactions : {q}, base : [Accounts -> Int]]
          /\ e.balance = c /\ e.transactions = q /\ e.base = s.base
      BY <1>1
    <3> HIDE DEF e
    <3>2. e = [balance |-> e.balance, transactions |-> e.transactions, base |-> e.base] BY <3>1
    <3> QED BY <3>1, <3>2 DEF e
  <2> QED BY <2>2 DEF AppliedOne
<1>4. CASE b[p.sender] < p.amount BY <1>3, <1>4
<1>5. CASE ~(b[p.sender] < p.amount)
  <2>1. /\ r.balance = c /\ r.base = s.base /\ r.transactions = Append(s.transactions, p)
        /\ r = [balance |-> c, transactions |-> Append(s.transactions, p), base |-> s.base]
    OBVIOUS
  <2> HIDE DEF r
  <2>2. /\ c \in [Accounts -> Int]
        /\ \A a \in Accounts :
              c[a] = b[a] - (IF p.sender = a THEN p.amount ELSE 0)
                          + IF p.receiver = a THEN p.amount ELSE 0
    BY <1>1, PaidIs
  <2> HIDE DEF c
  <2>4. ASSUME NEW a \in Accounts PROVE BalanceOf(r, a)
    <3>1. /\ Passed(r.transactions, a, "receiver")
                = Passed(s.transactions, a, "receiver") + IF p.receiver = a THEN p.amount ELSE 0
          /\ Passed(s.transactions, a, "receiver") \in Int
      <4>1. p["receiver"] = p.receiver BY DEF Payment
      <4> QED BY <1>1, <2>1, <4>1, PassedAppend
    <3>2. /\ Passed(r.transactions, a, "sender")
                = Passed(s.transactions, a, "sender") + IF p.sender = a THEN p.amount ELSE 0
          /\ Passed(s.transactions, a, "sender") \in Int
      <4>1. p["sender"] = p.sender BY DEF Payment
      <4> QED BY <1>1, <2>1, <4>1, PassedAppend
    <3>3. /\ b[a] = s.base[a] + Passed(s.transactions, a, "receiver")
                              - Passed(s.transactions, a, "sender")
          /\ b[a] >= 0 /\ b[a] \in Int /\ s.base[a] \in Int
      BY <1>1 DEF BalanceOf
    <3>4. r.balance[a] = b[a] - (IF p.sender = a THEN p.amount ELSE 0)
                       + (IF p.receiver = a THEN p.amount ELSE 0)
          /\ r.base[a] = s.base[a]
      BY <2>1, <2>2
    <3> HIDE DEF b
    <3>5. r.balance[a] >= 0
      <4>1. p.sender = a => b[a] >= p.amount BY <1>2, <1>5, <3>3
      <4> QED BY <1>2, <3>3, <3>4, <4>1
    <3>6. r.balance[a] = r.base[a] + Passed(r.transactions, a, "receiver")
                                   - Passed(r.transactions, a, "sender")
      BY <1>2, <3>1, <3>2, <3>3, <3>4
    <3> QED BY <3>5, <3>6 DEF BalanceOf
  <2>5. Append(s.transactions, p) \in Seq(Payment) BY <1>1
  <2>6. r \in RightStates BY <1>1, <2>1, <2>2, <2>4, <2>5 DEF RightStates
  <2> QED BY <1>3, <1>5, <2>6
<1> QED BY <1>4, <1>5

\* So do any payments, one after the other.
LEMMA AppliedIsRight ==
    ASSUME NEW s \in RightStates, NEW ps \in Seq(Payment)
    PROVE  applyTransactions(s, ps) \in RightStates
<1> DEFINE n == Len(ps)
           step == [i \in 1 .. n |-> [b \in RightStates |-> AppliedOne(b, ps[i])]]
           D == SUBSET DOMAIN ps
           body(g) == [t \in D |-> IF t = {} THEN s
                                   ELSE AppliedOne(g[t \ {Max(t)}], ps[Max(t)])]
           I == CHOOSE g : g = body(g)
<1>1. applyTransactions(s, ps) = I[DOMAIN ps]
  BY DEF applyTransactions, FoldLeft, MapThenFoldSet
<1>2. n \in Nat /\ DOMAIN ps = 1 .. n /\ \A i \in 1 .. n : ps[i] \in Payment OBVIOUS
<1>3. \A i \in 1 .. n : \A b \in RightStates :
         step[i][b] = AppliedOne(b, ps[i]) /\ step[i][b] \in RightStates
  BY <1>2, AppliedOneIsRight
<1>4. PICK g \in [SUBSET (1 .. n) -> RightStates] : FoldsTo(1 .. n, s, step, g)
  <2> HIDE DEF n, step
  <2>1. \A i \in 1 .. n : \A b \in RightStates : step[i][b] \in RightStates BY <1>3
  <2> QED BY <1>2, <2>1, FoldExists
<1> HIDE DEF step, n
<1>5. g = body(g)
  <2>1. D = SUBSET (1 .. n) BY <1>2
  <2>2. ASSUME NEW t \in SUBSET (1 .. n), t # {}
        PROVE  g[t] = AppliedOne(g[t \ {Max(t)}], ps[Max(t)])
    <3>1. Max(t) = Greatest(t) BY DEF Max, Greatest
    <3>2. Greatest(t) \in t BY <1>2, <2>2, GreatestIn
    <3>3. g[t] = step[Greatest(t)][g[t \ {Greatest(t)}]] BY <1>4, <2>2 DEF FoldsTo
    <3>4. t \ {Greatest(t)} \in SUBSET (1 .. n) OBVIOUS
    <3>5. g[t \ {Max(t)}] \in RightStates /\ Max(t) \in 1 .. n BY <3>1, <3>2, <3>4
    <3> QED BY <1>3, <3>1, <3>3, <3>5
  <2>3. g[{}] = s BY <1>4 DEF FoldsTo
  <2>4. \A t \in SUBSET (1 .. n) : g[t] = body(g)[t] BY <2>1, <2>2, <2>3
  <2>5. DOMAIN g = D BY <2>1
  <2> QED BY <2>1, <2>4, <2>5
<1>6. I = body(I) BY <1>5
<1> HIDE DEF I
\* The two are the same, part by part.
<1>7. \A t \in SUBSET (1 .. n) : I[t] = g[t]
  <2> DEFINE Bad == {t \in SUBSET (1 .. n) : I[t] # g[t]}
  <2> SUFFICES ASSUME Bad # {} PROVE FALSE OBVIOUS
  <2>1. IsFiniteSet(1 .. n)
    <3>1. 1 \in Int /\ n \in Int BY <1>2
    <3> QED BY ONLY <3>1, FS_Interval
  <2>2. PICK t \in Bad : \A x \in t : t \ {x} \notin Bad
    <3>1. Bad \subseteq SUBSET (1 .. n) OBVIOUS
    <3> HIDE DEF Bad
    <3> QED BY <2>1, <3>1, LeastSubset
  <2>3. D = SUBSET (1 .. n) BY <1>2
  <2>4. t # {}
    <3>1. I[{}] = s /\ g[{}] = s BY <1>5, <1>6, <2>3
    <3> QED BY <2>2, <3>1
  <2>5. Max(t) \in t
    <3>1. Max(t) = Greatest(t) BY DEF Max, Greatest
    <3>2. Greatest(t) \in t BY <1>2, <2>2, <2>4, GreatestIn
    <3> QED BY <3>1, <3>2
  <2>6. I[t \ {Max(t)}] = g[t \ {Max(t)}] BY <2>2, <2>5
  <2>7. t \in D BY <2>2, <2>3
  <2> HIDE DEF D
  <2>8. I[t] = AppliedOne(I[t \ {Max(t)}], ps[Max(t)]) BY <1>6, <2>4, <2>7
  <2>9. g[t] = AppliedOne(g[t \ {Max(t)}], ps[Max(t)]) BY <1>5, <2>4, <2>7
  <2> QED BY <2>2, <2>6, <2>8, <2>9
<1>8. g[1 .. n] \in RightStates
  <2>1. 1 .. n \in SUBSET (1 .. n) OBVIOUS
  <2> QED BY <2>1
<1>9. I[1 .. n] = g[1 .. n] BY <1>7
<1> QED BY <1>1, <1>2, <1>8, <1>9

\* A balance that is set is the start of what follows.
LEMMA SetBalanceIsRight ==
    ASSUME NEW s \in RightStates, NEW a \in Accounts, NEW n \in Nat
    PROVE  [s EXCEPT !.balance[a] = n, !.base[a] = @ + n - s.balance[a]] \in RightStates
<1> DEFINE c == [s.balance EXCEPT ![a] = n]
           e == [s.base EXCEPT ![a] = s.base[a] + n - s.balance[a]]
           r == [s EXCEPT !.balance[a] = n, !.base[a] = @ + n - s.balance[a]]
<1>1. /\ s.balance \in [Accounts -> Int] /\ s.base \in [Accounts -> Int]
      /\ s.transactions \in Seq(Payment) /\ \A x \in Accounts : BalanceOf(s, x)
      /\ s \in [balance : [Accounts -> Int], transactions : Seq(Payment),
                base : [Accounts -> Int]]
  BY RightParts
<1>2. r = [balance |-> c, transactions |-> s.transactions, base |-> e]
  <2>0. s \in [balance : [Accounts -> Int], transactions : Seq(Payment),
               base : [Accounts -> Int]]
    BY <1>1
  <2>1. DOMAIN r = {"balance", "transactions", "base"} BY <2>0
  <2>2. r.balance = c BY <2>0
  <2>3. r.base = e BY <2>0
  <2>4. r.transactions = s.transactions BY <2>0
  <2>5. r = [x \in DOMAIN r |-> r[x]] OBVIOUS
  <2> HIDE DEF r, c, e
  <2>6. r = [balance |-> r.balance, transactions |-> r.transactions, base |-> r.base]
    BY <2>1, <2>5
  <2> QED BY <2>2, <2>3, <2>4, <2>6
<1>3. r.balance = c /\ r.transactions = s.transactions /\ r.base = e BY <1>2
<1>4. c \in [Accounts -> Int] /\ e \in [Accounts -> Int] BY <1>1
<1> HIDE DEF r
<1>5. ASSUME NEW x \in Accounts PROVE BalanceOf(r, x)
  <2>1. /\ s.balance[x] = s.base[x] + Passed(s.transactions, x, "receiver")
                                    - Passed(s.transactions, x, "sender")
        /\ s.balance[x] >= 0 /\ s.balance[x] \in Int /\ s.base[x] \in Int
    BY <1>1 DEF BalanceOf
  <2>2. /\ Passed(s.transactions, x, "receiver") \in Int
        /\ Passed(s.transactions, x, "sender") \in Int
    <3>1. \A end : Passed(s.transactions, x, end) \in Int
      <4> SUFFICES ASSUME NEW end PROVE Passed(s.transactions, x, end) \in Int OBVIOUS
      <4>1. /\ IsFiniteSet(DOMAIN s.transactions)
            /\ \A i \in DOMAIN s.transactions : PassedOn(s.transactions, x, end)[i] \in Int
        BY <1>1, PassedOnIs
      <4> QED BY <4>1, SumType DEF Passed
    <3> QED BY <3>1
  <2>3. CASE x = a
    <3>1. c[x] = n /\ e[x] = s.base[x] + n - s.balance[x] BY <1>1, <2>3
    <3> QED BY <1>3, <2>1, <2>2, <3>1 DEF BalanceOf
  <2>4. CASE x # a
    <3>1. c[x] = s.balance[x] /\ e[x] = s.base[x] BY <1>1, <2>4
    <3> QED BY <1>3, <2>1, <3>1 DEF BalanceOf
  <2> QED BY <2>3, <2>4
<1> HIDE DEF c, e
<1>6. r \in RightStates BY <1>1, <1>2, <1>4, <1>5 DEF RightStates
<1> QED BY <1>6 DEF r

\* A snapshot is right.
LEMMA SnapshotIsRight ==
    ASSUME AccountInv, NEW i \in 1 .. Len(history)
    PROVE  /\ history[i] \in [blockHeight : Nat, state : RightStates]
           /\ DOMAIN history = 1 .. Len(history)
<1> DEFINE Snapshots == [blockHeight : Nat, state : RightStates]
<1>1. history \in Seq(Snapshots) BY DEF AccountInv
<1> HIDE DEF Snapshots
<1>2. history[i] \in Snapshots /\ DOMAIN history = 1 .. Len(history) BY <1>1
<1> QED BY <1>2 DEF Snapshots

LEMMA AccountInitial == AccountStateInit => AccountInv
BY EmptyIsRight DEF AccountStateInit, AccountInv

\* A state that is right is written, and so may be the snapshot it is
\* (applyTransactions, setBalance after revertToBlockHeight).
LEMMA WrittenIsRight ==
    ASSUME AccountInv, NEW s \in RightStates, Write(s)
    PROVE  /\ state' \in RightStates /\ Len(history') = Len(history)
           /\ history' \in Seq([blockHeight : Nat, state : RightStates])
<1> DEFINE Snapshots == [blockHeight : Nat, state : RightStates]
<1>1. state' = s /\ alias \in 0 .. Len(history) /\ history \in Seq(Snapshots)
  BY DEF Write, AccountInv
<1>2. CASE alias = 0
  <2>1. history' = history BY <1>2 DEF Write
  <2> QED BY <1>1, <2>1
<1>3. CASE alias # 0
  <2> DEFINE one == [history[alias] EXCEPT !.state = s]
  <2>0. alias \in 1 .. Len(history)
    <3> HIDE DEF Snapshots
    <3> QED BY <1>1, <1>3
  <2>1. alias \in 1 .. Len(history) /\ history[alias] \in Snapshots BY <2>0, SnapshotIsRight
  <2>2. one \in Snapshots BY <2>1
  <2>3. history' = [history EXCEPT ![alias] = one] BY <1>3, <2>1 DEF Write
  <2> HIDE DEF one, Snapshots
  <2>4. history' \in Seq(Snapshots) /\ Len(history') = Len(history) BY <1>1, <2>1, <2>2, <2>3
  <2> QED BY <1>1, <2>4 DEF Snapshots
<1> QED BY <1>2, <1>3

LEMMA AccountStep == AccountInv /\ [AccountStateNext]_accountVars => AccountInv'
<1> SUFFICES ASSUME AccountInv, [AccountStateNext]_accountVars PROVE AccountInv' OBVIOUS
<1> DEFINE Snapshots == [blockHeight : Nat, state : RightStates]
<1>0. /\ state \in RightStates /\ history \in Seq(Snapshots)
      /\ blockHeight \in Nat /\ alias \in 0 .. Len(history) /\ Len(history) \in Nat
  BY DEF AccountInv
<1>1. ASSUME NEW index \in 1 .. MaxBlockIndex, NEW txs \in Blocks, applyBlock(index, txs)
      PROVE  AccountInv'
  <2>1. txs \in Seq(Payment)
    <3>1. \A f \in Accounts, t \in Accounts, n \in Transfers : Tx(f, t, n) \in Payment
      BY AccountStateAssumption DEF Tx, Payment
    <3>2. ASSUME NEW p \in Payment, NEW q \in Payment
          PROVE  <<p>> \in Seq(Payment) /\ <<p, q>> \in Seq(Payment)
      BY <3>2
    <3>3. PICK f \in Accounts, t \in Accounts, n \in Transfers :
             txs = <<Tx(f, t, n)>> \/ txs = <<Tx(f, t, n), Tx(t, f, n)>>
      BY DEF Blocks
    <3>4. Tx(f, t, n) \in Payment /\ Tx(t, f, n) \in Payment BY <3>1
    <3> QED BY <3>2, <3>3, <3>4
  <2>2. applyTransactions(state, txs) \in RightStates BY <1>0, <2>1, AppliedIsRight
  <2>3. /\ state' \in RightStates /\ Len(history') = Len(history)
        /\ history' \in Seq(Snapshots)
    BY <1>1, <2>2, WrittenIsRight DEF applyBlock
  <2>4. blockHeight' = index /\ alias' = alias BY <1>1 DEF applyBlock
  <2> QED BY <1>0, <2>3, <2>4, AccountStateAssumption DEF AccountInv
<1>2. ASSUME NEW a \in Accounts, NEW n \in Balances, setBalance(a, n) PROVE AccountInv'
  <2> DEFINE s == [state EXCEPT !.balance[a] = n, !.base[a] = @ + n - state.balance[a]]
  <2>1. n \in Nat BY AccountStateAssumption
  <2>2. s \in RightStates BY <1>0, <2>1, SetBalanceIsRight
  <2>3. Write(s) /\ blockHeight' = blockHeight /\ alias' = alias BY <1>2 DEF setBalance
  <2> HIDE DEF s
  <2>4. /\ state' \in RightStates /\ Len(history') = Len(history)
        /\ history' \in Seq(Snapshots)
    BY <2>2, <2>3, WrittenIsRight
  <2> QED BY <1>0, <2>3, <2>4 DEF AccountInv
<1>3. ASSUME NEW h \in 0 .. MaxBlockIndex, revertToBlockHeight(h) PROVE AccountInv'
  <2> DEFINE at == {i \in DOMAIN history : history[i].blockHeight = h}
             i == Min(at)
  <2>1. at # {} /\ at \subseteq 1 .. Len(history) BY <1>0, <1>3 DEF revertToBlockHeight
  <2>2. i \in at
    <3> HIDE DEF at
    <3>1. \E x \in at : \A y \in at : x <= y
      <4>1. at \in SUBSET Nat BY <1>0, <2>1
      <4> QED BY <2>1, <4>1, Least
    <3> QED BY <3>1 DEF Min
  <2>3. /\ state' = history[i].state /\ alias' = i /\ blockHeight' = h /\ history' = history
    BY <1>3 DEF revertToBlockHeight
  <2> HIDE DEF i
  <2>4. i \in 1 .. Len(history) /\ history[i] \in Snapshots BY <2>1, <2>2, SnapshotIsRight
  <2> QED BY <1>0, <2>3, <2>4, AccountStateAssumption DEF AccountInv
<1>4. ASSUME saveHistory PROVE AccountInv'
  <2> DEFINE one == [blockHeight |-> blockHeight, state |-> state]
  <2>1. one \in Snapshots BY <1>0
  <2>2. history' = Append(history, one) /\ UNCHANGED <<state, blockHeight, alias>>
    BY <1>4 DEF saveHistory
  <2> HIDE DEF one, Snapshots
  <2>3. history' \in Seq(Snapshots) /\ Len(history') = Len(history) + 1 BY <1>0, <2>1, <2>2
  <2> QED BY <1>0, <2>2, <2>3 DEF AccountInv, Snapshots
<1>5. CASE State_clear BY <1>0, <1>5, EmptyIsRight DEF State_clear, AccountInv
<1>6. CASE UNCHANGED accountVars BY <1>6 DEF accountVars, AccountInv
<1> QED BY <1>1, <1>2, <1>3, <1>4, <1>5, <1>6 DEF AccountStateNext

LEMMA AccountThen == AccountInv => BalancesFollowTransactions
<1> SUFFICES ASSUME AccountInv PROVE BalancesFollowTransactions OBVIOUS
<1>1. ASSUME NEW s \in RightStates, NEW a \in Accounts
      PROVE  /\ s.balance[a] = s.base[a] + Through(s, a, "receiver") - Through(s, a, "sender")
             /\ s.balance[a] >= 0
  <2>1. s.transactions \in Seq(Payment) /\ BalanceOf(s, a) BY RightParts
  <2>2. /\ Through(s, a, "receiver") = Passed(s.transactions, a, "receiver")
        /\ Through(s, a, "sender") = Passed(s.transactions, a, "sender")
    BY <2>1, ThroughIs
  <2> QED BY <2>1, <2>2 DEF BalanceOf
<1>2. {state} \cup {history[i].state : i \in DOMAIN history} \subseteq RightStates
  <2>1. DOMAIN history = 1 .. Len(history) BY DEF AccountInv
  <2>2. \A i \in DOMAIN history : history[i].state \in RightStates BY <2>1, SnapshotIsRight
  <2> QED BY <2>2 DEF AccountInv
<1> QED BY <1>1, <1>2 DEF BalancesFollowTransactions

-----------------------------------------------------------------------------
(* Records *)

StorageInv ==
    /\ sources \in Seq(DataOf(model))
    /\ kept = [i \in 1 .. Len(sources) |-> FromData(sources[i])]

LEMMA StorageInitial == StorageInit => StorageInv
BY DEF StorageInit, StorageInv

LEMMA StorageStep == StorageInv /\ [StorageNext]_storageVars => StorageInv'
<1> SUFFICES ASSUME StorageInv, [StorageNext]_storageVars PROVE StorageInv' OBVIOUS
<1>1. ASSUME NEW data \in DataOf(model), Add(data) PROVE StorageInv'
  <2> DEFINE S == DataOf(model)
             n == Len(sources)
  <2>1. /\ kept' = Append(kept, FromData(data)) /\ sources' = Append(sources, data)
        /\ model' = model /\ data \in S
    BY <1>1 DEF Add
  <2>2. sources \in Seq(S) /\ kept = [i \in 1 .. n |-> FromData(sources[i])] BY DEF StorageInv
  <2> HIDE DEF S
  <2>3. /\ sources' \in Seq(S) /\ Len(sources') = n + 1 /\ n \in Nat
        /\ sources'[n + 1] = data /\ \A i \in 1 .. n : sources'[i] = sources[i]
    BY <2>1, <2>2
  <2> HIDE DEF n
  <2> DEFINE d == FromData(data)
             k == [i \in 1 .. (n + 1) |-> FromData(sources'[i])]
  <2>4. kept' = k
    <3>1. kept = [i \in 1 .. n |-> kept[i]] /\ Len(kept) = n BY <2>2, <2>3
    <3>2. DOMAIN kept' = 1 .. (n + 1) /\ kept' = [i \in 1 .. (n + 1) |-> kept'[i]]
          /\ kept'[n + 1] = d /\ \A i \in 1 .. n : kept'[i] = kept[i]
      BY <2>1, <2>3, <3>1
    <3>3. ASSUME NEW i \in 1 .. (n + 1) PROVE kept'[i] = FromData(sources'[i])
      <4>1. CASE i = n + 1 BY <2>3, <3>2, <4>1
      <4>2. CASE i # n + 1
        <5>1. i \in 1 .. n BY <2>3, <4>2
        <5>2. kept[i] = FromData(sources[i]) BY <2>2, <5>1
        <5> QED BY <2>3, <3>2, <5>1, <5>2
      <4> QED BY <4>1, <4>2
    <3> QED BY <3>2, <3>3
  <2> HIDE DEF k
  <2> QED BY <2>1, <2>3, <2>4 DEF StorageInv, S, k
<1>2. CASE StorageManager_clear BY <1>2 DEF StorageManager_clear, StorageInv
<1>3. CASE UNCHANGED storageVars BY <1>3 DEF storageVars, StorageInv
<1> QED BY <1>1, <1>2, <1>3 DEF StorageNext

\* The first record of a key, if there is one.
LEMMA FindIs ==
    ASSUME NEW k, Len(kept) \in Nat, DOMAIN kept = 1 .. Len(kept)
    PROVE  /\ Find(k) # NULL => Find(k) \in DOMAIN kept /\ kept[Find(k)][model.key] = k
           /\ \A i \in DOMAIN kept :
                 kept[i][model.key] = k => Find(k) # NULL /\ Find(k) <= i
<1> DEFINE I == {i \in 1 .. Len(kept) : kept[i][model.key] = k}
           first == IF I # {} THEN Min(I) ELSE 0
<1>1. Find(k) = IF first = 0 THEN NULL ELSE first BY DEF Find, SelectInSeq
<1>2. I # {} => Min(I) \in I /\ \A i \in I : Min(I) <= i
  <2>1. I \subseteq Nat OBVIOUS
  <2> HIDE DEF I
  <2> QED BY <2>1, Least DEF Min
<1>3. CASE I = {} BY <1>1, <1>3 DEF NULL
<1>4. CASE I # {}
  <2> DEFINE m == Min(I)
  <2>1. m \in I /\ \A i \in I : m <= i BY <1>2, <1>4
  <2>2. first = m BY <1>4
  <2> HIDE DEF m, first
  <2>3. m \in 1 .. Len(kept) /\ kept[m][model.key] = k BY <2>1
  <2>4. Find(k) = m /\ m # NULL BY <1>1, <2>2, <2>3 DEF NULL
  <2> QED BY <2>1, <2>3, <2>4
<1> QED BY <1>3, <1>4

LEMMA StorageThen == StorageInv => StoredIsFound
<1> SUFFICES ASSUME StorageInv, NEW i \in DOMAIN kept
             PROVE  /\ Errors(model, kept[i]) = {} =>
                          \A f \in model.needs : sources[i][f] = kept[i][f] /\ kept[i][f] # NULL
                    /\ LET k == sources[i][model.key]
                       IN  IF k \in {NULL, Falsy} THEN Find(Falsy) = NULL
                           ELSE Find(k) # NULL /\ Find(k) <= i /\ sources[Find(k)][model.key] = k
  BY DEF StoredIsFound
<1>1. /\ Len(sources) \in Nat /\ DOMAIN kept = 1 .. Len(sources) /\ Len(kept) = Len(sources)
      /\ \A j \in DOMAIN kept : kept[j] = FromData(sources[j]) /\ sources[j] \in DataOf(model)
  BY DEF StorageInv
<1>2. ASSUME NEW j \in DOMAIN kept, NEW f \in Fields(model)
      PROVE  kept[j][f] = IF sources[j][f] = Falsy THEN NULL ELSE sources[j][f]
  <2>1. DOMAIN sources[j] = Fields(model)
    <3>1. \A data \in DataOf(model) : DOMAIN data = Fields(model) BY DEF DataOf
    <3> QED BY <1>1, <3>1
  <2> QED BY <1>1, <2>1 DEF FromData
<1>3. model.needs \subseteq Fields(model) /\ model.key \in Fields(model) BY DEF Fields
<1>4. ASSUME Errors(model, kept[i]) = {}, NEW f \in model.needs
      PROVE  sources[i][f] = kept[i][f] /\ kept[i][f] # NULL
  <2>1. kept[i][f] # NULL BY <1>4 DEF Errors
  <2> QED BY <1>2, <1>3, <2>1
<1> DEFINE k == sources[i][model.key]
<1>5. ASSUME k \in {NULL, Falsy} PROVE Find(Falsy) = NULL
  <2>1. \A j \in DOMAIN kept : kept[j][model.key] # Falsy
    BY <1>2, <1>3 DEF NULL, Falsy
  <2> QED BY <1>1, <2>1, FindIs
<1>6. ASSUME k \notin {NULL, Falsy}
      PROVE  Find(k) # NULL /\ Find(k) <= i /\ sources[Find(k)][model.key] = k
  <2>1. kept[i][model.key] = k BY <1>2, <1>3, <1>6
  <2> HIDE DEF k
  <2>2. /\ Find(k) # NULL /\ Find(k) <= i
        /\ Find(k) \in DOMAIN kept /\ kept[Find(k)][model.key] = k
    BY <1>1, <2>1, FindIs
  <2>3. kept[Find(k)][model.key]
           = IF sources[Find(k)][model.key] = Falsy THEN NULL ELSE sources[Find(k)][model.key]
    BY <1>2, <1>3, <2>2
  <2> QED BY <1>6, <2>2, <2>3
<1> QED BY <1>4, <1>5, <1>6

-----------------------------------------------------------------------------
(* What is kept *)

LEMMA KeptMove ==
    ASSUME [ServicesNext]_allVars
    PROVE  /\ [AccountStateNext]_accountVars /\ [StorageNext]_storageVars
           /\ [PruningNext]_pruningVars /\ [ShardingNext]_shardingVars
BY DEF ServicesNext, OnlyMoves, allVars

KeptInv == AccountInv /\ StorageInv /\ PruningInv /\ ShardingInv

\* What is kept is what was put there: balances are what the recorded transactions
\* make of them, in every snapshot too, although a revert makes a snapshot the state;
\* records are those of their data, found by its key; blocks without their data end
\* where those with it begin; and a shard has the transactions its counts say (state.js,
\* models.js, state_pruning.js, sharding.js).
THEOREM RecordsKept == ServicesSpec => []KeptAsRecorded
<1>1. ServicesInit => KeptInv
  BY AccountInitial, StorageInitial, PruningInitial, ShardingInitial DEF ServicesInit, KeptInv
<1>2. KeptInv /\ [ServicesNext]_allVars => KeptInv'
  BY KeptMove, AccountStep, StorageStep, PruningStep, ShardingStep DEF KeptInv
<1>3. KeptInv => KeptAsRecorded
  <2> SUFFICES ASSUME KeptInv PROVE KeptAsRecorded OBVIOUS
  <2>1. BalancesFollowTransactions BY AccountThen DEF KeptInv
  <2>2. StoredIsFound BY StorageThen DEF KeptInv
  <2>3. PruningLeavesNoGap BY DEF KeptInv, PruningInv
  <2>4. ShardsKeepTransactions BY DEF KeptInv, ShardingInv
  <2> QED BY <2>1, <2>2, <2>3, <2>4 DEF KeptAsRecorded
<1> QED BY <1>1, <1>2, <1>3, PTL DEF ServicesSpec

-----------------------------------------------------------------------------
(* Fractions *)

Pairs == Nat \X Nat

\* A step of Euclid's algorithm, for a function that may be Gcd.
GcdOf(f, p) == IF p[2] = 0 THEN p[1] ELSE f[<<p[2], p[1] % p[2]>>]

LEMMA GcdIs ==
    /\ Gcd \in [Pairs -> Nat]
    /\ \A p \in Pairs : Gcd[p] = GcdOf(Gcd, p)
<1> DEFINE V == Nat
           rank == [p \in Pairs |-> p[2]]
           H == [p \in Pairs |-> [f \in [Pairs -> V] |-> GcdOf(f, p)]]
           Is1(F) == F = [p \in Pairs |-> GcdOf(F, p)]
<1>0. \A p \in Pairs : p[2] # 0 => <<p[2], p[1] % p[2]>> \in Pairs /\ p[1] % p[2] < p[2]
  BY DEF Pairs
<1>1. rank \in [Pairs -> Nat] /\ 0 \in V BY DEF Pairs
<1>2. ASSUME NEW p \in Pairs, NEW f \in [Pairs -> V] PROVE GcdOf(f, p) \in V
  BY <1>0 DEF GcdOf, Pairs
<1>3. Determined(Pairs, V, rank, H)
  <2> SUFFICES ASSUME NEW p \in Pairs, NEW f \in [Pairs -> V], NEW g \in [Pairs -> V],
                      \A t \in Pairs : rank[t] < rank[p] => f[t] = g[t]
               PROVE  H[p][f] = H[p][g]
    BY DEF Determined
  <2>1. GcdOf(f, p) = GcdOf(g, p) BY <1>0 DEF GcdOf
  <2> QED BY <2>1
<1>4. \A p \in Pairs : \A f \in [Pairs -> V] : H[p][f] \in V BY <1>2
<1>5. PICK F \in [Pairs -> V] : \A p \in Pairs : F[p] = H[p][F]
  <2> HIDE DEF V, rank, H
  <2> QED BY <1>1, <1>3, <1>4, Recursion
<1>6. \E f : Is1(f)
  <2>1. \A p \in Pairs : F[p] = GcdOf(F, p) BY <1>5
  <2>2. Is1(F) BY <1>5, <2>1
  <2> QED BY <2>2
<1>7. Gcd = CHOOSE f : Is1(f) BY DEF Gcd, GcdOf, Pairs
<1>8. Is1(Gcd)
  <2> HIDE DEF Is1
  <2> QED BY <1>6, <1>7
<1>9. \A p \in Pairs : Gcd[p] = GcdOf(Gcd, p) BY <1>8
<1>10. \A p \in Pairs : Gcd[p] \in Nat
  <2> DEFINE Bad == {p[2] : p \in {q \in Pairs : Gcd[q] \notin Nat}}
  <2> SUFFICES ASSUME Bad # {} PROVE FALSE OBVIOUS
  <2>1. Bad \subseteq Nat BY DEF Pairs
  <2>2. PICK x \in Bad : \A y \in Bad : x <= y
    <3> HIDE DEF Bad
    <3> QED BY <2>1, Least
  <2>3. PICK p \in Pairs : Gcd[p] \notin Nat /\ p[2] = x OBVIOUS
  <2>4. CASE p[2] = 0 BY <1>9, <2>3, <2>4 DEF GcdOf, Pairs
  <2>5. CASE p[2] # 0
    <3> DEFINE q == <<p[2], p[1] % p[2]>>
    <3>1. q \in Pairs /\ q[2] < p[2] BY <1>0, <2>5
    <3>2. Gcd[p] = Gcd[q] BY <1>9, <2>5 DEF GcdOf
    <3>3. q[2] \in Bad BY <2>3, <3>1, <3>2
    <3>4. q[2] \in Nat /\ p[2] \in Nat BY <3>1 DEF Pairs
    <3> HIDE DEF q, Bad
    <3>5. p[2] <= q[2] BY <2>2, <2>3, <3>3
    <3> QED BY <3>1, <3>4, <3>5
  <2> QED BY <2>4, <2>5
<1> QED BY <1>8, <1>9, <1>10

\* g divides n.
Divides(g, n) == \E q \in Nat : n = g * q

LEMMA GcdDivides ==
    ASSUME NEW m \in Nat, NEW n \in Nat
    PROVE  /\ Gcd[<<m, n>>] \in Nat /\ Divides(Gcd[<<m, n>>], m) /\ Divides(Gcd[<<m, n>>], n)
           /\ m > 0 \/ n > 0 => Gcd[<<m, n>>] > 0
<1> DEFINE Well(p) == /\ Divides(Gcd[p], p[1]) /\ Divides(Gcd[p], p[2])
                      /\ p[1] > 0 \/ p[2] > 0 => Gcd[p] > 0
           Bad == {p[2] : p \in {q \in Pairs : ~ Well(q)}}
<1>1. Bad = {}
  <2> SUFFICES ASSUME Bad # {} PROVE FALSE OBVIOUS
  <2>1. Bad \subseteq Nat BY DEF Pairs
  <2>2. PICK x \in Bad : \A y \in Bad : x <= y
    <3> HIDE DEF Bad
    <3> QED BY <2>1, Least
  <2>3. PICK p \in Pairs : ~ Well(p) /\ p[2] = x
    <3> HIDE DEF Well
    <3> QED OBVIOUS
  <2> DEFINE a == p[1]
             b == p[2]
  <2>4. a \in Nat /\ b \in Nat BY DEF Pairs
  <2>5. Gcd[p] = GcdOf(Gcd, p) BY GcdIs
  <2>6. CASE b = 0
    <3>1. Gcd[p] = a BY <2>5, <2>6 DEF GcdOf
    <3>2. Divides(a, a) /\ Divides(a, b)
      <4>1. a = a * 1 /\ b = a * 0 BY <2>4, <2>6
      <4> QED BY <4>1 DEF Divides
    <3> QED BY <2>3, <2>4, <2>6, <3>1, <3>2
  <2>7. CASE b # 0
    <3> DEFINE c == a % b
               d == a \div b
               q == <<b, c>>
               g == Gcd[q]
    <3>1. c \in Nat /\ c < b /\ d \in Nat /\ a = b * d + c
      <4> HIDE DEF a, b
      <4>1. c \in Nat /\ c < b /\ d \in Nat BY <2>4, <2>7
      <4>2. a = b * d + c BY <2>4, <2>7
      <4> QED BY <4>1, <4>2
    <3>2. q \in Pairs /\ q[1] = b /\ q[2] = c BY <2>4, <3>1 DEF Pairs
    <3>3. Gcd[p] = g BY <2>5, <2>7 DEF GcdOf
    <3>4. Well(q)
      <4> SUFFICES ASSUME ~ Well(q) PROVE FALSE OBVIOUS
      <4>1. c \in Bad
        <5> HIDE DEF Well, c, q
        <5> QED BY <3>2
      <4> HIDE DEF c, Bad, Well
      <4>2. b <= c BY <2>2, <2>3, <4>1
      <4> QED BY <2>4, <3>1, <4>2
    <3>5. g \in Nat BY <3>2, GcdIs
    <3>6. PICK u \in Nat : b = g * u BY <3>2, <3>4 DEF Divides
    <3>7. PICK v \in Nat : c = g * v BY <3>2, <3>4 DEF Divides
    <3>8. g > 0 BY <2>4, <2>7, <3>2, <3>4
    <3> HIDE DEF c, d, q, g, a, b
    <3>9. a = g * (u * d + v)
      <4>1. g * (u * d + v) = (g * u) * d + g * v BY <3>1, <3>5, <3>6, <3>7
      <4> QED BY <3>1, <3>6, <3>7, <4>1
    <3>10. u * d + v \in Nat BY <3>1, <3>6, <3>7
    <3>11. Divides(g, a) /\ Divides(g, b) BY <3>6, <3>9, <3>10 DEF Divides
    <3>12. Well(p)
      <4>1. p[1] = a /\ p[2] = b BY DEF a, b
      <4> QED BY <3>3, <3>8, <3>11, <4>1
    <3> HIDE DEF Well
    <3> QED BY <2>3, <3>12
  <2> QED BY <2>6, <2>7
<1> DEFINE p == <<m, n>>
<1>2. p \in Pairs /\ p[1] = m /\ p[2] = n BY DEF Pairs
<1>3. Well(p)
  <2> HIDE DEF Well, p
  <2> QED BY <1>1, <1>2
<1>4. Gcd[p] \in Nat BY <1>2, GcdIs
<1> HIDE DEF p
<1>5. /\ Gcd[p] \in Nat /\ Divides(Gcd[p], m) /\ Divides(Gcd[p], n)
      /\ m > 0 \/ n > 0 => Gcd[p] > 0
  BY <1>2, <1>3, <1>4
<1> QED BY <1>5 DEF p

\* Fractions: of any sign, and what one is worth.
Fractions == Int \X (Nat \ {0})
Is(a, n, d) == a[1] * d = n * a[2]

LEMMA FractionIs ==
    ASSUME NEW n \in Int, NEW d \in Nat \ {0}
    PROVE  /\ Fraction(n, d) \in Fractions /\ Is(Fraction(n, d), n, d)
           /\ Divides(Fraction(n, d)[2], d)
           /\ n = 0 => Fraction(n, d) = <<0, 1>>
<1> DEFINE m == Abs(n)
           g == Gcd[<<m, d>>]
           f == Fraction(n, d)
<1>1. m \in Nat /\ (m = n \/ m = -n) /\ (n = 0 => m = 0) BY DEF Abs
<1> HIDE DEF m
<1>2. g \in Nat /\ g > 0 /\ Divides(g, m) /\ Divides(g, d) BY <1>1, GcdDivides
<1>3. f = <<n \div g, d \div g>> BY DEF Fraction, m
<1> HIDE DEF g, f
<1>4. PICK u \in Nat : d = g * u BY <1>2 DEF Divides
<1>5. u > 0
  <2>1. u = 0 => d = 0 BY <1>2, <1>4
  <2> QED BY <2>1
<1>6. PICK v \in Int : n = g * v
  <2>1. PICK q \in Nat : m = g * q BY <1>2 DEF Divides
  <2>2. CASE m = n BY <2>1, <2>2
  <2>3. CASE m = -n
    <3>1. n = g * (-q) /\ -q \in Int BY <1>1, <1>2, <2>1, <2>3
    <3> QED BY <3>1
  <2> QED BY <1>1, <2>2, <2>3
<1>7. d \div g = u
  <2>1. (g * u) \div g = u BY <1>2
  <2> QED BY <1>4, <2>1
<1>8. n \div g = v
  <2>1. (g * v) \div g = v BY <1>2
  <2> QED BY <1>6, <2>1
<1>9. f = <<v, u>> /\ f[1] = v /\ f[2] = u BY <1>3, <1>7, <1>8
<1>10. f \in Fractions BY <1>5, <1>9 DEF Fractions
<1>11. Is(f, n, d)
  <2>1. v * d = n * u
    <3>1. v * (g * u) = (g * v) * u BY <1>2
    <3> QED BY <1>4, <1>6, <3>1
  <2> QED BY <1>9, <2>1 DEF Is
<1>12. n = 0 => f = <<0, 1>>
  <2> SUFFICES ASSUME n = 0 PROVE f = <<0, 1>> OBVIOUS
  <2>1. m = 0 BY <1>1
  <2>2. g = d
    <3> DEFINE p == <<m, d>>
               q == <<d, m % d>>
    <3>1. p \in Pairs /\ p[1] = m /\ p[2] = d BY <1>1 DEF Pairs
    <3>2. m % d = 0
      <4>1. 0 % d = 0 OBVIOUS
      <4> QED BY <2>1, <4>1
    <3>3. q \in Pairs /\ q[1] = d /\ q[2] = 0 BY <3>2 DEF Pairs
    <3>4. Gcd[p] = Gcd[q]
      <4>1. Gcd[p] = GcdOf(Gcd, p) BY <3>1, GcdIs
      <4>2. GcdOf(Gcd, p) = Gcd[q] BY <3>1 DEF GcdOf
      <4> QED BY <4>1, <4>2
    <3>5. Gcd[q] = d
      <4>1. Gcd[q] = GcdOf(Gcd, q) BY <3>3, GcdIs
      <4> HIDE DEF q
      <4>2. GcdOf(Gcd, q) = d BY <3>3 DEF GcdOf
      <4> QED BY <4>1, <4>2
    <3> QED BY <3>4, <3>5 DEF g
  <2>3. u = 1
    <3>1. d * 1 = d * u BY <1>4, <2>2
    <3> QED BY <3>1
  <2>4. v = 0
    <3>1. g * v = 0 BY <1>6
    <3> QED BY <1>2, <3>1
  <2> QED BY <1>9, <2>3, <2>4
<1>13. Divides(u, d)
  <2>1. d = u * g BY <1>2, <1>4
  <2> QED BY <1>2, <2>1 DEF Divides
<1> QED BY <1>9, <1>10, <1>11, <1>12, <1>13 DEF f

\* A whole number over one stays.
LEMMA WholeIs ==
    ASSUME NEW n \in Int
    PROVE  Fraction(n, 1) = Whole(n) /\ Whole(n) \in Fractions /\ Is(Whole(n), n, 1)
<1> DEFINE f == Fraction(n, 1)
<1>1. f \in Fractions /\ Is(f, n, 1) /\ Divides(f[2], 1) BY FractionIs
<1> HIDE DEF f
<1>2. PICK v \in Int, u \in Nat \ {0} : f = <<v, u>> BY <1>1 DEF Fractions
<1>3. u = 1
  <2>1. PICK q \in Nat : 1 = u * q BY <1>1, <1>2 DEF Divides
  <2> QED BY <2>1
<1>4. v = n BY <1>1, <1>2, <1>3 DEF Is
<1>5. f = Whole(n) BY <1>2, <1>3, <1>4 DEF Whole
<1>6. Whole(n) \in Fractions BY DEF Whole, Fractions
<1>7. Is(Whole(n), n, 1) BY DEF Is, Whole
<1> QED BY <1>5, <1>6, <1>7 DEF f

\* Written over another denominator.
LEMMA SameWorth ==
    ASSUME NEW a \in Fractions, NEW n \in Int, NEW d \in Nat \ {0}, Is(a, n, d),
           NEW m \in Int, NEW e \in Nat \ {0}, n * e = m * d
    PROVE  Is(a, m, e)
<1>1. PICK x \in Int, y \in Nat \ {0} : a = <<x, y>> BY DEF Fractions
<1>2. x * d = n * y BY <1>1 DEF Is
<1>3. d * (x * e) = (x * d) * e /\ d * (m * y) = (m * d) * y
      /\ (n * y) * e = (n * e) * y
  OBVIOUS
<1>4. d * (x * e) = d * (m * y) BY <1>2, <1>3
<1>5. x * e \in Int /\ m * y \in Int OBVIOUS
<1>6. x * e = m * y
  <2> DEFINE u == x * e
             v == m * y
  <2> HIDE DEF u, v
  <2>1. u \in Int /\ v \in Int /\ d * u = d * v BY <1>4, <1>5 DEF u, v
  <2>2. u = v BY <2>1
  <2> QED BY <2>2 DEF u, v
<1> QED BY <1>1, <1>6 DEF Is

LEMMA SignIs ==
    ASSUME NEW a \in Fractions, NEW n \in Int, NEW d \in Nat \ {0}, Is(a, n, d)
    PROVE  /\ a[1] \in Int /\ a[2] \in Nat \ {0}
           /\ a[1] >= 0 <=> n >= 0
           /\ a[1] > 0 <=> n > 0
           /\ a[1] = 0 <=> n = 0
<1>1. PICK x \in Int, y \in Nat \ {0} : a = <<x, y>> BY DEF Fractions
<1>2. x * d = n * y BY <1>1 DEF Is
<1>3. (x >= 0 <=> n >= 0) /\ (x > 0 <=> n > 0) /\ (x = 0 <=> n = 0)
  <2>1. (x > 0 => x * d > 0) /\ (x = 0 => x * d = 0) /\ (x < 0 => x * d < 0) OBVIOUS
  <2>2. (n > 0 => n * y > 0) /\ (n = 0 => n * y = 0) /\ (n < 0 => n * y < 0) OBVIOUS
  <2> QED BY <1>2, <2>1, <2>2
<1> QED BY <1>1, <1>3

LEMMA TimesIs ==
    ASSUME NEW a \in Fractions, NEW b \in Fractions
    PROVE  Times(a, b) \in Fractions /\ Is(Times(a, b), a[1] * b[1], a[2] * b[2])
<1>1. PICK x \in Int, y \in Nat \ {0} : a = <<x, y>> BY DEF Fractions
<1>2. PICK z \in Int, w \in Nat \ {0} : b = <<z, w>> BY DEF Fractions
<1> DEFINE p == Fraction(x, w)
           q == Fraction(z, y)
<1>3. p \in Fractions /\ Is(p, x, w) /\ q \in Fractions /\ Is(q, z, y) BY FractionIs
<1>4. Times(a, b) = <<p[1] * q[1], p[2] * q[2]>> BY <1>1, <1>2 DEF Times
<1> HIDE DEF p, q
<1>5. PICK p1 \in Int, p2 \in Nat \ {0} : p = <<p1, p2>> BY <1>3 DEF Fractions
<1>6. PICK q1 \in Int, q2 \in Nat \ {0} : q = <<q1, q2>> BY <1>3 DEF Fractions
<1>7. p1 * w = x * p2 /\ q1 * y = z * q2 BY <1>3, <1>5, <1>6 DEF Is
<1>8. (p1 * q1) * (y * w) = (x * z) * (p2 * q2)
  <2>1. (p1 * q1) * (y * w) = (p1 * w) * (q1 * y) OBVIOUS
  <2>2. (x * z) * (p2 * q2) = (x * p2) * (z * q2) OBVIOUS
  <2> QED BY <1>7, <2>1, <2>2
<1>9. Times(a, b) = <<p1 * q1, p2 * q2>> BY <1>4, <1>5, <1>6
<1>10. p1 * q1 \in Int /\ p2 * q2 \in Nat /\ p2 * q2 > 0 OBVIOUS
<1> DEFINE m == p1 * q1
           n == p2 * q2
<1> HIDE DEF m, n
<1>11. Times(a, b) = <<m, n>> /\ m \in Int /\ n \in Nat \ {0} BY <1>9, <1>10 DEF m, n
<1>12. Times(a, b) \in Fractions BY <1>11 DEF Fractions
<1>13. Is(Times(a, b), x * z, y * w) BY <1>8, <1>11 DEF Is, m, n
<1> QED BY <1>1, <1>2, <1>12, <1>13

LEMMA PlusIs ==
    ASSUME NEW a \in Fractions, NEW b \in Fractions
    PROVE  /\ Plus(a, b) \in Fractions
           /\ Is(Plus(a, b), a[1] * b[2] + b[1] * a[2], a[2] * b[2])
           /\ Plus(a, b)[1] = 0 => Plus(a, b) = Whole(0)
<1>1. PICK x \in Int, y \in Nat \ {0} : a = <<x, y>> BY DEF Fractions
<1>2. PICK z \in Int, w \in Nat \ {0} : b = <<z, w>> BY DEF Fractions
<1> DEFINE g == Gcd[<<y, w>>]
<1>3. g \in Nat /\ g > 0 /\ Divides(g, y) /\ Divides(g, w) BY GcdDivides
<1>4. Plus(a, b) = Fraction(x * (w \div g) + z * (y \div g), y * (w \div g))
  BY <1>1, <1>2 DEF Plus
<1> HIDE DEF g
<1>5. PICK u \in Nat : y = g * u BY <1>3 DEF Divides
<1>6. PICK v \in Nat : w = g * v BY <1>3 DEF Divides
<1>7. y \div g = u /\ w \div g = v
  <2>1. (g * u) \div g = u BY <1>3
  <2>2. (g * v) \div g = v BY <1>3
  <2> QED BY <1>5, <1>6, <2>1, <2>2
<1>8. v > 0
  <2>1. v = 0 => w = 0 BY <1>3, <1>6
  <2> QED BY <2>1
<1> DEFINE n == x * v + z * u
           d == y * v
<1>9. n \in Int /\ d \in Nat /\ d > 0 BY <1>8
<1>10. Plus(a, b) = Fraction(n, d) BY <1>4, <1>7
<1>11. n * (y * w) = (x * w + z * y) * d
  <2>1. y * v = u * w
    <3>1. (g * u) * v = u * (g * v) BY <1>3
    <3> QED BY <1>5, <1>6, <3>1
  <2>2. (x * v + z * u) * (y * w) = (x * w) * (y * v) + (z * y) * (u * w) OBVIOUS
  <2>3. (x * w + z * y) * (y * v) = (x * w) * (y * v) + (z * y) * (y * v) OBVIOUS
  <2> QED BY <2>1, <2>2, <2>3
<1> HIDE DEF n, d
<1> DEFINE f == Fraction(n, d)
<1>12. f \in Fractions /\ Is(f, n, d) /\ (n = 0 => f = <<0, 1>>) BY <1>9, FractionIs
<1> HIDE DEF f
<1>13. f[1] = 0 => f = Whole(0)
  <2>1. f[1] = 0 <=> n = 0 BY <1>9, <1>12, SignIs
  <2> QED BY <1>12, <2>1 DEF Whole
<1> DEFINE m == x * w + z * y
           e == y * w
<1>14. m \in Int /\ e \in Nat \ {0} OBVIOUS
<1>15. n * e = m * d BY <1>11
<1> HIDE DEF m, e
<1>16. Is(f, m, e) BY <1>9, <1>12, <1>14, <1>15, SameWorth
<1>17. m = a[1] * b[2] + b[1] * a[2] /\ e = a[2] * b[2] BY <1>1, <1>2 DEF m, e
<1> QED BY <1>10, <1>12, <1>13, <1>16, <1>17 DEF f

LEMMA MinusIs ==
    ASSUME NEW a \in Fractions, NEW b \in Fractions
    PROVE  /\ Minus(a, b) \in Fractions
           /\ Is(Minus(a, b), a[1] * b[2] - b[1] * a[2], a[2] * b[2])
           /\ Minus(a, b)[1] = 0 => Minus(a, b) = Whole(0)
<1>1. PICK x \in Int, y \in Nat \ {0} : a = <<x, y>> BY DEF Fractions
<1>2. PICK z \in Int, w \in Nat \ {0} : b = <<z, w>> BY DEF Fractions
<1> DEFINE c == <<-z, w>>
           f == Plus(a, c)
<1>3. c \in Fractions /\ c[1] = -z /\ c[2] = w BY DEF Fractions
<1>4. Minus(a, b) = f BY <1>2 DEF Minus
<1> HIDE DEF c
<1>5. f \in Fractions /\ Is(f, a[1] * c[2] + c[1] * a[2], a[2] * c[2])
      /\ (f[1] = 0 => f = Whole(0))
  BY <1>3, PlusIs
<1> HIDE DEF f
<1>6. a[1] * c[2] + c[1] * a[2] = a[1] * b[2] - b[1] * a[2] /\ a[2] * c[2] = a[2] * b[2]
  <2>1. x * w + (-z) * y = x * w - z * y OBVIOUS
  <2>2. a[1] = x /\ a[2] = y /\ b[1] = z /\ b[2] = w BY <1>1, <1>2
  <2> QED BY <1>3, <2>1, <2>2
<1> QED BY <1>4, <1>5, <1>6

LEMMA OverIs ==
    ASSUME NEW a \in Fractions, NEW b \in Fractions, b[1] > 0
    PROVE  Over(a, b) \in Fractions /\ Is(Over(a, b), a[1] * b[2], a[2] * b[1])
<1>1. PICK z \in Int, w \in Nat \ {0} : b = <<z, w>> BY DEF Fractions
<1> DEFINE c == <<w, z>>
<1>2. z > 0 BY <1>1
<1>3. c \in Fractions /\ c[1] = w /\ c[2] = z BY <1>2 DEF Fractions
<1>4. Over(a, b) = Times(a, c) BY <1>1 DEF Over
<1> HIDE DEF c
<1>5. Times(a, c) \in Fractions /\ Is(Times(a, c), a[1] * c[1], a[2] * c[2])
  BY <1>3, TimesIs
<1> QED BY <1>1, <1>3, <1>4, <1>5

LEMMA AtMostIs ==
    ASSUME NEW a \in Fractions, NEW b \in Fractions
    PROVE  AtMost(a, b) <=> a[1] * b[2] <= b[1] * a[2]
<1> DEFINE f == Minus(b, a)
           n == b[1] * a[2] - a[1] * b[2]
           d == b[2] * a[2]
<1>1. f \in Fractions /\ Is(f, n, d) BY MinusIs
<1>2. a[1] \in Int /\ b[1] \in Int /\ a[2] \in Nat \ {0} /\ b[2] \in Nat \ {0} BY DEF Fractions
<1>3. n \in Int /\ d \in Nat \ {0} BY <1>2
<1>4. AtMost(a, b) <=> f[1] >= 0 BY DEF AtMost
<1>5. n >= 0 <=> a[1] * b[2] <= b[1] * a[2] BY <1>2
<1> HIDE DEF f, n, d
<1>6. f[1] >= 0 <=> n >= 0 BY <1>1, <1>3, SignIs
<1> QED BY <1>4, <1>5, <1>6

LEMMA IsPlus ==
    ASSUME NEW a \in Fractions, NEW n \in Int, NEW d \in Nat \ {0}, Is(a, n, d),
           NEW b \in Fractions, NEW m \in Int, NEW e \in Nat \ {0}, Is(b, m, e)
    PROVE  Plus(a, b) \in Fractions /\ Is(Plus(a, b), n * e + m * d, d * e)
<1>1. PICK x \in Int, y \in Nat \ {0} : a = <<x, y>> BY DEF Fractions
<1>2. PICK z \in Int, w \in Nat \ {0} : b = <<z, w>> BY DEF Fractions
<1>3. x * d = n * y /\ z * e = m * w BY <1>1, <1>2 DEF Is
<1> DEFINE f == Plus(a, b)
           i == x * w + z * y
           j == y * w
           k == n * e + m * d
           l == d * e
<1>4. f \in Fractions /\ Is(f, i, j) BY <1>1, <1>2, PlusIs
<1>5. i \in Int /\ j \in Nat \ {0} /\ k \in Int /\ l \in Nat \ {0} OBVIOUS
<1>6. i * l = k * j
  <2>1. i * l = (x * d) * (w * e) + (z * e) * (y * d) OBVIOUS
  <2>2. k * j = (n * y) * (w * e) + (m * w) * (y * d) OBVIOUS
  <2> QED BY <1>3, <2>1, <2>2
<1> HIDE DEF f, i, j, k, l
<1>7. Is(f, k, l) BY <1>4, <1>5, <1>6, SameWorth
<1> QED BY <1>4, <1>7 DEF f, k, l

LEMMA IsMinus ==
    ASSUME NEW a \in Fractions, NEW n \in Int, NEW d \in Nat \ {0}, Is(a, n, d),
           NEW b \in Fractions, NEW m \in Int, NEW e \in Nat \ {0}, Is(b, m, e)
    PROVE  Minus(a, b) \in Fractions /\ Is(Minus(a, b), n * e - m * d, d * e)
<1>1. PICK x \in Int, y \in Nat \ {0} : a = <<x, y>> BY DEF Fractions
<1>2. PICK z \in Int, w \in Nat \ {0} : b = <<z, w>> BY DEF Fractions
<1>3. x * d = n * y /\ z * e = m * w BY <1>1, <1>2 DEF Is
<1> DEFINE f == Minus(a, b)
           i == x * w - z * y
           j == y * w
           k == n * e - m * d
           l == d * e
<1>4. f \in Fractions /\ Is(f, i, j) BY <1>1, <1>2, MinusIs
<1>5. i \in Int /\ j \in Nat \ {0} /\ k \in Int /\ l \in Nat \ {0} OBVIOUS
<1>6. i * l = k * j
  <2>1. i * l = (x * d) * (w * e) - (z * e) * (y * d) OBVIOUS
  <2>2. k * j = (n * y) * (w * e) - (m * w) * (y * d) OBVIOUS
  <2> QED BY <1>3, <2>1, <2>2
<1> HIDE DEF f, i, j, k, l
<1>7. Is(f, k, l) BY <1>4, <1>5, <1>6, SameWorth
<1> QED BY <1>4, <1>7 DEF f, k, l

LEMMA IsTimes ==
    ASSUME NEW a \in Fractions, NEW n \in Int, NEW d \in Nat \ {0}, Is(a, n, d),
           NEW b \in Fractions, NEW m \in Int, NEW e \in Nat \ {0}, Is(b, m, e)
    PROVE  Times(a, b) \in Fractions /\ Is(Times(a, b), n * m, d * e)
<1>1. PICK x \in Int, y \in Nat \ {0} : a = <<x, y>> BY DEF Fractions
<1>2. PICK z \in Int, w \in Nat \ {0} : b = <<z, w>> BY DEF Fractions
<1>3. x * d = n * y /\ z * e = m * w BY <1>1, <1>2 DEF Is
<1> DEFINE f == Times(a, b)
           i == x * z
           j == y * w
           k == n * m
           l == d * e
<1>4. f \in Fractions /\ Is(f, i, j) BY <1>1, <1>2, TimesIs
<1>5. i \in Int /\ j \in Nat \ {0} /\ k \in Int /\ l \in Nat \ {0} OBVIOUS
<1>6. i * l = k * j
  <2>1. i * l = (x * d) * (z * e) OBVIOUS
  <2>2. k * j = (n * y) * (m * w) OBVIOUS
  <2> QED BY <1>3, <2>1, <2>2
<1> HIDE DEF f, i, j, k, l
<1>7. Is(f, k, l) BY <1>4, <1>5, <1>6, SameWorth
<1> QED BY <1>4, <1>7 DEF f, k, l

LEMMA IsOver ==
    ASSUME NEW a \in Fractions, NEW n \in Int, NEW d \in Nat \ {0}, Is(a, n, d),
           NEW b \in Fractions, NEW m \in Int, NEW e \in Nat \ {0}, Is(b, m, e), m > 0
    PROVE  Over(a, b) \in Fractions /\ Is(Over(a, b), n * e, d * m)
<1>1. PICK x \in Int, y \in Nat \ {0} : a = <<x, y>> BY DEF Fractions
<1>2. PICK z \in Int, w \in Nat \ {0} : b = <<z, w>> BY DEF Fractions
<1>3. x * d = n * y /\ z * e = m * w BY <1>1, <1>2 DEF Is
<1>0. z > 0 BY <1>2, SignIs
<1> DEFINE f == Over(a, b)
           i == x * w
           j == y * z
           k == n * e
           l == d * m
<1>4. f \in Fractions /\ Is(f, i, j) BY <1>1, <1>2, <1>0, OverIs
<1>5. i \in Int /\ j \in Nat \ {0} /\ k \in Int /\ l \in Nat \ {0} BY <1>0
<1>6. i * l = k * j
  <2>1. i * l = (x * d) * (m * w) OBVIOUS
  <2>2. k * j = (n * y) * (z * e) OBVIOUS
  <2> QED BY <1>3, <2>1, <2>2
<1> HIDE DEF f, i, j, k, l
<1>7. Is(f, k, l) BY <1>4, <1>5, <1>6, SameWorth
<1> QED BY <1>4, <1>7 DEF f, k, l

-----------------------------------------------------------------------------
(* A swap *)

\* Reserves, neither below zero.
Reserves(r) ==
    /\ r \in [Tokens2 -> Fractions]
    /\ \A u \in Tokens2 : r[u][1] >= 0 /\ (r[u][1] = 0 => r[u] = Whole(0))
Both(r) == \A u \in Tokens2 : r[u][1] > 0

\* The shares squared are at most the product of the reserves.
Backed(s, r) ==
    (s[1] * s[1]) * (r[0][2] * r[1][2]) <= (r[0][1] * r[1][1]) * (s[2] * s[2])

\* What a caller gets and what is left, for x of p and y of q and an amount N of A, with a
\* fee f of g.
LEMMA SwapIs ==
    ASSUME NEW r, Reserves(r), NEW t \in Tokens2, NEW a \in Fractions, a[1] > 0
    PROVE  LET x == r[t][1]
               p == r[t][2]
               y == r[1 - t][1]
               q == r[1 - t][2]
               N == a[1]
               A == a[2]
               f == fee_rate[1]
               g == fee_rate[2]
               z == x * (A * g) + (N * (g - f)) * p
           IN  /\ AmountOut(r, t, a) \in Fractions /\ z > 0
               /\ Is(AmountOut(r, t, a), y * ((N * (g - f)) * p), q * z)
               /\ Swapped(r, t, a) \in [Tokens2 -> Fractions]
               /\ Is(Swapped(r, t, a)[t], x * A + N * p, p * A)
               /\ Is(Swapped(r, t, a)[1 - t], y * (x * (A * g)), q * z)
               /\ \A u \in Tokens2 : Swapped(r, t, a)[u][1] = 0 => Swapped(r, t, a)[u] = Whole(0)
<1> DEFINE x == r[t][1]
           p == r[t][2]
           y == r[1 - t][1]
           q == r[1 - t][2]
           N == a[1]
           A == a[2]
           f == fee_rate[1]
           g == fee_rate[2]
           h == g - f
           w == N * h
           B == A * g
           z == x * B + w * p
           one == Whole(1)
           rest == Minus(one, fee_rate)
           with_fee == Times(a, rest)
           onto == Plus(r[t], with_fee)
           top == Times(r[1 - t], with_fee)
           out == AmountOut(r, t, a)
<1>1. t \in Tokens2 /\ 1 - t \in Tokens2 /\ r[t] \in Fractions /\ r[1 - t] \in Fractions
      /\ x >= 0 /\ y >= 0
  BY DEF Reserves, Tokens2
<1>2. x \in Nat /\ y \in Nat /\ p \in Nat \ {0} /\ q \in Nat \ {0} BY <1>1 DEF Fractions
<1>3. N \in Nat \ {0} /\ A \in Nat \ {0} BY DEF Fractions
<1>4. f \in Nat /\ g \in Nat \ {0} /\ f < g /\ fee_rate \in Fractions /\ h \in Nat \ {0} /\ h <= g
  BY LiquidityAssumption DEF Fractions
<1>5. Is(r[t], x, p) /\ Is(r[1 - t], y, q) /\ Is(a, N, A) /\ Is(fee_rate, f, g) BY DEF Is
<1>6. one \in Fractions /\ Is(one, 1, 1) BY WholeIs
<1>7. out = Over(top, onto) BY DEF AmountOut
<1>8. rest \in Fractions /\ Is(rest, 1 * g - f * 1, 1 * g)
  <2> HIDE DEF f, g, one
  <2> QED BY <1>4, <1>5, <1>6, IsMinus
<1>9. 1 * g - f * 1 = h /\ 1 * g = g BY <1>4
<1> HIDE DEF x, p, y, q, N, A, f, g, h, one, rest
<1>10. Is(rest, h, g) BY <1>8, <1>9
<1>11. with_fee \in Fractions /\ Is(with_fee, w, B) BY <1>3, <1>4, <1>5, <1>8, <1>10, IsTimes
<1>12. w \in Nat \ {0} /\ B \in Nat \ {0} BY <1>3, <1>4
<1> HIDE DEF w, B, with_fee
<1>13. onto \in Fractions /\ Is(onto, z, p * B)
  <2> DEFINE c == r[t]
  <2>1. c \in Fractions /\ x \in Int /\ Is(c, x, p) /\ w \in Int BY <1>1, <1>2, <1>5, <1>12
  <2>2. onto = Plus(c, with_fee) OBVIOUS
  <2> HIDE DEF c, onto
  <2>3. Plus(c, with_fee) \in Fractions /\ Is(Plus(c, with_fee), x * B + w * p, p * B)
    BY <1>2, <1>11, <1>12, <2>1, IsPlus
  <2> QED BY <2>2, <2>3
<1>14. top \in Fractions /\ Is(top, y * w, q * B) BY <1>1, <1>2, <1>5, <1>11, <1>12, IsTimes
<1>15. z \in Nat \ {0}
  <2>1. w * p > 0 /\ w * p \in Nat /\ x * B \in Nat BY <1>2, <1>12
  <2> QED BY <2>1
<1>16. p * B \in Nat \ {0} /\ q * B \in Nat \ {0} /\ y * w \in Int BY <1>2, <1>12
<1> HIDE DEF onto, top, z
<1>17. out \in Fractions /\ Is(out, (y * w) * (p * B), (q * B) * z)
  <2> DEFINE i == p * B
             j == q * B
             k == y * w
  <2>1. i \in Nat \ {0} /\ j \in Nat \ {0} /\ k \in Int BY <1>16
  <2>2. Is(onto, z, i) /\ Is(top, k, j) BY <1>13, <1>14
  <2> HIDE DEF i, j, k
  <2>3. Over(top, onto) \in Fractions /\ Is(Over(top, onto), k * i, j * z)
    BY <1>13, <1>14, <1>15, <2>1, <2>2, IsOver
  <2> QED BY <1>7, <2>3 DEF i, j, k
<1> HIDE DEF out
<1>18. Is(out, y * (w * p), q * z)
  <2> DEFINE n == (y * w) * (p * B)
             d == (q * B) * z
             m == y * (w * p)
             e == q * z
  <2>1. n \in Int /\ m \in Int /\ d \in Nat \ {0} /\ e \in Nat \ {0} BY <1>2, <1>12, <1>15, <1>16
  <2>2. n * e = m * d
    <3>1. n * e = ((y * w) * p) * (B * (q * z)) BY <1>2, <1>12, <1>15
    <3>2. m * d = ((y * w) * p) * (B * (q * z)) BY <1>2, <1>12, <1>15
    <3> QED BY <3>1, <3>2
  <2> HIDE DEF n, d, m, e
  <2>3. Is(out, n, d) BY <1>17 DEF n, d
  <2>4. Is(out, m, e) BY <1>17, <2>1, <2>2, <2>3, SameWorth
  <2> QED BY <2>4 DEF m, e
<1> DEFINE more == Plus(r[t], a)
           less == Minus(r[1 - t], out)
<1>19. /\ more \in Fractions /\ Is(more, x * A + N * p, p * A)
       /\ (more[1] = 0 => more = Whole(0))
  <2> DEFINE c == r[t]
  <2>1. c \in Fractions /\ x \in Int /\ Is(c, x, p) /\ N \in Int BY <1>1, <1>2, <1>3, <1>5
  <2>2. more = Plus(c, a) OBVIOUS
  <2> HIDE DEF c, more
  <2>3. Plus(c, a) \in Fractions /\ Is(Plus(c, a), x * A + N * p, p * A)
    BY <1>2, <1>3, <1>5, <2>1, IsPlus
  <2>4. Plus(c, a)[1] = 0 => Plus(c, a) = Whole(0) BY <2>1, PlusIs
  <2> QED BY <2>2, <2>3, <2>4
<1>20. less \in Fractions /\ (less[1] = 0 => less = Whole(0))
       /\ Is(less, y * (q * z) - (y * (w * p)) * q, q * (q * z))
  <2> DEFINE m == y * (w * p)
             e == q * z
  <2>1. m \in Int /\ e \in Nat \ {0} BY <1>2, <1>12, <1>15
  <2>2. Is(out, m, e) BY <1>18
  <2> HIDE DEF m, e
  <2>3. less \in Fractions /\ (less[1] = 0 => less = Whole(0)) BY <1>1, <1>17, MinusIs
  <2>4. Is(less, y * e - m * q, q * e) BY <1>1, <1>2, <1>5, <1>17, <2>1, <2>2, IsMinus
  <2> QED BY <2>3, <2>4 DEF m, e
<1>21. Is(less, y * (x * B), q * z)
  <2> DEFINE n == y * (q * z) - (y * (w * p)) * q
             d == q * (q * z)
             m == y * (x * B)
             e == q * z
  <2>1. n \in Int /\ m \in Int /\ d \in Nat \ {0} /\ e \in Nat \ {0} BY <1>2, <1>12, <1>15
  <2>2. n = q * m
    <3>1. n = q * (y * (z - w * p)) BY <1>2, <1>12, <1>15
    <3>2. z - w * p = x * B BY <1>2, <1>12 DEF z
    <3> QED BY <3>1, <3>2
  <2>3. d = q * e OBVIOUS
  <2> HIDE DEF n, d, m, e
  <2>4. n * e = m * d BY <1>2, <2>1, <2>2, <2>3
  <2>5. Is(less, n, d) BY <1>20 DEF n, d
  <2>6. Is(less, m, e) BY <1>20, <2>1, <2>4, <2>5, SameWorth
  <2> QED BY <2>6 DEF m, e
<1>22. Swapped(r, t, a) = [u \in Tokens2 |-> IF u = t THEN more ELSE Minus(r[u], out)]
  BY DEF Swapped, out
<1>23. \A u \in Tokens2 : u = t \/ u = 1 - t BY DEF Tokens2
<1>24. Swapped(r, t, a)[t] = more /\ Swapped(r, t, a)[1 - t] = less
  <2>1. 1 - t # t BY DEF Tokens2
  <2> QED BY <1>1, <1>22, <2>1
<1> HIDE DEF more, less
<1>25. Swapped(r, t, a) \in [Tokens2 -> Fractions]
       /\ \A u \in Tokens2 : Swapped(r, t, a)[u][1] = 0 => Swapped(r, t, a)[u] = Whole(0)
  <2> DEFINE s == Swapped(r, t, a)
  <2>1. \E v : s = [u \in Tokens2 |-> v[u]]
    <3> DEFINE v == [u \in Tokens2 |-> IF u = t THEN more ELSE Minus(r[u], out)]
    <3>1. s = [u \in Tokens2 |-> v[u]] BY <1>22
    <3> QED BY <3>1
  <2>2. s[t] = more /\ s[1 - t] = less BY <1>24
  <2> HIDE DEF s
  <2>3. \A u \in Tokens2 : s[u] = more \/ s[u] = less BY <1>23, <2>2
  <2>4. s \in [Tokens2 -> Fractions] BY <1>19, <1>20, <2>1, <2>3
  <2>5. \A u \in Tokens2 : s[u][1] = 0 => s[u] = Whole(0) BY <1>19, <1>20, <2>3
  <2> QED BY <2>4, <2>5 DEF s
<1>26. Is(Swapped(r, t, a)[t], x * A + N * p, p * A) /\ Is(Swapped(r, t, a)[1 - t], y * (x * B), q * z)
  BY <1>19, <1>21, <1>24
<1> QED
  BY <1>15, <1>17, <1>18, <1>25, <1>26 DEF x, p, y, q, N, A, f, g, h, w, B, z, out

\* The products, in whole numbers.
LEMMA ProductGrows ==
    ASSUME NEW x \in Nat, NEW y \in Nat, NEW p \in Nat \ {0}, NEW q \in Nat \ {0},
           NEW N \in Nat, NEW A \in Nat \ {0}, NEW g \in Nat \ {0}, NEW h \in Nat, h <= g,
           NEW z \in Nat \ {0}, z = x * (A * g) + (N * h) * p,
           NEW i \in Nat, NEW j \in Nat \ {0}, NEW k \in Nat, NEW l \in Nat \ {0},
           i * (p * A) = (x * A + N * p) * j, k * (q * z) = (y * (x * (A * g))) * l
    PROVE  (x * y) * (j * l) <= (i * k) * (p * q)
<1> DEFINE B == A * g
           c == (p * A) * (q * z)
           m == x * A + N * p
           C == ((j * l) * (x * y)) * (p * q)
           u == (x * y) * (j * l)
           v == (i * k) * (p * q)
<1>1. c \in Nat /\ c > 0 /\ m \in Nat /\ B \in Nat /\ C \in Nat /\ u \in Nat /\ v \in Nat
  <2>1. p * A \in Nat /\ p * A > 0 /\ q * z \in Nat /\ q * z > 0 OBVIOUS
  <2>2. c \in Nat /\ c > 0 BY <2>1
  <2>3. x * A \in Nat /\ N * p \in Nat /\ B \in Nat /\ j * l \in Nat /\ x * y \in Nat
        /\ p * q \in Nat /\ i * k \in Nat
    OBVIOUS
  <2> QED BY <2>2, <2>3
<1>2. A * z <= m * B
  <2>1. N * h <= N * g OBVIOUS
  <2>2. (N * h) * p <= (N * g) * p BY <2>1
  <2>3. z <= x * (A * g) + (N * g) * p BY <2>2
  <2>4. A * z <= A * (x * (A * g) + (N * g) * p) BY <2>3
  <2>5. A * (x * (A * g) + (N * g) * p) = m * B OBVIOUS
  <2> QED BY <2>4, <2>5
<1>3. c * v = C * (m * B)
  <2>1. c * v = ((i * (p * A)) * (k * (q * z))) * (p * q) OBVIOUS
  <2>2. c * v = ((m * j) * ((y * (x * B)) * l)) * (p * q) BY <2>1
  <2>3. ((m * j) * ((y * (x * B)) * l)) * (p * q) = C * (m * B)
    <3> HIDE DEF m, B
    <3> QED BY <1>1
  <2> QED BY <2>2, <2>3
<1>4. c * u = C * (A * z) OBVIOUS
<1>5. C * (A * z) <= C * (m * B)
  <2> HIDE DEF C, m, B
  <2>1. A * z \in Int /\ m * B \in Int BY <1>1
  <2> QED BY <1>1, <1>2, <2>1
<1>6. c * u <= c * v BY <1>3, <1>4, <1>5
<1> HIDE DEF c, u, v
<1>7. u <= v BY <1>1, <1>6
<1> QED BY <1>7 DEF u, v

LEMMA StillBacked ==
    ASSUME NEW s \in Fractions, NEW r, Reserves(r), NEW v \in [Tokens2 -> Fractions], NEW t \in Tokens2,
           (r[t][1] * r[1 - t][1]) * (v[t][2] * v[1 - t][2])
               <= (v[t][1] * v[1 - t][1]) * (r[t][2] * r[1 - t][2]),
           Backed(s, r)
    PROVE  Backed(s, v)
<1> DEFINE S == s[1] * s[1]
           T == s[2] * s[2]
           K == r[0][1] * r[1][1]
           D == r[0][2] * r[1][2]
           L == v[0][1] * v[1][1]
           E == v[0][2] * v[1][2]
<1>1. \A u \in Tokens2 : /\ r[u][1] \in Int /\ r[u][2] \in Nat \ {0}
                        /\ v[u][1] \in Int /\ v[u][2] \in Nat \ {0}
  BY DEF Reserves, Fractions
<1>2. s[1] \in Int /\ s[2] \in Nat \ {0} BY DEF Fractions
<1>3. 0 \in Tokens2 /\ 1 \in Tokens2 BY DEF Tokens2
<1>4. S \in Int /\ T \in Nat /\ K \in Int /\ D \in Nat \ {0} /\ L \in Int /\ E \in Nat \ {0}
  BY <1>1, <1>2, <1>3
<1>5. K * E <= L * D
  <2>1. CASE t = 0 BY <1>1, <1>3, <2>1
  <2>2. CASE t = 1
    <3>1. r[1][1] * r[0][1] = K /\ r[1][2] * r[0][2] = D /\ v[1][1] * v[0][1] = L
          /\ v[1][2] * v[0][2] = E /\ 1 - t = 0
      BY <1>1, <1>3, <2>2
    <3> QED BY <2>2, <3>1
  <2> QED BY <2>1, <2>2 DEF Tokens2
<1>6. S * D <= K * T BY DEF Backed
<1> HIDE DEF S, T, K, D, L, E
<1>7. S * E <= L * T
  <2>1. (S * D) * E <= (K * T) * E BY <1>4, <1>6
  <2>2. (K * E) * T <= (L * D) * T BY <1>4, <1>5
  <2>3. (S * D) * E = D * (S * E) /\ (K * T) * E = (K * E) * T /\ (L * D) * T = D * (L * T)
    BY <1>4
  <2> DEFINE m == S * E
             n == L * T
  <2>4. m \in Int /\ n \in Int BY <1>4
  <2>5. D * m <= D * n BY <1>4, <2>1, <2>2, <2>3
  <2> HIDE DEF m, n
  <2>6. m <= n BY <1>4, <2>4, <2>5
  <2> QED BY <2>6 DEF m, n
<1> QED BY <1>7 DEF Backed, S, T, L, E

\* Through a swap both reserves stay above zero where they are, neither falls below, and
\* the shares stay backed; what the caller gets is above zero where the reserve is.
LEMMA SwapHolds ==
    ASSUME NEW r, Reserves(r), NEW t \in Tokens2, NEW a \in Fractions, a[1] > 0, NEW s \in Fractions
    PROVE  /\ Reserves(Swapped(r, t, a)) /\ (Both(r) => Both(Swapped(r, t, a)))
           /\ (Backed(s, r) => Backed(s, Swapped(r, t, a)))
           /\ AmountOut(r, t, a) \in Fractions /\ AmountOut(r, t, a)[1] >= 0
           /\ (AmountOut(r, t, a)[1] = 0 <=> r[1 - t][1] = 0)
<1> DEFINE x == r[t][1]
           p == r[t][2]
           y == r[1 - t][1]
           q == r[1 - t][2]
           N == a[1]
           A == a[2]
           f == fee_rate[1]
           g == fee_rate[2]
           h == g - f
           z == x * (A * g) + (N * h) * p
           out == AmountOut(r, t, a)
           v == Swapped(r, t, a)
<1>1. t \in Tokens2 /\ 1 - t \in Tokens2 /\ r[t] \in Fractions /\ r[1 - t] \in Fractions
      /\ x >= 0 /\ y >= 0 /\ \A u \in Tokens2 : u = t \/ u = 1 - t
  BY DEF Reserves, Tokens2
<1>2. x \in Nat /\ y \in Nat /\ p \in Nat \ {0} /\ q \in Nat \ {0} BY <1>1 DEF Fractions
<1>3. N \in Nat \ {0} /\ A \in Nat \ {0} BY DEF Fractions
<1>4. f \in Nat /\ g \in Nat \ {0} /\ h \in Nat \ {0} /\ h <= g BY LiquidityAssumption
<1>5. /\ out \in Fractions /\ z > 0 /\ Is(out, y * ((N * h) * p), q * z)
      /\ v \in [Tokens2 -> Fractions]
      /\ Is(v[t], x * A + N * p, p * A) /\ Is(v[1 - t], y * (x * (A * g)), q * z)
      /\ \A u \in Tokens2 : v[u][1] = 0 => v[u] = Whole(0)
  BY SwapIs
<1> HIDE DEF out, v, x, p, y, q, N, A, f, g, h
<1>6. z \in Nat \ {0} BY <1>2, <1>3, <1>4, <1>5
<1> HIDE DEF z
<1>7. v[t] \in Fractions /\ v[1 - t] \in Fractions BY <1>1, <1>5
<1>8. q * z \in Nat \ {0} /\ p * A \in Nat \ {0} BY <1>2, <1>3, <1>6
<1>9. out[1] >= 0 /\ (out[1] = 0 <=> y = 0)
  <2> DEFINE n == y * ((N * h) * p)
             d == q * z
  <2>1. n \in Nat /\ (n = 0 <=> y = 0)
    <3>1. N * h > 0 /\ N * h \in Nat BY <1>3, <1>4
    <3>2. (N * h) * p > 0 /\ (N * h) * p \in Nat BY <1>2, <3>1
    <3> DEFINE m == (N * h) * p
    <3>3. m > 0 /\ m \in Nat BY <3>2
    <3> HIDE DEF m
    <3>4. y * m \in Nat /\ (y * m = 0 <=> y = 0) BY <1>2, <3>3
    <3> QED BY <3>4 DEF m
  <2>2. d \in Nat \ {0} /\ Is(out, n, d) BY <1>5, <1>8
  <2> HIDE DEF n, d
  <2> QED BY <1>5, <2>1, <2>2, SignIs
<1>10. v[t][1] > 0 /\ v[t][1] \in Nat /\ v[t][2] \in Nat \ {0}
  <2> DEFINE n == x * A + N * p
             d == p * A
  <2>1. n \in Int /\ n > 0
    <3>1. x * A \in Nat /\ N * p \in Nat /\ N * p > 0 BY <1>2, <1>3
    <3> QED BY <3>1
  <2>2. d \in Nat \ {0} /\ Is(v[t], n, d) BY <1>5, <1>8
  <2> HIDE DEF n, d
  <2> QED BY <1>7, <2>1, <2>2, SignIs
<1>11. /\ v[1 - t][1] \in Nat /\ v[1 - t][2] \in Nat \ {0}
       /\ x > 0 /\ y > 0 => v[1 - t][1] > 0
  <2> DEFINE n == y * (x * (A * g))
             d == q * z
  <2>1. n \in Nat /\ (x > 0 /\ y > 0 => n > 0)
    <3>1. A * g \in Nat /\ A * g > 0 BY <1>3, <1>4
    <3>2. x * (A * g) \in Nat /\ (x > 0 => x * (A * g) > 0) BY <1>2, <3>1
    <3> DEFINE m == x * (A * g)
    <3>3. m \in Nat /\ (x > 0 => m > 0) BY <3>2
    <3> HIDE DEF m
    <3>4. y * m \in Nat /\ (x > 0 /\ y > 0 => y * m > 0) BY <1>2, <3>3
    <3> QED BY <3>4 DEF m
  <2>2. d \in Nat \ {0} /\ Is(v[1 - t], n, d) BY <1>5, <1>8
  <2> HIDE DEF n, d
  <2> QED BY <1>7, <2>1, <2>2, SignIs
<1>12. Reserves(v)
  <2>1. \A u \in Tokens2 : v[u][1] >= 0 BY <1>1, <1>10, <1>11
  <2> QED BY <1>5, <2>1 DEF Reserves
<1>13. Both(r) => Both(v) BY <1>1, <1>10, <1>11 DEF Both, x, y
<1>14. (x * y) * (v[t][2] * v[1 - t][2]) <= (v[t][1] * v[1 - t][1]) * (p * q)
  <2> DEFINE i == v[t][1]
             j == v[t][2]
             k == v[1 - t][1]
             l == v[1 - t][2]
  <2>1. i * (p * A) = (x * A + N * p) * j /\ k * (q * z) = (y * (x * (A * g))) * l
    BY <1>5 DEF Is
  <2>2. i \in Nat /\ j \in Nat \ {0} /\ k \in Nat /\ l \in Nat \ {0} BY <1>10, <1>11
  <2>3. z = x * (A * g) + (N * h) * p BY DEF z
  <2> HIDE DEF i, j, k, l
  <2>4. (x * y) * (j * l) <= (i * k) * (p * q)
    BY <1>2, <1>3, <1>4, <1>6, <2>1, <2>2, <2>3, ProductGrows
  <2> QED BY <2>4 DEF i, j, k, l
<1>15. Backed(s, r) => Backed(s, v) BY <1>5, <1>14, StillBacked DEF x, y, p, q
<1> QED BY <1>5, <1>9, <1>12, <1>13, <1>15 DEF out, v, y

-----------------------------------------------------------------------------
(* Liquidity that comes and goes *)

\* Two fractions are compared as what they are worth.
LEMMA Compared ==
    ASSUME NEW a \in Fractions, NEW n \in Int, NEW d \in Nat \ {0}, Is(a, n, d),
           NEW b \in Fractions, NEW m \in Int, NEW e \in Nat \ {0}, Is(b, m, e)
    PROVE  a[1] * b[2] <= b[1] * a[2] <=> n * e <= m * d
<1>1. PICK x \in Int, y \in Nat \ {0} : a = <<x, y>> BY DEF Fractions
<1>2. PICK z \in Int, w \in Nat \ {0} : b = <<z, w>> BY DEF Fractions
<1>3. x * d = n * y /\ z * e = m * w BY <1>1, <1>2 DEF Is
<1> DEFINE c == d * e
           k == y * w
           u == x * w
           v == z * y
           i == n * e
           j == m * d
<1>4. c \in Nat /\ c > 0 /\ k \in Nat /\ k > 0 /\ u \in Int /\ v \in Int /\ i \in Int /\ j \in Int
  OBVIOUS
<1>5. c * u = k * i
  <2>1. c * u = (x * d) * (w * e) OBVIOUS
  <2>2. k * i = (n * y) * (w * e) OBVIOUS
  <2> QED BY <1>3, <2>1, <2>2
<1>6. c * v = k * j
  <2>1. c * v = (z * e) * (y * d) OBVIOUS
  <2>2. k * j = (m * w) * (y * d) OBVIOUS
  <2> QED BY <1>3, <2>1, <2>2
<1>7. a[1] * b[2] = u /\ b[1] * a[2] = v BY <1>1, <1>2
<1> HIDE DEF c, k, u, v, i, j
<1>8. u <= v <=> c * u <= c * v BY <1>4
<1>9. i <= j <=> k * i <= k * j BY <1>4
<1>10. u <= v <=> i <= j BY <1>5, <1>6, <1>8, <1>9
<1> QED BY <1>7, <1>10 DEF i, j

LEMMA BackedIs ==
    ASSUME NEW s \in Fractions, NEW i \in Int, NEW j \in Nat \ {0}, Is(s, i, j),
           NEW r \in [Tokens2 -> Fractions],
           NEW n \in Int, NEW d \in Nat \ {0}, Is(r[0], n, d),
           NEW m \in Int, NEW e \in Nat \ {0}, Is(r[1], m, e)
    PROVE  Backed(s, r) <=> (i * i) * (d * e) <= (n * m) * (j * j)
<1>1. r[0] \in Fractions /\ r[1] \in Fractions BY DEF Tokens2
<1>2. PICK x \in Int, y \in Nat \ {0} : s = <<x, y>> BY DEF Fractions
<1>3. PICK z \in Int, w \in Nat \ {0} : r[0] = <<z, w>> BY <1>1 DEF Fractions
<1>4. PICK u \in Int, v \in Nat \ {0} : r[1] = <<u, v>> BY <1>1 DEF Fractions
<1>5. x * j = i * y /\ z * d = n * w /\ u * e = m * v BY <1>2, <1>3, <1>4 DEF Is
<1> DEFINE a1 == x * x
           a2 == y * y
           b1 == z * u
           b2 == w * v
           a == <<a1, a2>>
           b == <<b1, b2>>
           I == i * i
           J == j * j
           N == n * m
           D == d * e
<1>6. /\ a1 \in Int /\ a2 \in Nat \ {0} /\ b1 \in Int /\ b2 \in Nat \ {0}
      /\ I \in Int /\ J \in Nat \ {0} /\ N \in Int /\ D \in Nat \ {0}
  OBVIOUS
<1>7. a1 * J = I * a2
  <2>1. a1 * J = (x * j) * (x * j) OBVIOUS
  <2>2. I * a2 = (i * y) * (i * y) OBVIOUS
  <2> QED BY <1>5, <2>1, <2>2
<1>8. b1 * D = N * b2
  <2>1. b1 * D = (z * d) * (u * e) OBVIOUS
  <2>2. N * b2 = (n * w) * (m * v) OBVIOUS
  <2> QED BY <1>5, <2>1, <2>2
<1>9. Backed(s, r) <=> a1 * b2 <= b1 * a2 BY <1>2, <1>3, <1>4 DEF Backed
<1> HIDE DEF a1, a2, b1, b2, I, J, N, D
<1>10. /\ a \in Fractions /\ b \in Fractions /\ Is(a, I, J) /\ Is(b, N, D)
       /\ a[1] = a1 /\ a[2] = a2 /\ b[1] = b1 /\ b[2] = b2
  BY <1>6, <1>7, <1>8 DEF Fractions, Is
<1> HIDE DEF a, b
<1>11. a[1] * b[2] <= b[1] * a[2] <=> I * D <= N * J BY <1>6, <1>10, Compared
<1>12. Backed(s, r) <=> I * D <= N * J BY <1>9, <1>10, <1>11
<1> QED BY <1>12 DEF I, J, N, D

\* The reserves and the shares after more came in, and whether it was enough of token1.
LEMMA AddHolds ==
    ASSUME NEW r, Reserves(r), Both(r), NEW s \in Fractions, s[1] > 0,
           NEW M \in Nat \ {0}, NEW N \in Nat \ {0}, NEW v, NEW s2, NEW off,
           v = [t \in Tokens2 |-> Plus(r[t], Whole(IF t = 0 THEN M ELSE N))],
           s2 = Plus(s, Times(Over(Whole(M), r[0]), s)),
           off = Minus(Whole(N), Over(Times(Whole(M), r[1]), r[0]))
    PROVE  /\ Reserves(v) /\ Both(v) /\ s2 \in Fractions /\ s2[1] > 0 /\ off \in Fractions
           /\ Backed(s, r) /\ off[1] >= 0 => Backed(s2, v)
<1> DEFINE x == r[0][1]
           p == r[0][2]
           y == r[1][1]
           q == r[1][2]
           i == s[1]
           j == s[2]
           a == Whole(M)
           b == Whole(N)
           c == Over(a, r[0])
           e == Times(c, s)
           g == Times(a, r[1])
           h == Over(g, r[0])
<1>1. /\ r[0] \in Fractions /\ r[1] \in Fractions /\ x \in Nat \ {0} /\ y \in Nat \ {0}
      /\ p \in Nat \ {0} /\ q \in Nat \ {0} /\ i \in Nat \ {0} /\ j \in Nat \ {0}
  BY DEF Reserves, Both, Tokens2, Fractions
<1>2. Is(r[0], x, p) /\ Is(r[1], y, q) /\ Is(s, i, j) BY DEF Is
<1>3. a \in Fractions /\ Is(a, M, 1) /\ b \in Fractions /\ Is(b, N, 1) BY WholeIs
<1>4. v[0] = Plus(r[0], a) /\ v[1] = Plus(r[1], b) /\ v = [t \in Tokens2 |-> v[t]]
  BY DEF Tokens2
<1>5. s2 = Plus(s, e) /\ off = Minus(b, h) OBVIOUS
<1>x. 0 \in Tokens2 /\ 1 \in Tokens2 /\ \A t \in Tokens2 : t = 0 \/ t = 1 BY DEF Tokens2
<1>y. Backed(s, r) <=> (i * i) * (p * q) <= (x * y) * (j * j) BY DEF Backed
<1> DEFINE r0 == r[0]
           r1 == r[1]
<1>6. r0 \in Fractions /\ r1 \in Fractions /\ Is(r0, x, p) /\ Is(r1, y, q)
      /\ c = Over(a, r0) /\ g = Times(a, r1) /\ h = Over(g, r0)
      /\ v[0] = Plus(r0, a) /\ v[1] = Plus(r1, b)
  BY <1>1, <1>2, <1>4
<1>z. e = Times(c, s) OBVIOUS
<1> HIDE DEF x, p, y, q, i, j, a, b, c, e, g, h, r0, r1
<1>7. c \in Fractions /\ Is(c, M * p, 1 * x) BY <1>1, <1>3, <1>6, IsOver
<1> DEFINE Mp == M * p
           x1 == 1 * x
<1>8. Mp \in Nat \ {0} /\ x1 = x /\ Is(c, Mp, x1) BY <1>1, <1>7
<1> HIDE DEF Mp, x1
<1>9. e \in Fractions /\ Is(e, Mp * i, x * j) BY <1>1, <1>2, <1>7, <1>8, <1>z, IsTimes
<1> DEFINE k == Mp * i
           l == x * j
<1>10. k \in Nat \ {0} /\ l \in Nat \ {0} BY <1>1, <1>8
<1> HIDE DEF k, l
<1>11. s2 \in Fractions /\ Is(s2, i * l + k * j, j * l)
  <2>1. Is(e, k, l) BY <1>9 DEF k, l
  <2> QED BY <1>1, <1>2, <1>5, <1>9, <1>10, <2>1, IsPlus
<1>12. Is(s2, i * (x + Mp), l)
  <2> DEFINE n == i * l + k * j
             d == j * l
             m == i * (x + Mp)
  <2>1. n \in Int /\ m \in Int /\ d \in Nat \ {0} BY <1>1, <1>8, <1>10
  <2>2. n = j * m BY <1>1, <1>8 DEF k, l
  <2>3. n * l = m * d BY <1>1, <1>10, <2>1, <2>2
  <2>4. Is(s2, n, d) BY <1>11
  <2> HIDE DEF n, d, m
  <2>5. Is(s2, m, l) BY <1>10, <1>11, <2>1, <2>3, <2>4, SameWorth
  <2> QED BY <2>5 DEF m
<1> DEFINE X == x + Mp
           Nq == N * q
           Y == y + Nq
<1>13. X \in Nat \ {0} /\ Nq \in Nat \ {0} /\ Y \in Nat \ {0} BY <1>1, <1>8
<1>14. v[0] \in Fractions /\ Is(v[0], X, p)
  <2>1. Plus(r0, a) \in Fractions /\ Is(Plus(r0, a), x * 1 + M * p, p * 1)
    BY <1>1, <1>3, <1>6, IsPlus
  <2>2. x * 1 + M * p = X /\ p * 1 = p BY <1>1 DEF Mp
  <2> QED BY <1>6, <2>1, <2>2
<1>15. v[1] \in Fractions /\ Is(v[1], Y, q)
  <2>1. Plus(r1, b) \in Fractions /\ Is(Plus(r1, b), y * 1 + N * q, q * 1)
    BY <1>1, <1>3, <1>6, IsPlus
  <2>2. y * 1 + N * q = Y /\ q * 1 = q BY <1>1
  <2> QED BY <1>6, <2>1, <2>2
<1>16. g \in Fractions /\ Is(g, M * y, q)
  <2>1. g \in Fractions /\ Is(g, M * y, 1 * q) BY <1>1, <1>3, <1>6, IsTimes
  <2>2. 1 * q = q BY <1>1
  <2> QED BY <2>1, <2>2
<1> DEFINE My == M * y
           qx == q * x
           up == My * p
<1>17. My \in Nat \ {0} /\ qx \in Nat \ {0} /\ up \in Nat BY <1>1
<1>18. h \in Fractions /\ Is(h, up, qx)
  <2> HIDE DEF My
  <2>1. Is(g, My, q) BY <1>16 DEF My
  <2> QED BY <1>1, <1>6, <1>16, <1>17, <2>1, IsOver
<1> HIDE DEF X, Nq, Y, qx, up
<1>19. off \in Fractions /\ (off[1] >= 0 <=> up <= N * qx)
  <2>1. off \in Fractions /\ Is(off, N * qx - up * 1, 1 * qx)
    BY <1>3, <1>5, <1>17, <1>18, IsMinus
  <2> DEFINE n == N * qx - up * 1
             d == 1 * qx
  <2>2. n \in Int /\ d \in Nat \ {0} BY <1>17
  <2>3. n >= 0 <=> up <= N * qx BY <1>17
  <2> HIDE DEF n, d
  <2>4. Is(off, n, d) BY <2>1 DEF n, d
  <2> QED BY <2>1, <2>2, <2>3, <2>4, SignIs
<1>20. s2[1] > 0
  <2> DEFINE n == i * (x + Mp)
  <2>1. n \in Int /\ n > 0 BY <1>1, <1>8
  <2> HIDE DEF n
  <2>2. Is(s2, n, l) BY <1>12 DEF n
  <2> QED BY <1>10, <1>11, <2>1, <2>2, SignIs
<1>21. v[0][1] > 0 /\ v[1][1] > 0
  BY <1>1, <1>13, <1>14, <1>15, SignIs
<1>22. Reserves(v) /\ Both(v)
  <2>1. v \in [Tokens2 -> Fractions] BY <1>4, <1>14, <1>15, <1>x
  <2>2. \A t \in Tokens2 : v[t][1] > 0 BY <1>21, <1>x
  <2>3. \A t \in Tokens2 : v[t] \in Fractions => v[t][1] \in Int BY DEF Fractions
  <2> QED BY <2>1, <2>2, <2>3 DEF Reserves, Both
<1>23. ASSUME Backed(s, r), off[1] >= 0 PROVE Backed(s2, v)
  <2> DEFINE n == i * X
  <2>1. n \in Nat BY <1>1, <1>13
  <2>2. Is(s2, n, l) BY <1>12 DEF X
  <2>3. (n * n) * (p * q) <= (X * Y) * (l * l)
    <3>1. y * X <= Y * x
      <4>1. y * Mp <= Nq * x
        <5>1. up <= N * qx BY <1>19, <1>23
        <5>2. up = y * Mp /\ N * qx = Nq * x BY <1>1 DEF up, qx, Mp, Nq
        <5> QED BY <5>1, <5>2
      <4>2. y * X = y * x + y * Mp /\ Y * x = y * x + Nq * x BY <1>1, <1>8, <1>13 DEF X, Y
      <4>3. y * Mp \in Int /\ Nq * x \in Int /\ y * x \in Int BY <1>1, <1>8, <1>13
      <4> QED BY <4>1, <4>2, <4>3
    <3>2. (i * i) * (p * q) <= (x * y) * (j * j) BY <1>23, <1>y
    <3> DEFINE A == (i * i) * (p * q)
               B == (x * y) * (j * j)
               C == X * X
               E == (X * x) * (j * j)
               F == y * X
               G == Y * x
    <3>3. A \in Nat /\ B \in Nat /\ C \in Nat /\ E \in Nat /\ F \in Nat /\ G \in Nat
      BY <1>1, <1>13
    <3>4. (n * n) * (p * q) = C * A BY <1>1, <1>13
    <3>5. C * B = E * F BY <1>1, <1>13
    <3>6. (X * Y) * (l * l) = E * G BY <1>1, <1>13 DEF l
    <3> HIDE DEF A, B, C, E, F, G
    <3>7. C * A <= C * B BY <3>2, <3>3 DEF A, B
    <3>8. E * F <= E * G BY <3>1, <3>3 DEF F, G
    <3> DEFINE CA == C * A
               EF == E * F
               EG == E * G
    <3>9. CA \in Int /\ EF \in Int /\ EG \in Int BY <3>3
    <3>10. CA <= EF /\ EF <= EG BY <3>5, <3>7, <3>8
    <3> HIDE DEF CA, EF, EG
    <3>11. CA <= EG BY <3>9, <3>10
    <3> QED BY <3>4, <3>6, <3>11 DEF CA, EG
  <2> HIDE DEF n
  <2>4. v \in [Tokens2 -> Fractions] BY <1>22 DEF Reserves
  <2>5. X \in Int /\ Y \in Int /\ n \in Int BY <1>13, <2>1
  <2> QED BY <1>1, <1>10, <1>11, <1>14, <1>15, <2>2, <2>3, <2>4, <2>5, BackedIs
<1> QED BY <1>11, <1>19, <1>20, <1>22, <1>23

\* What is left of a number when the whole or half of it goes.
Portions == {<<1, 1>>, <<1, 2>>}
Rest(a, portion) == Minus(a, Times(portion, a))

LEMMA RestIs ==
    ASSUME NEW a \in Fractions, NEW portion \in Portions
    PROVE  /\ Rest(a, portion) \in Fractions
           /\ (Rest(a, portion)[1] = 0 => Rest(a, portion) = Whole(0))
           /\ (portion = <<1, 1>> => Rest(a, portion) = Whole(0))
           /\ (portion = <<1, 2>> => Is(Rest(a, portion), a[1], a[2] * 2))
<1>1. PICK x \in Int, y \in Nat \ {0} : a = <<x, y>> BY DEF Fractions
<1> DEFINE k == portion[2]
           b == Times(portion, a)
           c == Minus(a, b)
<1>2. portion \in Fractions /\ k \in {1, 2} /\ Is(portion, 1, k) /\ Is(a, x, y)
      /\ (portion = <<1, 1>> => k = 1) /\ (portion = <<1, 2>> => k = 2)
  BY <1>1 DEF Portions, Fractions, Is
<1> HIDE DEF k, c
<1>3. b \in Fractions /\ Is(b, 1 * x, k * y) BY <1>2, IsTimes
<1> HIDE DEF b
<1> DEFINE n == 1 * x
           d == k * y
<1>4. n = x /\ d \in Nat \ {0} BY <1>2
<1>5. Is(b, x, d) BY <1>3, <1>4
<1> HIDE DEF n, d
<1>6. c \in Fractions /\ (c[1] = 0 => c = Whole(0)) BY <1>3, MinusIs DEF c
<1>7. Is(c, x * d - x * y, y * d) BY <1>2, <1>3, <1>4, <1>5, IsMinus DEF c
<1> DEFINE i == x * d - x * y
           j == y * d
<1>8. i \in Int /\ j \in Nat \ {0} /\ Is(c, i, j) BY <1>4, <1>7
<1>9. k = 1 => c = Whole(0)
  <2> SUFFICES ASSUME k = 1 PROVE c = Whole(0) OBVIOUS
  <2>1. d = y BY DEF d
  <2>2. i = 0 BY <2>1
  <2> HIDE DEF i, j
  <2>3. c[1] = 0 BY <1>6, <1>8, <2>2, SignIs
  <2> QED BY <1>6, <2>3
<1>10. k = 2 => Is(c, x, y * 2)
  <2> SUFFICES ASSUME k = 2 PROVE Is(c, x, y * 2) OBVIOUS
  <2> DEFINE e == y * 2
  <2>1. d = 2 * y BY DEF d
  <2>2. i * e = x * j /\ e \in Nat \ {0} BY <2>1
  <2> HIDE DEF i, j, e
  <2>3. Is(c, x, e) BY <1>6, <1>8, <2>2, SameWorth
  <2> QED BY <2>3 DEF e
<1>11. c = Rest(a, portion) BY DEF c, b, Rest
<1> QED BY <1>1, <1>2, <1>6, <1>9, <1>10, <1>11

\* The reserves and the shares after a part of both went.
LEMMA RemoveHolds ==
    ASSUME NEW r, Reserves(r), Both(r), NEW s \in Fractions, s[1] > 0, NEW portion \in Portions,
           NEW v, v = [t \in Tokens2 |-> Rest(r[t], portion)], NEW s2, s2 = Rest(s, portion)
    PROVE  /\ Reserves(v) /\ s2 \in Fractions /\ s2[1] >= 0 /\ (s2[1] = 0 => s2 = Whole(0))
           /\ (s2 # Whole(0) => Both(v))
           /\ (s2 = Whole(0) => \A t \in Tokens2 : v[t] = Whole(0))
           /\ (Backed(s, r) => Backed(s2, v))
<1>1. r[0] \in Fractions /\ r[1] \in Fractions /\ r[0][1] > 0 /\ r[1][1] > 0
  BY DEF Reserves, Both, Tokens2
<1>2. PICK x \in Int, p \in Nat \ {0} : r[0] = <<x, p>> BY <1>1 DEF Fractions
<1>3. PICK y \in Int, q \in Nat \ {0} : r[1] = <<y, q>> BY <1>1 DEF Fractions
<1>4. PICK i \in Int, j \in Nat \ {0} : s = <<i, j>> BY DEF Fractions
<1> DEFINE v0 == Rest(r[0], portion)
           v1 == Rest(r[1], portion)
<1>5. v[0] = v0 /\ v[1] = v1 /\ v = [t \in Tokens2 |-> v[t]] BY DEF Tokens2
<1>6. \A t \in Tokens2 : t = 0 \/ t = 1 BY DEF Tokens2
<1>7. /\ v0 \in Fractions /\ v1 \in Fractions /\ s2 \in Fractions
      /\ (v0[1] = 0 => v0 = Whole(0)) /\ (v1[1] = 0 => v1 = Whole(0)) /\ (s2[1] = 0 => s2 = Whole(0))
  BY <1>1, RestIs
<1>8. CASE portion = <<1, 1>>
  <2>1. v0 = Whole(0) /\ v1 = Whole(0) /\ s2 = Whole(0) BY <1>1, <1>8, RestIs
  <2> HIDE DEF v0, v1
  <2>2. \A t \in Tokens2 : v[t] = Whole(0) BY <1>5, <1>6, <2>1
  <2>3. Whole(0) \in Fractions /\ Whole(0)[1] = 0 BY DEF Whole, Fractions
  <2>4. Reserves(v)
    <3>1. v \in [Tokens2 -> Fractions] BY <1>5, <2>2, <2>3
    <3> QED BY <2>2, <2>3, <3>1 DEF Reserves
  <2>5. Backed(s2, v) BY <2>1, <1>5 DEF Backed, Whole
  <2> QED BY <2>1, <2>2, <2>3, <2>4, <2>5
<1>9. CASE portion = <<1, 2>>
  <2>1. Is(v0, x, p * 2) /\ Is(v1, y, q * 2) /\ Is(s2, i, j * 2)
    BY <1>1, <1>2, <1>3, <1>4, <1>9, RestIs
  <2> HIDE DEF v0, v1
  <2> DEFINE P == p * 2
             Q == q * 2
             J == j * 2
  <2>2. P \in Nat \ {0} /\ Q \in Nat \ {0} /\ J \in Nat \ {0}
        /\ Is(v0, x, P) /\ Is(v1, y, Q) /\ Is(s2, i, J)
    BY <2>1
  <2>3. x > 0 /\ y > 0 /\ i > 0 BY <1>1, <1>2, <1>3, <1>4
  <2>4. Backed(s, r) <=> (i * i) * (p * q) <= (x * y) * (j * j) BY <1>2, <1>3, <1>4 DEF Backed
  <2>5. (i * i) * (P * Q) = 4 * ((i * i) * (p * q)) /\ (x * y) * (J * J) = 4 * ((x * y) * (j * j))
    OBVIOUS
  <2>6. Backed(s, r) => (i * i) * (P * Q) <= (x * y) * (J * J)
    <3> DEFINE m == (i * i) * (p * q)
               n == (x * y) * (j * j)
    <3>1. m \in Int /\ n \in Int OBVIOUS
    <3> HIDE DEF m, n
    <3>2. m <= n => 4 * m <= 4 * n BY <3>1
    <3> QED BY <2>4, <2>5, <3>2 DEF m, n
  <2> HIDE DEF P, Q, J
  <2>7. v0[1] > 0 /\ v1[1] > 0 /\ s2[1] > 0 BY <1>7, <2>2, <2>3, SignIs
  <2>8. Reserves(v) /\ Both(v)
    <3>1. v \in [Tokens2 -> Fractions] BY <1>5, <1>6, <1>7
    <3>2. v0[1] \in Int /\ v1[1] \in Int BY <1>7 DEF Fractions
    <3> QED BY <1>5, <1>6, <1>7, <2>7, <3>1, <3>2 DEF Reserves, Both
  <2>9. v \in [Tokens2 -> Fractions] BY <2>8 DEF Reserves
  <2>10. Backed(s, r) => Backed(s2, v)
    BY <1>5, <1>7, <2>2, <2>6, <2>9, BackedIs
  <2>11. s2[1] \in Int /\ s2 # Whole(0) BY <1>7, <2>7 DEF Fractions, Whole
  <2> QED BY <1>7, <2>7, <2>8, <2>10, <2>11
<1> QED BY <1>8, <1>9 DEF Portions

\* Whole amounts into an empty pool.
LEMMA FirstIs ==
    ASSUME NEW m \in Nat \ {0}, NEW n \in Nat \ {0}
    PROVE  Times(Whole(m), Whole(n))[1] = m * n /\ Plus(Whole(0), Whole(m)) = Whole(m)
<1>1. Fraction(m, 1) = Whole(m) /\ Fraction(n, 1) = Whole(n) BY WholeIs
<1>2. Whole(m) = <<m, 1>> /\ Whole(n) = <<n, 1>> /\ Whole(0) = <<0, 1>> BY DEF Whole
<1>3. Times(Whole(m), Whole(n))[1] = m * n BY <1>1, <1>2 DEF Times
<1>4. Gcd[<<1, 1>>] = 1
  <2> DEFINE p == <<1, 1>>
             q == <<1, 0>>
  <2>1. p \in Pairs /\ q \in Pairs BY DEF Pairs
  <2>2. 1 % 1 = 0 OBVIOUS
  <2>3. GcdOf(Gcd, p) = Gcd[q] BY <2>2 DEF GcdOf
  <2>4. GcdOf(Gcd, q) = 1 BY DEF GcdOf
  <2>5. Gcd[p] = Gcd[q] /\ Gcd[q] = 1
    <3> HIDE DEF p, q
    <3> QED BY <2>1, <2>3, <2>4, GcdIs
  <2> QED BY <2>5
<1>5. Plus(Whole(0), Whole(m)) = Fraction(0 * (1 \div 1) + m * (1 \div 1), 1 * (1 \div 1))
  BY <1>2, <1>4 DEF Plus
<1> DEFINE i == 0 * (1 \div 1) + m * (1 \div 1)
           j == 1 * (1 \div 1)
<1>6. i = m /\ j = 1 OBVIOUS
<1>7. Plus(Whole(0), Whole(m)) = Fraction(i, j) BY <1>5
<1> HIDE DEF i, j
<1>8. Plus(Whole(0), Whole(m)) = Fraction(m, 1) BY <1>6, <1>7
<1>9. Plus(Whole(0), Whole(m)) = Whole(m) BY <1>1, <1>8
<1> QED BY <1>3, <1>9

LEMMA RootIs ==
    ASSUME NEW n \in Nat, \E m \in 0 .. n : m * m = n
    PROVE  Root(n) \in Nat /\ Root(n) * Root(n) = n
<1> DEFINE Fits(k) == k \in 0 .. n /\ k * k = n
<1>1. \E k : Fits(k) OBVIOUS
<1>2. Root(n) = CHOOSE k : Fits(k) BY Zenon DEF Root
<1>3. Fits(Root(n))
  <2> HIDE DEF Fits
  <2> QED BY <1>1, <1>2, Zenon
<1> QED BY <1>3

\* Shares of the root of what came in.
LEMMA FirstHolds ==
    ASSUME NEW m \in Nat \ {0}, NEW n \in Nat \ {0}, \E k \in 0 .. m * n : k * k = m * n,
           NEW v, v = [t \in Tokens2 |-> Whole(IF t = 0 THEN m ELSE n)],
           NEW s, s = Whole(Root(m * n))
    PROVE  Reserves(v) /\ Both(v) /\ s \in Fractions /\ s[1] > 0 /\ Backed(s, v)
<1> DEFINE k == Root(m * n)
<1>1. m * n \in Nat /\ m * n > 0 OBVIOUS
<1>2. k \in Nat /\ k * k = m * n BY <1>1, RootIs
<1> HIDE DEF k
<1>3. k > 0 BY <1>1, <1>2
<1>4. s = <<k, 1>> BY DEF Whole, k
<1>5. v[0] = <<m, 1>> /\ v[1] = <<n, 1>> /\ \A t \in Tokens2 : v[t] = <<m, 1>> \/ v[t] = <<n, 1>>
  BY DEF Tokens2, Whole
<1>6. v = [t \in Tokens2 |-> v[t]] OBVIOUS
<1>7. v \in [Tokens2 -> Fractions]
  <2>1. <<m, 1>> \in Fractions /\ <<n, 1>> \in Fractions BY DEF Fractions
  <2> QED BY <1>5, <1>6, <2>1
<1>8. \A t \in Tokens2 : v[t][1] > 0 BY <1>5
<1>9. Reserves(v) /\ Both(v)
  <2>1. \A t \in Tokens2 : v[t][1] \in Int BY <1>5
  <2> QED BY <1>7, <1>8, <2>1 DEF Reserves, Both
<1>10. s \in Fractions /\ s[1] > 0 BY <1>2, <1>3, <1>4 DEF Fractions
<1>11. Backed(s, v)
  <2>1. (k * k) * (1 * 1) <= (m * n) * (1 * 1) BY <1>1, <1>2
  <2>2. s[1] = k /\ s[2] = 1 /\ v[0][1] = m /\ v[0][2] = 1 /\ v[1][1] = n /\ v[1][2] = 1
    BY <1>4, <1>5
  <2> QED BY <2>1, <2>2 DEF Backed
<1> QED BY <1>9, <1>10, <1>11

\* Nothing of nothing: what a swap with an empty reserve gives.
LEMMA NothingOut ==
    ASSUME NEW r, Reserves(r), NEW t \in Tokens2, NEW a \in Fractions, a[1] > 0, r[1 - t][1] = 0
    PROVE  AmountOut(r, t, a) = Whole(0)
<1> DEFINE with_fee == Times(a, Minus(Whole(1), fee_rate))
           onto == Plus(r[t], with_fee)
           zero == Whole(0)
<1>1. zero = <<0, 1>> BY DEF Whole
<1>2. ASSUME NEW b \in Int, NEW c \in Nat \ {0} PROVE Times(zero, <<b, c>>) = zero
  <2>x. 0 \in Int /\ c \in Nat \ {0} OBVIOUS
  <2>y. Fraction(0, c) = <<0, 1>> BY <2>x, FractionIs
  <2>z. Fraction(b, 1) = <<b, 1>> BY WholeIs DEF Whole
  <2>1. Fraction(0, c) = <<0, 1>> /\ Fraction(b, 1) = <<b, 1>> BY <2>y, <2>z
  <2>2. Times(zero, <<b, c>>) = <<0 * b, 1 * 1>> BY <1>1, <2>1 DEF Times
  <2> QED BY <1>1, <2>2
<1>3. 1 - t \in Tokens2 BY DEF Tokens2
<1>4. r[1 - t] = zero BY <1>3 DEF Reserves
<1>5. with_fee \in Fractions
  <2>1. fee_rate \in Fractions BY LiquidityAssumption DEF Fractions
  <2>2. Minus(Whole(1), fee_rate) \in Fractions BY <2>1, WholeIs, MinusIs
  <2> QED BY <2>2, TimesIs
<1>6. PICK b \in Int, c \in Nat \ {0} : with_fee = <<b, c>> BY <1>5 DEF Fractions
<1>7. Times(r[1 - t], with_fee) = zero BY <1>2, <1>4, <1>6
<1>8. r[t] \in Fractions /\ r[t][1] >= 0 BY DEF Reserves
<1>9. onto \in Fractions BY <1>5, <1>8, PlusIs
<1>10. PICK d \in Int, e \in Nat \ {0} : onto = <<d, e>> BY <1>9 DEF Fractions
<1>11. AmountOut(r, t, a) = Over(Times(r[1 - t], with_fee), onto) BY DEF AmountOut
<1>12. AmountOut(r, t, a) = Times(zero, <<e, d>>)
  <2> HIDE DEF zero, with_fee, onto
  <2>1. Over(zero, onto) = Times(zero, <<e, d>>) BY <1>10 DEF Over
  <2> QED BY <1>7, <1>11, <2>1
<1>13. d > 0
  <2>1. fee_rate[1] \in Nat /\ fee_rate[2] \in Nat \ {0} /\ fee_rate[1] < fee_rate[2]
        /\ fee_rate \in Fractions
    BY LiquidityAssumption DEF Fractions
  <2> DEFINE one == Whole(1)
             rest == Minus(one, fee_rate)
             n == 1 * fee_rate[2] - fee_rate[1] * 1
             m == 1 * fee_rate[2]
  <2>2. rest \in Fractions /\ Is(rest, n, m)
    <3>1. one[1] = 1 /\ one[2] = 1 /\ one \in Fractions BY WholeIs DEF Whole
    <3> HIDE DEF one
    <3>2. rest \in Fractions /\ Is(rest, one[1] * fee_rate[2] - fee_rate[1] * one[2], one[2] * fee_rate[2])
      BY <2>1, <3>1, MinusIs
    <3> QED BY <3>1, <3>2
  <2>3. n \in Int /\ n > 0 /\ m \in Nat \ {0} BY <2>1
  <2>4. with_fee = Times(a, rest) OBVIOUS
  <2> HIDE DEF rest, n, m
  <2>5. rest[1] > 0 /\ rest[1] \in Int /\ rest[2] \in Nat \ {0} BY <2>2, <2>3, SignIs
  <2>6. a[1] \in Int /\ a[2] \in Nat \ {0} BY DEF Fractions
  <2>7. Is(with_fee, a[1] * rest[1], a[2] * rest[2]) BY <2>2, <2>4, TimesIs
  <2> DEFINE i == a[1] * rest[1]
             j == a[2] * rest[2]
  <2>8. i \in Int /\ i > 0 /\ j \in Nat \ {0} BY <2>5, <2>6
  <2> HIDE DEF i, j, with_fee
  <2>9. Is(with_fee, i, j) BY <2>7 DEF i, j
  <2>10. with_fee[1] > 0 /\ with_fee[1] \in Int /\ with_fee[2] \in Nat \ {0}
    BY <1>5, <2>8, <2>9, SignIs
  <2> DEFINE x == r[t][1]
             p == r[t][2]
             k == x * with_fee[2] + with_fee[1] * p
             l == p * with_fee[2]
  <2>11. x \in Nat /\ p \in Nat \ {0} BY <1>8 DEF Fractions
  <2>12. Is(onto, k, l) BY <1>5, <1>8, PlusIs
  <2> HIDE DEF x, p
  <2>13. k \in Int /\ k > 0 /\ l \in Nat \ {0}
    <3>1. x * with_fee[2] \in Nat /\ with_fee[1] * p \in Nat /\ with_fee[1] * p > 0 BY <2>10, <2>11
    <3> QED BY <2>10, <2>11, <3>1
  <2> HIDE DEF k, l, onto
  <2>14. onto[1] > 0 BY <1>9, <2>12, <2>13, SignIs
  <2> QED BY <1>10, <2>14
<1> HIDE DEF zero
<1> QED BY <1>2, <1>12, <1>13 DEF zero

-----------------------------------------------------------------------------
(* The pool *)

\* What the reserves and the shares are: an emptied pool whose tokens did not go astray has
\* nothing, one with shares has something of both.
PoolInv ==
    /\ astray \in BOOLEAN /\ even \in BOOLEAN /\ Reserves(reserve)
    /\ shares \in Fractions /\ shares[1] >= 0 /\ (shares[1] = 0 => shares = Whole(0))
    /\ (shares # Whole(0) => Both(reserve))
    /\ (~astray /\ shares = Whole(0) => \A t \in Tokens2 : reserve[t] = Whole(0))
    /\ (~astray => reserve = paid)
    /\ constant_product \in Fractions
    /\ Is(constant_product, reserve[0][1] * reserve[1][1], reserve[0][2] * reserve[1][2])
    /\ (even => Backed(shares, reserve))

LEMMA PoolInitial == LiquidityInit => PoolInv
<1> SUFFICES ASSUME LiquidityInit PROVE PoolInv OBVIOUS
<1>1. Whole(0) = <<0, 1>> /\ Whole(0) \in Fractions /\ Whole(0)[1] = 0 BY DEF Whole, Fractions
<1>2. /\ reserve = [t \in Tokens2 |-> Whole(0)] /\ (\A t \in Tokens2 : reserve[t] = Whole(0))
      /\ shares = Whole(0) /\ constant_product = Whole(0) /\ paid = reserve /\ even = TRUE /\ ~astray
      /\ astray \in BOOLEAN
  BY DEF LiquidityInit
<1>3. Reserves(reserve) BY <1>1, <1>2 DEF Reserves
<1>4. /\ reserve[0][1] = 0 /\ reserve[0][2] = 1 /\ reserve[1][1] = 0 /\ reserve[1][2] = 1
      /\ shares[1] = 0 /\ shares[2] = 1 /\ constant_product[1] = 0 /\ constant_product[2] = 1
  <2>1. 0 \in Tokens2 /\ 1 \in Tokens2 BY DEF Tokens2
  <2>2. reserve[0] = <<0, 1>> /\ reserve[1] = <<0, 1>> BY <1>1, <1>2, <2>1
  <2> QED BY <1>1, <1>2, <2>2
<1>5. Is(constant_product, reserve[0][1] * reserve[1][1], reserve[0][2] * reserve[1][2])
  <2>1. Is(constant_product, 0, 1) BY <1>4 DEF Is
  <2>2. reserve[0][1] * reserve[1][1] = 0 /\ reserve[0][2] * reserve[1][2] = 1 BY <1>4
  <2> QED BY <2>1, <2>2
<1>6. Backed(shares, reserve) BY <1>4 DEF Backed
<1>7. astray \in BOOLEAN /\ even \in BOOLEAN /\ shares \in Fractions /\ shares[1] >= 0
      /\ constant_product \in Fractions
  BY <1>1, <1>2, <1>4
<1> QED BY <1>2, <1>3, <1>5, <1>6, <1>7 DEF PoolInv

\* The product is what was multiplied last.
LEMMA MultipliedIs ==
    ASSUME Reserves(reserve'), Multiplied
    PROVE  /\ constant_product' \in Fractions
           /\ Is(constant_product', reserve'[0][1] * reserve'[1][1], reserve'[0][2] * reserve'[1][2])
<1>1. reserve'[0] \in Fractions /\ reserve'[1] \in Fractions BY DEF Reserves, Tokens2
<1> QED BY <1>1, TimesIs DEF Multiplied

\* Shares above zero are not none.
LEMMA SharesAre ==
    ASSUME NEW s \in Fractions, s[1] >= 0, s[1] = 0 => s = Whole(0)
    PROVE  s # Whole(0) <=> s[1] > 0
<1>1. s[1] \in Int BY DEF Fractions
<1>2. Whole(0)[1] = 0 BY DEF Whole
<1> QED BY <1>1, <1>2

LEMMA CreateKeeps ==
    ASSUME PoolInv, NEW r \in InitialReserves, create_pool(r[1], r[2])
    PROVE  PoolInv'
<1> DEFINE m == r[1]
           n == r[2]
<1>1. m \in Nat \ {0} /\ n \in Nat \ {0} /\ \E k \in 0 .. m * n : k * k = m * n
  BY LiquidityAssumption
<1>2. /\ reserve' = [t \in Tokens2 |-> Whole(IF t = 0 THEN m ELSE n)]
      /\ shares' = Whole(Root(m * n)) /\ constant_product' = Whole(m * n)
      /\ paid' = reserve' /\ astray' = astray /\ even' = even
  BY DEF create_pool
<1> HIDE DEF m, n
<1>3. /\ Reserves(reserve') /\ Both(reserve') /\ shares' \in Fractions /\ shares'[1] > 0
      /\ Backed(shares', reserve')
  BY <1>1, <1>2, FirstHolds
<1>4. shares'[1] >= 0 /\ shares'[1] # 0 /\ shares' # Whole(0)
  <2>1. shares'[1] \in Int /\ Whole(0)[1] = 0 BY <1>3 DEF Fractions, Whole
  <2> QED BY <1>3, <2>1
<1>5. reserve'[0] = <<m, 1>> /\ reserve'[1] = <<n, 1>> /\ constant_product' = <<m * n, 1>>
  BY <1>2 DEF Tokens2, Whole
<1>6. constant_product' \in Fractions
      /\ Is(constant_product', reserve'[0][1] * reserve'[1][1], reserve'[0][2] * reserve'[1][2])
  <2>1. m * n \in Int BY <1>1
  <2>2. reserve'[0][1] = m /\ reserve'[0][2] = 1 /\ reserve'[1][1] = n /\ reserve'[1][2] = 1
    BY <1>5
  <2>3. Is(constant_product', m * n, 1 * 1) BY <1>5, <2>1 DEF Is
  <2> QED BY <1>5, <2>1, <2>2, <2>3 DEF Fractions
<1>7. astray' \in BOOLEAN /\ even' \in BOOLEAN BY <1>2 DEF PoolInv
<1> QED BY <1>2, <1>3, <1>4, <1>6, <1>7 DEF PoolInv

LEMMA AddKeeps ==
    ASSUME PoolInv, NEW n0 \in PoolAmounts, NEW n1 \in PoolAmounts, NEW swapped \in BOOLEAN,
           DEX_add_liquidity(n0, n1, swapped)
    PROVE  PoolInv'
<1> DEFINE amount == [t \in Tokens2 |-> Whole(IF t = 0 THEN n0 ELSE n1)]
           expected == Over(Times(amount[0], reserve[1]), reserve[0])
           off == Minus(amount[1], expected)
           square == Times(amount[0], amount[1])[1]
           First == /\ shares = Whole(0) /\ \E m \in 1 .. square : m * m = square
                    /\ reserve' = amount /\ shares' = Whole(Root(square)) /\ even' = TRUE
           Later == /\ shares # Whole(0)
                    /\ reserve' = [t \in Tokens2 |-> Plus(reserve[t], amount[t])]
                    /\ shares' = Plus(shares, Times(Over(amount[0], reserve[0]), shares))
                    /\ even' = (even /\ off[1] >= 0)
<1>1. n0 \in Nat \ {0} /\ n1 \in Nat \ {0} BY LiquidityAssumption
<1>2. LiquidityPool_add_liquidity(amount) /\ Multiplied /\ astray' = (astray \/ swapped)
      /\ paid' = [t \in Tokens2 |-> Plus(paid[t], amount[IF swapped THEN 1 - t ELSE t])]
  BY DEF DEX_add_liquidity
<1>3. First \/ Later BY <1>2 DEF LiquidityPool_add_liquidity
<1>4. amount[0] = Whole(n0) /\ amount[1] = Whole(n1) BY DEF Tokens2
<1>5. astray' \in BOOLEAN /\ (~astray' => ~astray /\ ~swapped) BY <1>2 DEF PoolInv
<1>6. ASSUME First
      PROVE  /\ Reserves(reserve') /\ Both(reserve') /\ shares' \in Fractions /\ shares'[1] > 0
             /\ (even' => Backed(shares', reserve')) /\ even' \in BOOLEAN
             /\ (~astray' => reserve' = paid')
  <2>1. square = n0 * n1 BY <1>1, <1>4, FirstIs
  <2>2. \E k \in 0 .. n0 * n1 : k * k = n0 * n1
    <3>1. PICK k \in 1 .. square : k * k = square BY <1>6
    <3> HIDE DEF square
    <3>2. n0 * n1 \in Int BY <1>1
    <3>3. k \in 0 .. n0 * n1 /\ k * k = n0 * n1 BY <2>1, <3>1, <3>2
    <3> QED BY <3>3
  <2>3. shares' = Whole(Root(n0 * n1)) /\ reserve' = amount /\ even' = TRUE BY <1>6, <2>1
  <2>4. /\ Reserves(reserve') /\ Both(reserve') /\ shares' \in Fractions /\ shares'[1] > 0
        /\ Backed(shares', reserve')
    BY <1>1, <2>2, <2>3, FirstHolds
  <2>5. ASSUME ~astray' PROVE reserve' = paid'
    <3>1. shares = Whole(0) /\ ~astray /\ ~swapped BY <1>5, <1>6, <2>5
    <3>2. \A t \in Tokens2 : paid[t] = Whole(0) BY <3>1 DEF PoolInv
    <3>3. Plus(Whole(0), Whole(n0)) = Whole(n0) /\ Plus(Whole(0), Whole(n1)) = Whole(n1)
      BY <1>1, FirstIs
    <3>4. \A t \in Tokens2 : Plus(paid[t], amount[t]) = amount[t]
      BY <1>4, <3>2, <3>3 DEF Tokens2
    <3>5. paid' = [t \in Tokens2 |-> Plus(paid[t], amount[t])] BY <1>2, <3>1
    <3>6. amount = [t \in Tokens2 |-> amount[t]] OBVIOUS
    <3> HIDE DEF amount
    <3>7. paid' = amount BY <3>4, <3>5, <3>6
    <3> QED BY <2>3, <3>7
  <2> QED BY <2>3, <2>4, <2>5
<1>7. ASSUME Later
      PROVE  /\ Reserves(reserve') /\ Both(reserve') /\ shares' \in Fractions /\ shares'[1] > 0
             /\ (even' => Backed(shares', reserve')) /\ even' \in BOOLEAN
             /\ (~astray' => reserve' = paid')
  <2>1. Reserves(reserve) /\ Both(reserve) /\ shares \in Fractions /\ shares[1] > 0
    <3>1. shares # Whole(0) BY <1>7
    <3> QED BY <3>1, SharesAre DEF PoolInv
  <2>2. reserve' = [t \in Tokens2 |-> Plus(reserve[t], Whole(IF t = 0 THEN n0 ELSE n1))]
    BY <1>7
  <2>3. shares' = Plus(shares, Times(Over(Whole(n0), reserve[0]), shares)) BY <1>4, <1>7
  <2>4. off = Minus(Whole(n1), Over(Times(Whole(n0), reserve[1]), reserve[0])) BY <1>4
  <2>5. even' = (even /\ off[1] >= 0) BY <1>7
  <2>6. even => Backed(shares, reserve) BY DEF PoolInv
  <2>7. even' \in BOOLEAN BY <2>5 DEF PoolInv
  <2>8. ASSUME ~astray' PROVE reserve' = paid'
    <3>1. reserve = paid /\ ~swapped BY <1>5, <2>8 DEF PoolInv
    <3>2. paid' = [t \in Tokens2 |-> Plus(paid[t], amount[t])] BY <1>2, <3>1
    <3> QED BY <1>7, <3>1, <3>2
  <2> DEFINE o == off
  <2> HIDE DEF amount, off
  <2>9. /\ Reserves(reserve') /\ Both(reserve') /\ shares' \in Fractions /\ shares'[1] > 0
        /\ (Backed(shares, reserve) /\ off[1] >= 0 => Backed(shares', reserve'))
    BY <1>1, <2>1, <2>2, <2>3, <2>4, AddHolds
  <2> QED BY <2>5, <2>6, <2>7, <2>8, <2>9
<1> HIDE DEF First, Later, amount
<1>8. /\ Reserves(reserve') /\ Both(reserve') /\ shares' \in Fractions /\ shares'[1] > 0
      /\ (even' => Backed(shares', reserve')) /\ even' \in BOOLEAN
      /\ (~astray' => reserve' = paid')
  BY <1>3, <1>6, <1>7
<1>9. shares'[1] >= 0 /\ shares'[1] # 0 /\ shares' # Whole(0)
  <2>1. shares'[1] \in Int /\ Whole(0)[1] = 0 BY <1>8 DEF Fractions, Whole
  <2> QED BY <1>8, <2>1
<1>10. constant_product' \in Fractions
       /\ Is(constant_product', reserve'[0][1] * reserve'[1][1], reserve'[0][2] * reserve'[1][2])
  BY <1>2, <1>8, MultipliedIs
<1> QED BY <1>5, <1>8, <1>9, <1>10 DEF PoolInv

LEMMA RemoveKeeps ==
    ASSUME PoolInv, NEW portion \in Portions, DEX_remove_liquidity(portion)
    PROVE  PoolInv'
<1>1. /\ shares # Whole(0) /\ Multiplied /\ astray' = astray /\ even' = even
      /\ reserve' = [t \in Tokens2 |-> Rest(reserve[t], portion)]
      /\ shares' = Rest(shares, portion)
      /\ paid' = [t \in Tokens2 |-> Minus(paid[t], Times(portion, reserve[t]))]
  BY DEF DEX_remove_liquidity, LiquidityPool_remove_liquidity, Rest
<1>2. Reserves(reserve) /\ Both(reserve) /\ shares \in Fractions /\ shares[1] > 0
  BY <1>1, SharesAre DEF PoolInv
<1>3. /\ Reserves(reserve') /\ shares' \in Fractions /\ shares'[1] >= 0
      /\ (shares'[1] = 0 => shares' = Whole(0))
      /\ (shares' # Whole(0) => Both(reserve'))
      /\ (shares' = Whole(0) => \A t \in Tokens2 : reserve'[t] = Whole(0))
      /\ (Backed(shares, reserve) => Backed(shares', reserve'))
  BY <1>1, <1>2, RemoveHolds
<1>4. ~astray' => reserve' = paid'
  <2> SUFFICES ASSUME ~astray' PROVE reserve' = paid' OBVIOUS
  <2>1. reserve = paid BY <1>1 DEF PoolInv
  <2> QED BY <1>1, <2>1 DEF Rest
<1>5. constant_product' \in Fractions
      /\ Is(constant_product', reserve'[0][1] * reserve'[1][1], reserve'[0][2] * reserve'[1][2])
  BY <1>1, <1>3, MultipliedIs
<1>6. (even' => Backed(shares', reserve')) /\ astray' \in BOOLEAN /\ even' \in BOOLEAN
  BY <1>1, <1>3 DEF PoolInv
<1> QED BY <1>3, <1>4, <1>5, <1>6 DEF PoolInv

LEMMA SwapKeeps ==
    ASSUME PoolInv, NEW t \in Tokens2, NEW n \in PoolAmounts, DEX_swap(t, n)
    PROVE  PoolInv'
<1> DEFINE a == Whole(n)
           v == Swapped(reserve, t, a)
<1>1. a \in Fractions /\ a[1] > 0 BY LiquidityAssumption, WholeIs DEF Whole
<1>2. /\ reserve' = v /\ Multiplied /\ shares' = shares /\ even' = even
      /\ paid' = [u \in Tokens2 |-> IF u = t THEN Plus(paid[u], a)
                                   ELSE Minus(paid[u], AmountOut(reserve, t, a))]
      /\ astray' = (astray \/ shares = Whole(0))
  BY DEF DEX_swap
<1>3. ~astray' => reserve' = paid'
  <2> SUFFICES ASSUME ~astray' PROVE reserve' = paid' OBVIOUS
  <2>1. reserve = paid BY <1>2 DEF PoolInv
  <2> QED BY <1>2, <2>1 DEF Swapped
<1> HIDE DEF a, v
<1>4. Reserves(reserve) /\ shares \in Fractions BY DEF PoolInv
<1>5. Reserves(v) /\ (Both(reserve) => Both(v)) /\ (Backed(shares, reserve) => Backed(shares, v))
  BY <1>1, <1>4, SwapHolds DEF v
<1>6. constant_product' \in Fractions
      /\ Is(constant_product', reserve'[0][1] * reserve'[1][1], reserve'[0][2] * reserve'[1][2])
  BY <1>2, <1>5, MultipliedIs
<1>7. /\ astray' \in BOOLEAN /\ even' \in BOOLEAN /\ (even' => Backed(shares', reserve'))
      /\ (shares' # Whole(0) => Both(reserve')) /\ (~astray' => shares' # Whole(0))
      /\ shares' \in Fractions /\ shares'[1] >= 0 /\ (shares'[1] = 0 => shares' = Whole(0))
      /\ Reserves(reserve')
  BY <1>2, <1>5 DEF PoolInv
<1> QED BY <1>3, <1>6, <1>7 DEF PoolInv

LEMMA SlippageKeeps ==
    ASSUME PoolInv, NEW t \in Tokens2, NEW n \in PoolAmounts, calculate_slippage(t, n)
    PROVE  PoolInv'
<1> DEFINE a == Whole(n)
           there == Swapped(reserve, t, a)
           out == AmountOut(reserve, t, a)
           back == Swapped(there, 1 - t, out)
<1>1. a \in Fractions /\ a[1] > 0 BY LiquidityAssumption, WholeIs DEF Whole
<1>2. /\ reserve' = (IF out = Whole(0) THEN there ELSE back) /\ Multiplied /\ astray' = TRUE
      /\ shares' = shares /\ even' = even
  BY DEF calculate_slippage
<1>3. Reserves(reserve) /\ shares \in Fractions /\ 1 - t \in Tokens2 BY DEF PoolInv, Tokens2
<1> HIDE DEF a
<1>4. /\ Reserves(there) /\ (Both(reserve) => Both(there))
      /\ (Backed(shares, reserve) => Backed(shares, there))
      /\ out \in Fractions /\ out[1] >= 0 /\ (out[1] = 0 <=> reserve[1 - t][1] = 0)
  BY <1>1, <1>3, SwapHolds
<1>5. out[1] = 0 => out = Whole(0) BY <1>1, <1>3, <1>4, NothingOut
<1> HIDE DEF out, there
<1>6. out # Whole(0) =>
          /\ Reserves(back) /\ (Both(there) => Both(back))
          /\ (Backed(shares, there) => Backed(shares, back))
  <2>1. out # Whole(0) => out[1] > 0 BY <1>4, <1>5, SharesAre
  <2> QED BY <1>3, <1>4, <2>1, SwapHolds
<1> HIDE DEF back
<1>7. /\ Reserves(reserve') /\ (Both(reserve) => Both(reserve'))
      /\ (Backed(shares, reserve) => Backed(shares, reserve'))
  BY <1>2, <1>4, <1>6
<1>8. constant_product' \in Fractions
      /\ Is(constant_product', reserve'[0][1] * reserve'[1][1], reserve'[0][2] * reserve'[1][2])
  BY <1>2, <1>7, MultipliedIs
<1>9. /\ astray' /\ astray' \in BOOLEAN /\ even' \in BOOLEAN /\ (even' => Backed(shares', reserve'))
      /\ (shares' # Whole(0) => Both(reserve'))
      /\ shares' \in Fractions /\ shares'[1] >= 0 /\ (shares'[1] = 0 => shares' = Whole(0))
  BY <1>2, <1>7 DEF PoolInv
<1> QED BY <1>7, <1>8, <1>9 DEF PoolInv

LEMMA PoolStep == PoolInv /\ [LiquidityNext]_liquidityVars => PoolInv'
<1> SUFFICES ASSUME PoolInv, [LiquidityNext]_liquidityVars PROVE PoolInv' OBVIOUS
<1>1. ASSUME UNCHANGED liquidityVars PROVE PoolInv'
  BY <1>1 DEF liquidityVars, PoolInv
<1>2. ASSUME NEW r \in InitialReserves, create_pool(r[1], r[2]) PROVE PoolInv'
  BY <1>2, CreateKeeps
<1>3. ASSUME NEW n0 \in PoolAmounts, NEW n1 \in PoolAmounts, NEW swapped \in BOOLEAN,
             DEX_add_liquidity(n0, n1, swapped)
      PROVE  PoolInv'
  BY <1>3, AddKeeps
<1>4. ASSUME NEW portion \in Portions, DEX_remove_liquidity(portion) PROVE PoolInv'
  BY <1>4, RemoveKeeps
<1>5. ASSUME NEW t \in Tokens2, NEW n \in PoolAmounts, DEX_swap(t, n) PROVE PoolInv'
  BY <1>5, SwapKeeps
<1>6. ASSUME NEW t \in Tokens2, NEW n \in PoolAmounts, calculate_slippage(t, n) PROVE PoolInv'
  BY <1>6, SlippageKeeps
<1> QED BY <1>1, <1>2, <1>3, <1>4, <1>5, <1>6 DEF LiquidityNext, Portions

LEMMA PoolThen == PoolInv => PoolKeepsWorth
<1> SUFFICES ASSUME PoolInv PROVE PoolKeepsWorth OBVIOUS
<1>1. \A t \in Tokens2 : reserve[t][1] >= 0 BY DEF PoolInv, Reserves
<1>2. ~astray => reserve = paid BY DEF PoolInv
<1>3. ASSUME even PROVE AtMost(Times(shares, shares), constant_product)
  <2> DEFINE a == Times(shares, shares)
             i == shares[1] * shares[1]
             j == shares[2] * shares[2]
             n == reserve[0][1] * reserve[1][1]
             d == reserve[0][2] * reserve[1][2]
  <2>1. shares \in Fractions /\ constant_product \in Fractions /\ Is(constant_product, n, d)
        /\ reserve \in [Tokens2 -> Fractions]
    BY DEF PoolInv, Reserves
  <2>2. a \in Fractions /\ Is(a, i, j) BY <2>1, TimesIs
  <2>3. /\ shares[1] \in Int /\ shares[2] \in Nat \ {0}
        /\ reserve[0][1] \in Int /\ reserve[0][2] \in Nat \ {0}
        /\ reserve[1][1] \in Int /\ reserve[1][2] \in Nat \ {0}
    BY <2>1 DEF Fractions, Tokens2
  <2>4. i \in Int /\ j \in Nat \ {0} /\ n \in Int /\ d \in Nat \ {0} BY <2>3
  <2>5. i * d <= n * j BY <1>3 DEF PoolInv, Backed
  <2> HIDE DEF a, i, j, n, d
  <2>6. a[1] * constant_product[2] <= constant_product[1] * a[2]
    BY <2>1, <2>2, <2>4, <2>5, Compared
  <2>7. AtMost(a, constant_product) BY <2>1, <2>2, <2>6, AtMostIs
  <2> QED BY <2>7 DEF a
<1> QED BY <1>1, <1>2, <1>3 DEF PoolKeepsWorth

LEMMA PoolMoves ==
    ASSUME [ServicesNext]_allVars
    PROVE  [LiquidityNext]_liquidityVars
BY DEF ServicesNext, OnlyMoves, allVars

\* The pool has no reserve below zero and, as long as nobody names the tokens in the other
\* order, swaps with an emptied pool or asks for the slippage, has of each token what was
\* paid in; and the shares squared stay at most the product of the reserves, whatever the
\* amounts and the fee, as long as nobody adds less of token1 than the ratio asks
\* (liquidity.js).
THEOREM PoolWorthKept == ServicesSpec => []PoolKeepsWorth
<1>1. ServicesInit => PoolInv BY PoolInitial DEF ServicesInit
<1>2. PoolInv /\ [ServicesNext]_allVars => PoolInv' BY PoolMoves, PoolStep
<1>3. PoolInv => PoolKeepsWorth BY PoolThen
<1> QED BY <1>1, <1>2, <1>3, PTL DEF ServicesSpec
=============================================================================
