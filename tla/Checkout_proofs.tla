--------------------------- MODULE Checkout_proofs ---------------------------
(***************************************************************************)
(* Buying with IC, for every catalogue, cart, set of promotions and finite *)
(* number of offers.                                                       *)
(***************************************************************************)
EXTENDS Checkout, SumTheorems, TLAPS

-----------------------------------------------------------------------------
(* The promotions. *)

\* What Applications yields.
Application ==
  {app \in [campaign : Campaigns, voucher : Vouchers \cup {0}, discount : Nat \ {0}] :
     app.voucher # 0 => app.campaign = VoucherRows[app.voucher].campaign}

LEMMA RowTypes ==
  /\ \A c \in Campaigns : /\ Limits(CampaignRows[c]) /\ CampaignRows[c].value \in Nat
                          /\ CampaignRows[c].maxDiscount \in Nat \cup {NoLimit}
                          /\ CampaignRows[c].priority \in Int /\ c \in Nat \ {0}
  /\ \A v \in Vouchers : /\ Limits(VoucherRows[v]) /\ v \in Nat \ {0}
                         /\ VoucherRows[v].campaign \in Campaigns
<1>1. \A c \in Campaigns : CampaignRows[c].value \in Nat
  BY PromotionAssumption
<1>2. \A c \in Campaigns : CampaignRows[c].maxDiscount \in Nat \cup {NoLimit}
  BY PromotionAssumption
<1>3. \A c \in Campaigns : CampaignRows[c].priority \in Int
  BY PromotionAssumption
<1>4. \A c \in Campaigns : Limits(CampaignRows[c])
  BY PromotionAssumption
<1>5. \A v \in Vouchers : Limits(VoucherRows[v])
  BY PromotionAssumption
<1>6. \A v \in Vouchers : VoucherRows[v].campaign \in Campaigns
  BY PromotionAssumption
<1>7. Campaigns \subseteq Nat \ {0} /\ Vouchers \subseteq Nat \ {0}
  BY PromotionAssumption
<1> QED
  BY <1>1, <1>2, <1>3, <1>4, <1>5, <1>6, <1>7

LEMMA Finite == IsFiniteSet(Campaigns) /\ IsFiniteSet(Vouchers)
  BY PromotionAssumption

\* The applications in the order they are considered.
LEMMA InOrderBefore ==
  ASSUME NEW S \in SUBSET Application, IsFiniteSet(S)
  PROVE  InOrder(S, Before) \in [1 .. Cardinality(S) -> S]
<1> DEFINE R == {p \in S \X S : Before(p[1], p[2])}
<1>1. \A a, b \in S : <<a, b>> \in R <=> Before(a, b)
  OBVIOUS
<1>2. \A a \in S : /\ CampaignRows[a.campaign].priority \in Int
                   /\ a.discount \in Int /\ a.voucher \in Int /\ a.campaign \in Int
  <2> SUFFICES ASSUME NEW a \in S
               PROVE  /\ CampaignRows[a.campaign].priority \in Int
                      /\ a.discount \in Int /\ a.voucher \in Int /\ a.campaign \in Int
    OBVIOUS
  <2>1. a.campaign \in Campaigns /\ a.voucher \in Vouchers \cup {0} /\ a.discount \in Int
    BY DEF Application
  <2>2. CampaignRows[a.campaign].priority \in Int /\ a.campaign \in Nat
    BY <2>1, RowTypes
  <2>3. a.voucher \in Nat
    BY <2>1, RowTypes
  <2> QED
    BY <2>1, <2>2, <2>3
<1>3. \A a, b \in S : a # b => a.campaign # b.campaign \/ a.voucher # b.voucher
                                \/ a.discount # b.discount
  BY DEF Application
<1>4. \A a \in S : ~Before(a, a)
  BY <1>2 DEF Before
<1>5. \A a, b \in S : a # b => Before(a, b) \/ Before(b, a)
  BY <1>2, <1>3 DEF Before
<1>6. \A a, b, c \in S : Before(a, b) /\ Before(b, c) => Before(a, c)
  BY <1>2 DEF Before
<1>7. ASSUME NEW k \in 1 .. Cardinality(S)
      PROVE  \E a \in S : Cardinality({b \in S : Before(b, a)}) = k - 1
  <2>1. PICK a \in S : Cardinality({b \in S : <<b, a>> \in R}) = k - 1
    <3>1. StrictOrder(R, S)
      BY <1>1, <1>4, <1>5, <1>6 DEF StrictOrder
    <3> HIDE DEF R
    <3> QED
      BY <3>1, Ranks
  <2>2. {b \in S : <<b, a>> \in R} = {b \in S : Before(b, a)}
    BY <1>1
  <2> QED
    BY <2>1, <2>2
<1> QED
  BY <1>7 DEF InOrder

Numbers(S) == S \subseteq Nat /\ IsFiniteSet(S)

LEMMA LessIsStrict ==
  ASSUME NEW S, Numbers(S)
  PROVE  \E R : StrictOrder(R, S) /\ \A a, b \in S : <<a, b>> \in R <=> a < b
<1> USE DEF Numbers
<1> DEFINE R == {p \in S \X S : p[1] < p[2]}
<1>1. \A a, b \in S : <<a, b>> \in R <=> a < b
  OBVIOUS
<1>2. StrictOrder(R, S)
  BY <1>1 DEF StrictOrder
<1> QED
  BY <1>1, <1>2

LEMMA InOrderLess ==
  ASSUME NEW S, Numbers(S)
  PROVE  OneToOne(InOrder(S, <), 1 .. Cardinality(S), S)
<1> DEFINE n == Cardinality(S)
           order == InOrder(S, <)
<1>0. n \in Nat
  BY FS_CardinalityType DEF Numbers
<1>1. PICK R : StrictOrder(R, S) /\ \A a, b \in S : <<a, b>> \in R <=> a < b
  BY LessIsStrict
<1>2. IsFiniteSet(S)
  BY DEF Numbers
<1>3. ASSUME NEW k \in 1 .. Cardinality(S)
      PROVE  \E a \in S : Cardinality({b \in S : b < a}) = k - 1
  <2>1. PICK a \in S : Cardinality({b \in S : <<b, a>> \in R}) = k - 1
    BY <1>1, <1>2, Ranks
  <2>2. {b \in S : <<b, a>> \in R} = {b \in S : b < a}
    BY <1>1
  <2> QED
    BY <2>1, <2>2
<1>4. ASSUME NEW k \in 1 .. n
      PROVE  order[k] \in S /\ Cardinality({b \in S : b < order[k]}) = k - 1
  <2>1. order[k] = CHOOSE a \in S : Cardinality({b \in S : b < a}) = k - 1
    BY DEF InOrder
  <2> QED
    BY <1>3, <2>1
<1>5. order \in [1 .. n -> S]
  BY <1>3 DEF InOrder
<1>6. ASSUME NEW i \in 1 .. n, NEW j \in 1 .. n, order[i] = order[j] PROVE i = j
  <2>1. i - 1 = j - 1
    BY <1>4, <1>6
  <2> HIDE DEF n
  <2> QED
    BY <1>0, <2>1
<1>7. S = {order[i] : i \in 1 .. n}
  <2>1. order \in Injection(1 .. n, S)
    BY <1>5, <1>6 DEF Injection, IsInjective
  <2>2. Cardinality(1 .. n) = n /\ IsFiniteSet(1 .. n)
    <3>1. 1 \in Int /\ n \in Int /\ (IF 1 > n THEN 0 ELSE n - 1 + 1) = n
      <4> HIDE DEF n
      <4> QED
        BY <1>0
    <3> HIDE DEF n
    <3> QED
      BY <3>1, FS_Interval
  <2>3. Cardinality(1 .. n) = Cardinality(S)
    BY <2>2
  <2>4. order \in Surjection(1 .. n, S)
    <3> HIDE DEF n, order
    <3> QED
      BY <1>2, <2>1, <2>2, <2>3, FS_Injection
  <2> HIDE DEF order, n
  <2> QED
    BY <1>5, <2>4 DEF Surjection
<1> QED
  BY <1>5, <1>6, <1>7 DEF OneToOne

LEMMA SelectedType ==
  ASSUME NEW apps \in SUBSET Application, IsFiniteSet(apps)
  PROVE  Selected(apps) \in Seq(apps)
<1>1. ASSUME NEW S \in SUBSET apps
      PROVE  InOrder(S, Before) \in [1 .. Cardinality(S) -> S] /\ Cardinality(S) \in Nat
  BY FS_Subset, FS_CardinalityType, InOrderBefore
<1>2. apps # {} => InOrder(apps, Before)[1] \in apps
  <2> SUFFICES ASSUME apps # {} PROVE InOrder(apps, Before)[1] \in apps
    OBVIOUS
  <2>1. Cardinality(apps) \in Nat /\ Cardinality(apps) # 0
    BY FS_EmptySet, FS_CardinalityType
  <2>2. 1 \in 1 .. Cardinality(apps)
    BY <2>1
  <2> QED
    BY <1>1, <2>2
<1> DEFINE some == {app \in apps : CampaignRows[app.campaign].stackable}
<1>3. InOrder(some, Before) \in Seq(apps)
  <2>1. InOrder(some, Before) \in [1 .. Cardinality(some) -> some] /\ Cardinality(some) \in Nat
    BY <1>1
  <2> QED
    BY <2>1
<1> QED
  BY <1>2, <1>3 DEF Selected

LEMMA LineTypes ==
  ASSUME NEW lines \in Seq(Line)
  PROVE  /\ IsFiniteSet(DOMAIN lines) /\ DOMAIN lines = 1 .. Len(lines)
         /\ \A l \in DOMAIN lines : /\ lines[l] \in Line /\ LinePrice(lines[l]) \in Nat
                                    /\ lines[l].quantity \in Nat \ {0}
                                    /\ lines[l].product \in Products
<1>1. Prices \subseteq Nat
  BY CheckoutAssumption
<1>2. DOMAIN lines = 1 .. Len(lines) /\ Len(lines) \in Nat
  OBVIOUS
<1>3. IsFiniteSet(DOMAIN lines)
  BY <1>2, FS_Interval
<1>4. ASSUME NEW l \in DOMAIN lines
      PROVE  /\ lines[l] \in Line /\ LinePrice(lines[l]) \in Nat
             /\ lines[l].quantity \in Nat \ {0} /\ lines[l].product \in Products
  <2>1. lines[l] \in Line
    OBVIOUS
  <2>2. /\ lines[l].price \in Nat /\ lines[l].quantity \in Nat \ {0}
        /\ lines[l].product \in Products
    BY <1>1, <2>1 DEF Line
  <2> QED
    BY <2>1, <2>2 DEF LinePrice
<1> QED
  BY <1>2, <1>3, <1>4

LEMMA WorthType ==
  ASSUME NEW lines \in Seq(Line), NEW S \in SUBSET DOMAIN lines
  PROVE  Worth(lines, S) \in Nat
<1> DEFINE f == [l \in S |-> LinePrice(lines[l])]
<1>1. IsFiniteSet(S) /\ \A l \in S : f[l] \in Nat
  BY LineTypes, FS_Subset
<1>2. SumFunctionOnSet(f, S) \in Nat
  BY <1>1, SumNat
<1> QED
  BY <1>2 DEF Worth, SumFunction

LEMMA DiscountType ==
  ASSUME NEW lines \in Seq(Line), NEW c \in Campaigns
  PROVE  /\ Discount(c, lines) \in Nat
         /\ Discount(c, lines) <= Worth(lines, Eligible(c, lines))
<1> DEFINE row == CampaignRows[c]
           worth == Worth(lines, Eligible(c, lines))
           nominal == IF row.type = "fixed_amount" THEN row.value
                      ELSE (worth * row.value) \div 10000
           capped == IF row.maxDiscount = NoLimit THEN nominal
                     ELSE Least(nominal, row.maxDiscount)
<1>1. worth \in Nat
  BY WorthType DEF Eligible
<1>2. row.value \in Nat /\ row.maxDiscount \in Nat \cup {NoLimit}
  BY RowTypes
<1>3. Discount(c, lines) \in {0, Least(capped, worth)}
  BY DEF Discount
<1> HIDE DEF worth, row
<1>4. nominal \in Nat
  <2>1. \A m \in Nat : m \div 10000 \in Nat
    OBVIOUS
  <2>2. worth * row.value \in Nat
    BY <1>1, <1>2
  <2> QED
    BY <1>2, <2>1, <2>2
<1> HIDE DEF nominal
<1>5. capped \in Nat
  BY <1>2, <1>4 DEF Least
<1> HIDE DEF capped
<1>6. Discount(c, lines) \in Nat /\ Discount(c, lines) <= worth
  BY <1>1, <1>3, <1>5 DEF Least
<1> QED
  BY <1>6 DEF worth

LEMMA ApplicationsType ==
  ASSUME NEW redeemedThen, NEW liveThen, NEW u, NEW lines \in Seq(Line), NEW codes \in SUBSET Vouchers
  PROVE  LET apps == Applications(redeemedThen, liveThen, u, lines, codes)
         IN /\ apps \in SUBSET Application /\ IsFiniteSet(apps)
            /\ \A app \in apps : app.discount = Discount(app.campaign, lines)
<1> DEFINE apps == Applications(redeemedThen, liveThen, u, lines, codes)
<1>1. ASSUME NEW a \in Candidates(liveThen, codes)
      PROVE  /\ a.campaign \in Campaigns /\ a.voucher \in Vouchers \cup {0}
             /\ a.voucher # 0 => a.campaign = VoucherRows[a.voucher].campaign
  <2>1. CASE a \in {[campaign |-> c, voucher |-> 0] :
                      c \in {d \in Campaigns \cap liveThen : ~CampaignRows[d].requiresVoucher}}
    BY <2>1
  <2>2. CASE a \in {[campaign |-> VoucherRows[v].campaign, voucher |-> v] :
                      v \in {w \in codes \cap liveThen : VoucherRows[w].campaign \in liveThen}}
    BY <2>2, RowTypes
  <2> QED
    BY <1>1, <2>1, <2>2 DEF Candidates
<1>2. ASSUME NEW app \in apps
      PROVE  app \in Application /\ app.discount = Discount(app.campaign, lines)
  <2>1. PICK c \in Candidates(liveThen, codes) :
          app = [campaign |-> c.campaign, voucher |-> c.voucher,
                 discount |-> Discount(c.campaign, lines)]
    BY DEF Applications
  <2>2. app.discount > 0
    BY DEF Applications
  <2>3. Discount(c.campaign, lines) \in Nat
    BY <1>1, DiscountType
  <2>4. app.discount \in Nat \ {0}
    BY <2>1, <2>2, <2>3
  <2> QED
    BY <1>1, <2>1, <2>4 DEF Application
<1>3. IsFiniteSet(apps)
  <2> DEFINE pairs == Campaigns \X (Vouchers \cup {0})
             made == [p \in pairs |-> [campaign |-> p[1], voucher |-> p[2],
                                       discount |-> Discount(p[1], lines)]]
             image == {made[p] : p \in pairs}
  <2>1. IsFiniteSet(pairs)
    BY Finite, FS_AddElement, FS_Product
  <2>2. made \in [pairs -> image]
    OBVIOUS
  <2>3. IsFiniteSet(image)
    <3>1. made \in Surjection(pairs, image)
      BY <2>2 DEF Surjection
    <3> QED
      BY <2>1, <3>1, FS_Surjection
  <2>4. ASSUME NEW app \in apps PROVE app \in image
    <3>1. app \in Application /\ app.discount = Discount(app.campaign, lines)
      BY <1>2
    <3>2. <<app.campaign, app.voucher>> \in pairs
      BY <3>1 DEF Application
    <3>3. app = made[<<app.campaign, app.voucher>>]
      BY <3>1, <3>2 DEF Application
    <3> QED
      BY <3>2, <3>3
  <2> QED
    BY <2>3, <2>4, FS_Subset
<1> QED
  BY <1>2, <1>3

\* What is rounded down never adds up to more than the whole.
LEMMA RoundedDown ==
  ASSUME NEW S, IsFiniteSet(S), NEW f, \A x \in S : f[x] \in Nat, NEW d \in Nat,
         NEW w \in Nat, w > 0, NEW T \in SUBSET S, SumFunctionOnSet(f, S) <= w
  PROVE  /\ \A x \in S : (d * f[x]) \div w \in Nat
         /\ SumFunctionOnSet([x \in T |-> (d * f[x]) \div w], T) \in Nat
         /\ SumFunctionOnSet([x \in T |-> (d * f[x]) \div w], T) <= d
<1> DEFINE part == [x \in T |-> (d * f[x]) \div w]
           more == [x \in T |-> w * part[x]]
           all == [x \in T |-> d * f[x]]
<1>1. ASSUME NEW x \in S
      PROVE  /\ d * f[x] \in Nat /\ (d * f[x]) \div w \in Nat
             /\ w * ((d * f[x]) \div w) <= d * f[x]
  <2>1. d * f[x] \in Nat
    OBVIOUS
  <2>2. \A m, n \in Nat : n > 0 => m \div n \in Nat /\ n * (m \div n) <= m
    OBVIOUS
  <2> QED
    BY <2>1, <2>2
<1>2. IsFiniteSet(T)
  BY FS_Subset
<1>3. ASSUME NEW x \in T
      PROVE  /\ f[x] \in Int /\ all[x] = d * f[x] /\ all[x] \in Int
             /\ part[x] \in Nat /\ more[x] = w * part[x] /\ more[x] \in Int
             /\ more[x] <= all[x]
  <2>1. /\ d * f[x] \in Nat /\ (d * f[x]) \div w \in Nat
        /\ w * ((d * f[x]) \div w) <= d * f[x]
    BY <1>1
  <2>2. all[x] = d * f[x] /\ part[x] = (d * f[x]) \div w /\ more[x] = w * part[x]
    OBVIOUS
  <2>3. f[x] \in Int
    OBVIOUS
  <2>4. \A m \in Nat : w * m \in Int
    OBVIOUS
  <2> HIDE DEF all, part, more
  <2> QED
    BY <2>1, <2>2, <2>3, <2>4
<1> HIDE DEF all, more
<1>4. SumFunctionOnSet(part, T) \in Nat
  <2> HIDE DEF part
  <2> QED
    BY <1>2, <1>3, SumNat
<1>5. SumFunctionOnSet(f, T) \in Nat /\ SumFunctionOnSet(f, T) <= w
  <2> DEFINE some == [x \in S |-> IF x \in T THEN f[x] ELSE 0]
  <2>1. \A x \in S : some[x] \in Int /\ f[x] \in Int /\ some[x] <= f[x]
    OBVIOUS
  <2>2. \A x \in T : some[x] = f[x] /\ some[x] \in Int
    OBVIOUS
  <2>3. \A x \in S \ T : some[x] = 0
    OBVIOUS
  <2> HIDE DEF some
  <2>4. SumFunctionOnSet(some, S) <= SumFunctionOnSet(f, S)
    BY <2>1, SumAtMost
  <2>5. SumFunctionOnSet(some, S) = SumFunctionOnSet(f, T)
    BY <2>2, <2>3, SumPart
  <2>6. SumFunctionOnSet(f, S) \in Int
    BY <2>1, SumInt
  <2>7. SumFunctionOnSet(f, T) \in Nat
    BY <1>2, SumNat
  <2> QED
    BY <2>4, <2>5, <2>6, <2>7
<1>6. SumFunctionOnSet(more, T) <= SumFunctionOnSet(all, T)
  <2> HIDE DEF part
  <2> QED
    BY <1>2, <1>3, SumAtMost
<1>7. SumFunctionOnSet(all, T) = d * SumFunctionOnSet(f, T)
  <2> HIDE DEF part
  <2> QED
    BY <1>2, <1>3, SumTimes
<1>8. SumFunctionOnSet(more, T) = w * SumFunctionOnSet(part, T)
  <2> HIDE DEF part
  <2>1. \A x \in T : part[x] \in Int /\ more[x] = w * part[x]
    BY <1>3
  <2> QED
    BY <1>2, <2>1, SumTimes
<1>9. SumFunctionOnSet(part, T) <= d
  <2> HIDE DEF part
  <2>1. \A m, n \in Nat : m <= n => d * m <= n * d
    OBVIOUS
  <2>2. \A m, n \in Nat : w * m <= w * n => m <= n
    OBVIOUS
  <2>3. w * SumFunctionOnSet(part, T) <= d * SumFunctionOnSet(f, T)
    BY <1>6, <1>7, <1>8
  <2>4. d * SumFunctionOnSet(f, T) <= w * d
    BY <1>5, <2>1
  <2>5. \A m \in Nat : d * m \in Int /\ w * m \in Int
    OBVIOUS
  <2>6. w * SumFunctionOnSet(part, T) <= w * d
    BY <1>4, <1>5, <2>3, <2>4, <2>5
  <2> QED
    BY <1>4, <2>2, <2>6
<1> QED
  BY <1>1, <1>4, <1>9

LEMMA ShareType ==
  ASSUME NEW lines \in Seq(Line), NEW app \in Application, NEW l,
         app.discount = Discount(app.campaign, lines)
  PROVE  Share(app, lines, l) \in Nat
<1> DEFINE eligible == Eligible(app.campaign, lines)
           worth == Worth(lines, eligible)
           f == [k \in eligible |-> LinePrice(lines[k])]
           rest == [k \in eligible \ {l} |-> (app.discount * f[k]) \div worth]
<1>1. app.discount \in Nat \ {0} /\ app.campaign \in Campaigns
  BY DEF Application
<1>2. worth \in Nat /\ worth > 0
  <2>1. worth \in Nat
    BY WorthType DEF Eligible
  <2>2. app.discount <= worth
    BY <1>1, DiscountType
  <2> HIDE DEF worth
  <2> QED
    BY <1>1, <2>1, <2>2
<1>3. IsFiniteSet(eligible) /\ \A k \in eligible : f[k] \in Nat
  BY LineTypes, FS_Subset DEF Eligible
<1>4. SumFunctionOnSet(f, eligible) = worth
  BY DEF Worth, SumFunction
<1>5. Share(app, lines, l) \in
        {0, app.discount - SumFunctionOnSet(rest, eligible \ {l})}
        \cup {(app.discount * f[k]) \div worth : k \in eligible}
  <2>1. rest = [k \in eligible \ {l} |-> (app.discount * LinePrice(lines[k])) \div worth]
    OBVIOUS
  <2>2. Share(app, lines, l) = IF l \notin eligible THEN 0
          ELSE IF l = Max(eligible) THEN app.discount - SumFunctionOnSet(rest, eligible \ {l})
          ELSE (app.discount * LinePrice(lines[l])) \div worth
    BY <2>1 DEF Share, SumFunction
  <2>3. l \in eligible => f[l] = LinePrice(lines[l])
    OBVIOUS
  <2> HIDE DEF rest, eligible, worth, f
  <2> QED
    BY <2>2, <2>3
<1> HIDE DEF eligible, worth, f
<1>6. eligible \ {l} \in SUBSET eligible /\ SumFunctionOnSet(f, eligible) <= worth
  BY <1>2, <1>4
<1>7. /\ \A k \in eligible : (app.discount * f[k]) \div worth \in Nat
      /\ SumFunctionOnSet(rest, eligible \ {l}) \in Nat
      /\ SumFunctionOnSet(rest, eligible \ {l}) <= app.discount
  BY <1>1, <1>2, <1>3, <1>6, RoundedDown
<1> HIDE DEF rest
<1>8. app.discount - SumFunctionOnSet(rest, eligible \ {l}) \in Nat
  BY <1>1, <1>7
<1> QED
  BY <1>5, <1>7, <1>8

\* What a list of applications must satisfy.
Lists(selected, lines) ==
  /\ selected \in Seq(Application)
  /\ \A k \in DOMAIN selected :
       selected[k].discount = Discount(selected[k].campaign, lines)

LEMMA CutType ==
  ASSUME NEW lines \in Seq(Line), NEW selected, Lists(selected, lines),
         NEW l \in DOMAIN lines, NEW n \in 0 .. Len(selected)
  PROVE  /\ Cut(selected, lines, l, n) \in Nat
         /\ Cut(selected, lines, l, n) <= LinePrice(lines[l])
         /\ n = 0 => Cut(selected, lines, l, n) = 0
         /\ n > 0 => Cut(selected, lines, l, n - 1) <= Cut(selected, lines, l, n)
<1> DEFINE f == [k \in 1 .. n |-> Share(selected[k], lines, l)]
           g == [k \in 1 .. n - 1 |-> Share(selected[k], lines, l)]
<1>1. n \in Nat /\ 1 .. n \subseteq DOMAIN selected /\ IsFiniteSet(1 .. n)
  BY FS_Interval DEF Lists
<1>2. \A k \in 1 .. n : f[k] \in Nat
  BY <1>1, ShareType DEF Lists
<1>3. SumFunctionOnSet(f, 1 .. n) \in Nat
  BY <1>1, <1>2, SumNat
<1>4. LinePrice(lines[l]) \in Nat
  BY LineTypes
<1>5. Cut(selected, lines, l, n) = Least(LinePrice(lines[l]), SumFunctionOnSet(f, 1 .. n))
  BY DEF Cut, SumFunction
<1>6. CASE n = 0
  <2>1. 1 .. n = {}
    BY <1>6
  <2>2. SumFunctionOnSet(f, 1 .. n) = 0
    BY <2>1, SumOfNothing
  <2> HIDE DEF f
  <2> QED
    BY <1>4, <1>5, <1>6, <2>2 DEF Least
<1>7. CASE n > 0
  <2>1. Cut(selected, lines, l, n - 1) = Least(LinePrice(lines[l]), SumFunctionOnSet(g, 1 .. n - 1))
    BY DEF Cut, SumFunction
  <2>2. n \in 1 .. n /\ (1 .. n) \ {n} = 1 .. n - 1
    BY <1>1, <1>7
  <2>3. \A k \in 1 .. n - 1 : f[k] = g[k]
    BY <1>1
  <2> HIDE DEF f, g
  <2>4. \A k \in 1 .. n : f[k] \in Int
    BY <1>2
  <2>5. SumFunctionOnSet(f, 1 .. n) = f[n] + SumFunctionOnSet(f, (1 .. n) \ {n})
    BY <1>1, <2>2, <2>4, SumRemove
  <2>6. IsFiniteSet(1 .. n - 1)
    BY <1>1, FS_Interval
  <2>7. SumFunctionOnSet(f, 1 .. n - 1) = SumFunctionOnSet(g, 1 .. n - 1)
    BY <2>3, <2>6, SumSame
  <2>8. SumFunctionOnSet(f, 1 .. n - 1) \in Nat
    <3>1. \A k \in 1 .. n - 1 : f[k] \in Nat
      BY <1>1, <1>2
    <3> QED
      BY <2>6, <3>1, SumNat
  <2>9. f[n] \in Nat
    BY <1>2, <2>2
  <2>10. SumFunctionOnSet(f, 1 .. n) = f[n] + SumFunctionOnSet(f, 1 .. n - 1)
    BY <2>2, <2>5, Zenon
  <2>11. SumFunctionOnSet(g, 1 .. n - 1) <= SumFunctionOnSet(f, 1 .. n)
         /\ SumFunctionOnSet(g, 1 .. n - 1) \in Nat
    BY <2>7, <2>8, <2>9, <2>10
  <2> QED
    BY <1>3, <1>4, <1>5, <1>7, <2>1, <2>11 DEF Least
<1> QED
  BY <1>1, <1>6, <1>7

LEMMA GivesType ==
  ASSUME NEW lines \in Seq(Line), NEW selected, Lists(selected, lines), NEW k \in DOMAIN selected
  PROVE  /\ Gives(selected, lines, k) \in Nat
         /\ Gives(selected, lines, k) =
              SumFunctionOnSet([l \in DOMAIN lines |-> Cut(selected, lines, l, k)], DOMAIN lines)
              - SumFunctionOnSet([l \in DOMAIN lines |-> Cut(selected, lines, l, k - 1)], DOMAIN lines)
<1> DEFINE now == [l \in DOMAIN lines |-> Cut(selected, lines, l, k)]
           was == [l \in DOMAIN lines |-> Cut(selected, lines, l, k - 1)]
           f == [l \in DOMAIN lines |-> Cut(selected, lines, l, k) - Cut(selected, lines, l, k - 1)]
<1>1. k \in 0 .. Len(selected) /\ k - 1 \in 0 .. Len(selected) /\ k > 0
  BY DEF Lists
<1>2. ASSUME NEW l \in DOMAIN lines
      PROVE  now[l] \in Int /\ was[l] \in Int /\ f[l] = now[l] - was[l] /\ f[l] \in Nat
  <2>1. Cut(selected, lines, l, k) \in Nat
    BY <1>1, CutType
  <2>2. Cut(selected, lines, l, k - 1) \in Nat
    BY <1>1, CutType
  <2>3. Cut(selected, lines, l, k - 1) <= Cut(selected, lines, l, k)
    BY <1>1, CutType
  <2> QED
    BY <2>1, <2>2, <2>3
<1>3. IsFiniteSet(DOMAIN lines)
  BY LineTypes
<1>4. Gives(selected, lines, k) = SumFunctionOnSet(f, DOMAIN lines)
  BY DEF Gives, SumFunction
<1> HIDE DEF f, now, was
<1>5. SumFunctionOnSet(f, DOMAIN lines) \in Nat
  BY <1>2, <1>3, SumNat
<1>6. SumFunctionOnSet(f, DOMAIN lines) =
        SumFunctionOnSet(now, DOMAIN lines) - SumFunctionOnSet(was, DOMAIN lines)
  BY <1>2, <1>3, SumMinus
<1> QED
  BY <1>4, <1>5, <1>6 DEF now, was

\* What the applications give is what the lines are cut by.
LEMMA GivesAddUp ==
  ASSUME NEW lines \in Seq(Line), NEW selected, Lists(selected, lines)
  PROVE  SumFunctionOnSet([k \in DOMAIN selected |-> Gives(selected, lines, k)], DOMAIN selected) =
           SumFunctionOnSet([l \in DOMAIN lines |-> Cut(selected, lines, l, Len(selected))], DOMAIN lines)
<1> DEFINE f == [k \in DOMAIN selected |-> Gives(selected, lines, k)]
           cut(n) == SumFunctionOnSet([l \in DOMAIN lines |-> Cut(selected, lines, l, n)], DOMAIN lines)
           N == {n \in Nat : n <= Len(selected) => SumFunctionOnSet(f, 1 .. n) = cut(n)}
<1>0. Len(selected) \in Nat /\ DOMAIN selected = 1 .. Len(selected)
  BY DEF Lists
<1>1. 0 \in N
  <2>1. 1 .. 0 = {}
    OBVIOUS
  <2>2. SumFunctionOnSet(f, 1 .. 0) = 0
    BY <2>1, SumOfNothing
  <2>3. cut(0) = 0
    <3> DEFINE g == [l \in DOMAIN lines |-> Cut(selected, lines, l, 0)]
    <3>1. \A l \in DOMAIN lines : g[l] = 0
      BY <1>0, CutType
    <3>2. IsFiniteSet(DOMAIN lines)
      BY LineTypes
    <3> HIDE DEF g
    <3>3. SumFunctionOnSet(g, DOMAIN lines) = 0
      BY <3>1, <3>2, SumZero
    <3> QED
      BY <3>3 DEF g
  <2> HIDE DEF f, cut
  <2> QED
    BY <2>2, <2>3
<1>2. ASSUME NEW n \in Nat, n \in N PROVE n + 1 \in N
  <2> SUFFICES ASSUME n + 1 <= Len(selected)
               PROVE  SumFunctionOnSet(f, 1 .. n + 1) = cut(n + 1)
    OBVIOUS
  <2>1. n + 1 \in DOMAIN selected /\ n <= Len(selected) /\ (n + 1) - 1 = n
    BY <1>0
  <2>2. SumFunctionOnSet(f, 1 .. n) = cut(n)
    BY <1>2, <2>1
  <2>3. f[n + 1] = cut(n + 1) - cut(n)
    BY <2>1, GivesType
  <2>4. 1 .. n + 1 = (1 .. n) \cup {n + 1} /\ n + 1 \notin 1 .. n
    OBVIOUS
  <2>5. \A k \in (1 .. n) \cup {n + 1} : f[k] \in Int
    <3>1. \A k \in DOMAIN selected : f[k] \in Nat
      BY GivesType
    <3> QED
      BY <1>0, <2>1, <3>1
  <2>6. \A m \in 0 .. Len(selected) : cut(m) \in Int
    <3> SUFFICES ASSUME NEW m \in 0 .. Len(selected) PROVE cut(m) \in Int
      OBVIOUS
    <3> DEFINE g == [l \in DOMAIN lines |-> Cut(selected, lines, l, m)]
    <3>1. \A l \in DOMAIN lines : g[l] \in Int
      BY CutType
    <3>2. IsFiniteSet(DOMAIN lines)
      BY LineTypes
    <3> HIDE DEF g
    <3>3. SumFunctionOnSet(g, DOMAIN lines) \in Int
      BY <3>1, <3>2, SumInt
    <3> QED
      BY <3>3 DEF g
  <2> HIDE DEF f, cut
  <2>7. IsFiniteSet(1 .. n)
    BY FS_Interval
  <2>8. SumFunctionOnSet(f, (1 .. n) \cup {n + 1}) = f[n + 1] + SumFunctionOnSet(f, 1 .. n)
    BY <2>4, <2>5, <2>7, SumAdd
  <2>9. n \in 0 .. Len(selected) /\ n + 1 \in 0 .. Len(selected)
    BY <1>0, <2>1
  <2>10. cut(n) \in Int /\ cut(n + 1) \in Int
    BY <2>6, <2>9
  <2>11. SumFunctionOnSet(f, 1 .. n + 1) = f[n + 1] + SumFunctionOnSet(f, 1 .. n)
    BY <2>4, <2>8, Zenon
  <2> QED
    BY <2>2, <2>3, <2>10, <2>11
<1>3. Nat \subseteq N
  <2> HIDE DEF N
  <2> QED
    BY <1>1, <1>2, NatInSet
<1>4. SumFunctionOnSet(f, 1 .. Len(selected)) = cut(Len(selected))
  <2> HIDE DEF f, cut
  <2> QED
    BY <1>0, <1>3
<1> QED
  BY <1>0, <1>4

LEMMA SelectedLists ==
  ASSUME NEW redeemedThen, NEW liveThen, NEW u, NEW lines \in Seq(Line), NEW codes \in SUBSET Vouchers
  PROVE  Lists(Selected(Applications(redeemedThen, liveThen, u, lines, codes)), lines)
<1> DEFINE apps == Applications(redeemedThen, liveThen, u, lines, codes)
<1>1. /\ apps \in SUBSET Application /\ IsFiniteSet(apps)
      /\ \A app \in apps : app.discount = Discount(app.campaign, lines)
  BY ApplicationsType
<1> HIDE DEF apps
<1>2. Selected(apps) \in Seq(apps)
  BY <1>1, SelectedType
<1>3. Lists(Selected(apps), lines)
  BY <1>1, <1>2 DEF Lists
<1> QED
  BY <1>3 DEF apps

\* What Evaluate says of an application that gives something.
Given == {app \in [campaign : Campaigns, voucher : Vouchers \cup {0}, gives : Nat \ {0}] :
            app.voucher # 0 => app.campaign = VoucherRows[app.voucher].campaign}

LEMMA EvaluateType ==
  ASSUME NEW redeemedThen, NEW liveThen, NEW u, NEW lines \in Seq(Line), NEW codes \in SUBSET Vouchers
  PROVE  LET new == Evaluate(redeemedThen, liveThen, u, lines, codes)
         IN /\ new.apps \in Seq(Given)
            /\ DOMAIN new.cuts = DOMAIN lines
            /\ \A l \in DOMAIN lines : new.cuts[l] \in Int /\ new.cuts[l] <= LinePrice(lines[l])
            /\ new.total = SumFunction([l \in DOMAIN lines |-> LinePrice(lines[l]) - new.cuts[l]])
            /\ new.total \in Nat
<1> DEFINE selected == Selected(Applications(redeemedThen, liveThen, u, lines, codes))
           some == {k \in DOMAIN selected : Gives(selected, lines, k) > 0}
           giving == InOrder(some, <)
           new == Evaluate(redeemedThen, liveThen, u, lines, codes)
<1>1. Lists(selected, lines)
  BY SelectedLists
<1>2. new.cuts = [l \in DOMAIN lines |-> Cut(selected, lines, l, Len(selected))]
  BY DEF Evaluate
<1>3. new.total = SumFunction([l \in DOMAIN lines |-> LinePrice(lines[l]) - new.cuts[l]])
  BY DEF Evaluate
<1>4. new.apps = [i \in DOMAIN giving |->
                    [campaign |-> selected[giving[i]].campaign,
                     voucher |-> selected[giving[i]].voucher,
                     gives |-> Gives(selected, lines, giving[i])]]
  BY DEF Evaluate
<1> HIDE DEF selected, new
<1>5. ASSUME NEW l \in DOMAIN lines
      PROVE  new.cuts[l] \in Int /\ new.cuts[l] <= LinePrice(lines[l]) /\ LinePrice(lines[l]) \in Nat
  <2>1. Len(selected) \in 0 .. Len(selected)
    BY <1>1 DEF Lists
  <2> QED
    BY <1>1, <1>2, <2>1, CutType, LineTypes
<1>6. new.total \in Nat
  <2> DEFINE f == [l \in DOMAIN lines |-> LinePrice(lines[l]) - new.cuts[l]]
  <2>1. \A l \in DOMAIN lines : f[l] \in Nat
    <3> SUFFICES ASSUME NEW l \in DOMAIN lines PROVE LinePrice(lines[l]) - new.cuts[l] \in Nat
      OBVIOUS
    <3> QED
      BY <1>5
  <2>2. SumFunctionOnSet(f, DOMAIN lines) \in Nat
    BY <2>1, LineTypes, SumNat
  <2> QED
    BY <1>3, <2>2 DEF SumFunction
<1>7. new.apps \in Seq(Given)
  <2>1. Numbers(some)
    <3>1. DOMAIN selected = 1 .. Len(selected) /\ Len(selected) \in Nat
      BY <1>1 DEF Lists
    <3>2. IsFiniteSet(DOMAIN selected)
      BY <3>1, FS_Interval
    <3>3. IsFiniteSet(some)
      BY <3>2, FS_Subset
    <3> QED
      BY <3>1, <3>3 DEF Numbers
  <2>2. giving \in [1 .. Cardinality(some) -> some] /\ Cardinality(some) \in Nat
    BY <2>1, InOrderLess, FS_CardinalityType DEF Numbers, OneToOne
  <2>3. ASSUME NEW k \in some
        PROVE  [campaign |-> selected[k].campaign, voucher |-> selected[k].voucher,
                gives |-> Gives(selected, lines, k)] \in Given
    <3>1. selected[k] \in Application
      BY <1>1 DEF Lists
    <3>2. Gives(selected, lines, k) \in Nat
      BY <1>1, GivesType
    <3>3. Gives(selected, lines, k) > 0
      OBVIOUS
    <3>4. Gives(selected, lines, k) \in Nat \ {0}
      BY <3>2, <3>3
    <3> QED
      BY <3>1, <3>4 DEF Application, Given
  <2> HIDE DEF some, giving
  <2>4. DOMAIN new.apps = 1 .. Cardinality(some) /\ \A i \in 1 .. Cardinality(some) : new.apps[i] \in Given
    BY <1>4, <2>2, <2>3
  <2>5. new.apps = [i \in 1 .. Cardinality(some) |-> new.apps[i]]
    BY <1>4, <2>2
  <2> QED
    BY <2>2, <2>4, <2>5
<1>8. DOMAIN new.cuts = DOMAIN lines
  BY <1>2
<1> QED
  BY <1>3, <1>5, <1>6, <1>7, <1>8 DEF new

LEMMA EvaluateAddsUp ==
  ASSUME NEW redeemedThen, NEW liveThen, NEW u, NEW lines \in Seq(Line), NEW codes \in SUBSET Vouchers
  PROVE  LET new == Evaluate(redeemedThen, liveThen, u, lines, codes)
         IN SumFunctionOnSet([i \in DOMAIN new.apps |-> new.apps[i].gives], DOMAIN new.apps) =
              SumFunctionOnSet(new.cuts, DOMAIN lines)
<1> DEFINE selected == Selected(Applications(redeemedThen, liveThen, u, lines, codes))
           some == {k \in DOMAIN selected : Gives(selected, lines, k) > 0}
           giving == InOrder(some, <)
           new == Evaluate(redeemedThen, liveThen, u, lines, codes)
           given == [i \in DOMAIN new.apps |-> new.apps[i].gives]
           f == [k \in DOMAIN selected |-> Gives(selected, lines, k)]
           part == [k \in some |-> f[k]]
<1>1. Lists(selected, lines)
  BY SelectedLists
<1>2. new.cuts = [l \in DOMAIN lines |-> Cut(selected, lines, l, Len(selected))]
  BY DEF Evaluate
<1>3. new.apps = [i \in DOMAIN giving |->
                    [campaign |-> selected[giving[i]].campaign,
                     voucher |-> selected[giving[i]].voucher,
                     gives |-> Gives(selected, lines, giving[i])]]
  BY DEF Evaluate
<1> HIDE DEF selected, new
<1>4. DOMAIN selected = 1 .. Len(selected) /\ Len(selected) \in Nat /\ IsFiniteSet(DOMAIN selected)
  <2>1. DOMAIN selected = 1 .. Len(selected) /\ Len(selected) \in Nat
    BY <1>1 DEF Lists
  <2> QED
    BY <2>1, FS_Interval
<1>5. Numbers(some) /\ some \in SUBSET DOMAIN selected
  <2>1. IsFiniteSet(some)
    BY <1>4, FS_Subset
  <2> QED
    BY <1>4, <2>1 DEF Numbers
<1>6. \A k \in DOMAIN selected : f[k] \in Nat /\ f[k] = Gives(selected, lines, k)
  BY <1>1, GivesType
<1>7. /\ \A k \in some : f[k] = part[k] /\ f[k] \in Int
      /\ \A k \in DOMAIN selected \ some : f[k] = 0
  BY <1>6
<1> HIDE DEF f, some, part
<1>8. SumFunctionOnSet(f, DOMAIN selected) = SumFunctionOnSet(part, some)
  <2> DEFINE all == DOMAIN selected
  <2>1. IsFiniteSet(all) /\ some \in SUBSET all
    BY <1>4, <1>5
  <2>2. /\ \A k \in some : f[k] = part[k] /\ f[k] \in Int
        /\ \A k \in all \ some : f[k] = 0
    BY <1>7
  <2> HIDE DEF all
  <2>3. SumFunctionOnSet(f, all) = SumFunctionOnSet(part, some)
    BY <2>1, <2>2, SumPart
  <2> QED
    BY <2>3 DEF all
<1> DEFINE n == Cardinality(some)
<1>9. OneToOne(giving, 1 .. n, some) /\ giving \in [1 .. n -> some]
  <2>1. OneToOne(giving, 1 .. n, some)
    BY <1>5, InOrderLess
  <2> HIDE DEF giving, n
  <2> QED
    BY <2>1 DEF OneToOne
<1>10. n \in Nat /\ IsFiniteSet(1 .. n)
  <2>1. n \in Nat
    BY <1>5, FS_CardinalityType DEF Numbers
  <2> HIDE DEF n
  <2> QED
    BY <2>1, FS_Interval
<1> HIDE DEF giving, n
<1>11. DOMAIN new.apps = 1 .. n
  BY <1>3, <1>9
<1>12. \A i \in 1 .. n : given[i] = part[giving[i]] /\ given[i] \in Int
  <2> SUFFICES ASSUME NEW i \in 1 .. n PROVE given[i] = part[giving[i]] /\ given[i] \in Int
    OBVIOUS
  <2>1. giving[i] \in DOMAIN selected
    BY <1>5, <1>9
  <2>2. given[i] = new.apps[i].gives
    BY <1>11
  <2>3. new.apps[i].gives = Gives(selected, lines, giving[i])
    BY <1>3, <1>9
  <2>4. part[giving[i]] = f[giving[i]]
    BY <1>7, <1>9
  <2> HIDE DEF given
  <2> QED
    BY <1>6, <2>1, <2>2, <2>3, <2>4
<1> HIDE DEF given
<1>13. SumFunctionOnSet(part, some) = SumFunctionOnSet(given, 1 .. n)
  BY <1>9, <1>10, <1>12, SumImage
<1>14. SumFunctionOnSet(f, DOMAIN selected) = SumFunctionOnSet(new.cuts, DOMAIN lines)
  BY <1>1, <1>2, GivesAddUp DEF f
<1>15. SumFunctionOnSet(given, DOMAIN new.apps) = SumFunctionOnSet(new.cuts, DOMAIN lines)
  BY <1>8, <1>11, <1>13, <1>14
<1> QED
  BY <1>15 DEF given, new

-----------------------------------------------------------------------------
(* Types, and an offer and its orders. *)

Offer == [status : Statuses, user : Users, lines : Seq(Line), codes : SUBSET Vouchers, total : Nat]
Order == [status : OrderStatuses, total : Int]
Redemption == {r \in [campaign : Campaigns, voucher : Vouchers \cup {0}, user : Users,
                      of : Sessions, gives : Nat \ {0}] :
                 r.voucher # 0 => r.campaign = VoucherRows[r.voucher].campaign}

ShopTypes ==
  /\ cart \in [Users -> [Places -> Nat]]
  /\ price \in [Products -> Prices]
  /\ onSale \subseteq Products /\ state \in [Servers -> ServerStates]
  /\ live \subseteq Campaigns \cup Vouchers
  /\ changes \in 0 .. MaxChanges

DraftTypes ==
  \A d \in drafts : d.key \in Sessions /\ d.lines \in Seq(Line) /\ d.codes \subseteq Vouchers

SaleTypes ==
  /\ stock \in [Counted -> Int] /\ supply \in [Counted -> Int]
  /\ offer \in [Offers -> Offer]
  /\ orders \in [Offers -> Seq(Order)]
  /\ balance \in [Users -> Nat]
  /\ taken \in [Offers -> Nat]

RedemptionTypes == redeemed \subseteq Redemption /\ IsFiniteSet(redeemed)

\* A purchase makes one order of each line; a quote has one line.
OrdersAreLines ==
  \A x \in Offers :
    /\ offer[x].status # "completed" => orders[x] = <<>>
    /\ offer[x].status = "completed" => Len(orders[x]) = Len(offer[x].lines)
    /\ x \in Quotes /\ offer[x].status \in {"pending", "completed"} => Len(offer[x].lines) = 1

Types == ShopTypes /\ DraftTypes /\ SaleTypes /\ RedemptionTypes /\ OrdersAreLines

LEMMA TypesGiveTypeOK == Types => TypeOK
<1> SUFFICES ASSUME Types PROVE TypeOK
  OBVIOUS
<1>1. \A x \in Offers :
       /\ offer[x].status \in Statuses /\ offer[x].user \in Users
       /\ offer[x].lines \in Seq(Line) /\ offer[x].codes \subseteq Vouchers
       /\ offer[x].total \in Nat
  BY DEF Types, SaleTypes, Offer
<1>2. \A x \in Offers : orders[x] \in Seq([status : OrderStatuses, total : Int])
  BY DEF Types, SaleTypes, Order
<1>3. \A r \in redeemed : r.of \in Sessions /\ r.campaign \in Campaigns /\ r.gives \in Nat
  BY DEF Types, RedemptionTypes, Redemption
<1> QED
  BY <1>1, <1>2, <1>3 DEF Types, ShopTypes, DraftTypes, SaleTypes, TypeOK

LEMMA NoOfferType == NoOffer \in Offer /\ [NoOffer EXCEPT !.status = "expired"] \in Offer
<1>1. (CHOOSE u \in Users : TRUE) \in Users
  BY CheckoutAssumption
<1>2. <<>> \in Seq(Line) /\ {} \in SUBSET Vouchers
  OBVIOUS
<1> QED
  BY <1>1, <1>2 DEF NoOffer, Offer, Statuses

LEMMA CartLinesType ==
  ASSUME ShopTypes, NEW u \in Users
  PROVE  CartLines(u) \in Seq(Line)
<1> DEFINE S == {w \in Places : cart[u][w] > 0}
           held == SetToSeq(S)
<1>1. IsFiniteSet(S)
  BY CheckoutAssumption, FS_Subset
<1>2. Cardinality(S) \in Nat /\ ExistsBijection(1 .. Cardinality(S), S)
  <2> HIDE DEF S
  <2> QED
    BY <1>1, FS_CardinalityType
<1>3. \E f \in [1 .. Cardinality(S) -> S] : IsInjective(f)
  BY <1>2 DEF ExistsBijection, Bijection, Injection
<1>4. held \in [1 .. Cardinality(S) -> S]
  BY <1>3 DEF SetToSeq
<1>5. CartLines(u) = [l \in DOMAIN held |->
         [product |-> held[l][1], server |-> held[l][2],
          quantity |-> cart[u][held[l]], price |-> price[held[l][1]]]]
  BY DEF CartLines
<1>6. ASSUME NEW w \in S
      PROVE  [product |-> w[1], server |-> w[2],
              quantity |-> cart[u][w], price |-> price[w[1]]] \in Line
  <2>1. w \in Products \X Servers /\ w \in Places
    BY CheckoutAssumption
  <2>2. cart[u][w] \in Nat \ {0} /\ price[w[1]] \in Prices
    BY <2>1 DEF ShopTypes
  <2> QED
    BY <2>1, <2>2 DEF Line
<1> HIDE DEF S
<1> HIDE DEF held
<1>7. ASSUME NEW l \in 1 .. Cardinality(S) PROVE CartLines(u)[l] \in Line
  BY <1>4, <1>5, <1>6
<1>8. CartLines(u) = [l \in 1 .. Cardinality(S) |-> CartLines(u)[l]]
  BY <1>4, <1>5
<1> QED
  BY <1>2, <1>7, <1>8

-----------------------------------------------------------------------------
(* What is sold, as a sum over the offers. *)

LinesWith(x, p) == {l \in DOMAIN orders[x] : offer[x].lines[l].product = p}
SoldIn(x, p) == SumFunctionOnSet(Quantities(offer[x].lines), LinesWith(x, p))

KeptLines(u, x, p) ==
  {l \in DOMAIN orders[x] : offer[x].lines[l].product = p
                            /\ (offer[x].user = u /\ orders[x][l].status # "refunded")}
BoughtIn(u, x, p) == SumFunctionOnSet(Quantities(offer[x].lines), KeptLines(u, x, p))

LEMMA SoldSum ==
  ASSUME NEW p
  PROVE  /\ Sold(p) = SumFunctionOnSet([x \in Offers |-> SoldIn(x, p)], Offers)
         /\ Sold(p)' = SumFunctionOnSet([x \in Offers |-> SoldIn(x, p)'], Offers)
<1>1. Sold(p) = SumFunctionOnSet([x \in Offers |-> SoldIn(x, p)], Offers)
  BY DEF Sold, Units, SumFunction, SoldIn, LinesWith
<1>2. Sold(p)' = SumFunctionOnSet([x \in Offers |-> SoldIn(x, p)'], Offers)
  BY DEF Sold, Units, SumFunction, SoldIn, LinesWith
<1> QED
  BY <1>1, <1>2

LEMMA BoughtSum ==
  ASSUME NEW p, NEW u
  PROVE  /\ Bought(u, p) = SumFunctionOnSet([x \in Offers |-> BoughtIn(u, x, p)], Offers)
         /\ Bought(u, p)' = SumFunctionOnSet([x \in Offers |-> BoughtIn(u, x, p)'], Offers)
<1>1. Bought(u, p) = SumFunctionOnSet([x \in Offers |-> BoughtIn(u, x, p)], Offers)
  BY DEF Bought, Units, SumFunction, BoughtIn, KeptLines
<1>2. Bought(u, p)' = SumFunctionOnSet([x \in Offers |-> BoughtIn(u, x, p)'], Offers)
  BY DEF Bought, Units, SumFunction, BoughtIn, KeptLines
<1> QED
  BY <1>1, <1>2

LEMMA OffersFinite == IsFiniteSet(Offers)
<1>1. IsFiniteSet(Sessions) /\ IsFiniteSet(Quotes)
  BY CheckoutAssumption
<1> QED
  BY <1>1, FS_Union DEF Offers

LEMMA QuantitiesType ==
  ASSUME NEW lines \in Seq(Line), NEW S \in SUBSET DOMAIN lines
  PROVE  /\ IsFiniteSet(S)
         /\ \A l \in S : Quantities(lines)[l] = lines[l].quantity /\ Quantities(lines)[l] \in Nat
         /\ SumFunctionOnSet(Quantities(lines), S) \in Nat
<1>1. IsFiniteSet(S)
  BY LineTypes, FS_Subset
<1>2. \A l \in S : Quantities(lines)[l] = lines[l].quantity /\ Quantities(lines)[l] \in Nat
  BY LineTypes DEF Quantities
<1> QED
  BY <1>1, <1>2, SumNat

LEMMA OrderLines ==
  ASSUME SaleTypes, OrdersAreLines, NEW x \in Offers
  PROVE  /\ offer[x].lines \in Seq(Line)
         /\ orders[x] # <<>> => offer[x].status = "completed"
         /\ DOMAIN orders[x] = {} \/ DOMAIN orders[x] = DOMAIN offer[x].lines
         /\ DOMAIN orders[x] \subseteq DOMAIN offer[x].lines
         /\ \A l \in DOMAIN orders[x] : orders[x][l] \in Order
<1>1. offer[x].lines \in Seq(Line) /\ orders[x] \in Seq(Order)
  BY DEF SaleTypes, Offer
<1>2. offer[x].status # "completed" => orders[x] = <<>>
  BY DEF OrdersAreLines
<1>3. offer[x].status = "completed" => DOMAIN orders[x] = DOMAIN offer[x].lines
  BY <1>1 DEF OrdersAreLines
<1> QED
  BY <1>1, <1>2, <1>3

LEMMA SoldType ==
  ASSUME SaleTypes, OrdersAreLines, NEW p
  PROVE  /\ \A x \in Offers : SoldIn(x, p) \in Nat
         /\ \A x \in Offers, u \in Users : BoughtIn(u, x, p) \in Nat
         /\ Sold(p) \in Nat
         /\ \A u \in Users : Bought(u, p) \in Nat
<1>1. \A x \in Offers : SoldIn(x, p) \in Nat
  BY OrderLines, QuantitiesType DEF SoldIn, LinesWith
<1>2. \A x \in Offers, u \in Users : BoughtIn(u, x, p) \in Nat
  BY OrderLines, QuantitiesType DEF BoughtIn, KeptLines
<1>3. Sold(p) \in Nat
  <2> DEFINE f == [x \in Offers |-> SoldIn(x, p)]
  <2>1. \A x \in Offers : f[x] \in Nat
    BY <1>1
  <2> HIDE DEF f
  <2>2. SumFunctionOnSet(f, Offers) \in Nat
    BY <2>1, OffersFinite, SumNat
  <2> QED
    BY <2>2, SoldSum DEF f
<1>4. ASSUME NEW u \in Users PROVE Bought(u, p) \in Nat
  <2> DEFINE f == [x \in Offers |-> BoughtIn(u, x, p)]
  <2>1. \A x \in Offers : f[x] \in Nat
    BY <1>2
  <2> HIDE DEF f
  <2>2. SumFunctionOnSet(f, Offers) \in Nat
    BY <2>1, OffersFinite, SumNat
  <2> QED
    BY <2>2, BoughtSum DEF f
<1> QED
  BY <1>1, <1>2, <1>3, <1>4

-----------------------------------------------------------------------------
(* Every step keeps the types. *)

LEMMA InitTypes == Init => Types
<1> SUFFICES ASSUME Init PROVE Types
  OBVIOUS
<1> USE DEF Init
<1>1. ShopTypes
  <2>1. MaxChanges \in Nat /\ ListPrice \in [Products -> Prices]
    BY CheckoutAssumption
  <2> QED
    BY <2>1 DEF ShopTypes, ServerStates
<1>2. Supply \in Nat /\ Funds \in Nat
  BY CheckoutAssumption
<1>3. SaleTypes
  BY <1>2, NoOfferType DEF SaleTypes
<1>4. OrdersAreLines
  BY DEF OrdersAreLines, NoOffer
<1>5. DraftTypes /\ RedemptionTypes
  BY FS_EmptySet DEF DraftTypes, RedemptionTypes
<1> QED
  BY <1>1, <1>3, <1>4, <1>5 DEF Types

LEMMA SetCartTypes ==
  ASSUME Types, NEW u \in Users, NEW lines, SetCart(u, lines)
  PROVE  Types'
<1> USE DEF SetCart, shopVars, salesVars
<1>1. lines \in [Places -> Nat]
  <2>1. lines \in [Places -> 0 .. MaxUnits[u]] /\ MaxUnits[u] \in Nat
    BY CheckoutAssumption DEF Carts
  <2> QED
    BY <2>1
<1>2. ShopTypes'
  BY <1>1 DEF Types, ShopTypes
<1> QED
  BY <1>2 DEF Types, DraftTypes, SaleTypes, RedemptionTypes, OrdersAreLines

LEMMA DraftStepTypes ==
  ASSUME Types, NEW s \in Sessions, NEW codes \in SUBSET Vouchers, Draft(s, codes)
  PROVE  Types'
<1> USE DEF shopVars, salesVars
<1>1. OwnerOf[s] \in Users
  BY CheckoutAssumption
<1>2. CartLines(OwnerOf[s]) \in Seq(Line)
  BY <1>1, CartLinesType DEF Types
<1>3. DraftTypes'
  BY <1>2 DEF Types, DraftTypes, Draft
<1> QED
  BY <1>3 DEF Draft, Types, ShopTypes, SaleTypes, RedemptionTypes, OrdersAreLines

LEMMA SessionsAreNoQuotes ==
  ASSUME NEW s \in Sessions
  PROVE  s \in Offers /\ s \notin Quotes /\ OwnerOf[s] \in Users
  BY CheckoutAssumption DEF Offers

LEMMA CreateSessionTypes ==
  ASSUME Types, NEW d \in drafts, CreateSession(d)
  PROVE  Types'
<1> USE DEF shopVars, salesVars
<1> DEFINE u == OwnerOf[d.key]
           total == Evaluate(redeemed, live, u, d.lines, d.codes).total
           shown == [status |-> "pending", user |-> u, lines |-> d.lines,
                     codes |-> d.codes, total |-> total]
<1>1. d.key \in Sessions /\ d.lines \in Seq(Line) /\ d.codes \in SUBSET Vouchers
  BY DEF Types, DraftTypes
<1>2. total \in Nat
  BY <1>1, EvaluateType
<1>3. d.key \in Offers /\ d.key \notin Quotes /\ u \in Users
  BY <1>1, SessionsAreNoQuotes
<1>4. shown \in Offer
  BY <1>1, <1>2, <1>3 DEF Offer, Statuses
<1>5. \/ offer' = offer
      \/ offer' = [offer EXCEPT ![d.key] = shown] /\ offer[d.key].status = "none"
  BY DEF CreateSession
<1>6. UNCHANGED <<cart, stock, supply, shopVars, salesVars, changes>> /\ drafts' = drafts \ {d}
  BY DEF CreateSession
<1>7. shown.status = "pending"
  OBVIOUS
<1> HIDE DEF shown
<1>8. SaleTypes'
  BY <1>4, <1>5, <1>6 DEF Types, SaleTypes
<1>9. OrdersAreLines'
  <2>1. CASE offer' = offer
    BY <2>1, <1>6 DEF Types, OrdersAreLines
  <2>2. CASE offer' = [offer EXCEPT ![d.key] = shown] /\ offer[d.key].status = "none"
    <3>1. offer \in [Offers -> Offer]
      BY DEF Types, SaleTypes
    <3>2. \A x \in Offers \ {d.key} : offer'[x] = offer[x]
      BY <2>2, <3>1
    <3>3. offer'[d.key] = shown /\ orders[d.key] = <<>>
      BY <2>2, <3>1, <1>3 DEF Types, OrdersAreLines
    <3> QED
      BY <3>2, <3>3, <1>3, <1>6, <1>7 DEF Types, OrdersAreLines
  <2> QED
    BY <1>5, <2>1, <2>2
<1> QED
  BY <1>6, <1>8, <1>9 DEF Types, ShopTypes, DraftTypes, RedemptionTypes

LEMMA PurchaseEffect ==
  ASSUME Types, NEW x \in Offers, NEW total, NEW charges, offer[x].status = "pending",
         Purchase(x, total, charges)
  PROVE  /\ \A y \in Offers \ {x} : offer'[y] = offer[y] /\ orders'[y] = orders[y]
         /\ offer'[x] = [offer[x] EXCEPT !.status = "completed"]
         /\ orders[x] = <<>>
         /\ DOMAIN orders'[x] = DOMAIN offer[x].lines
         /\ \A l \in DOMAIN offer[x].lines :
              orders'[x][l] = [status |-> "placed", total |-> charges[l]]
<1>1. offer \in [Offers -> Offer] /\ orders \in [Offers -> Seq(Order)]
  BY DEF Types, SaleTypes
<1>2. orders[x] = <<>>
  BY DEF Types, OrdersAreLines
<1> QED
  BY <1>1, <1>2 DEF Purchase

LEMMA PurchaseTypes ==
  ASSUME Types, NEW x \in Offers, NEW total \in Nat, NEW charges, offer[x].status = "pending",
         \A l \in DOMAIN offer[x].lines : charges[l] \in Int,
         Purchase(x, total, charges), supply' = supply
  PROVE  SaleTypes' /\ OrdersAreLines'
<1>1. /\ offer \in [Offers -> Offer] /\ offer[x] \in Offer /\ offer[x].lines \in Seq(Line)
      /\ orders \in [Offers -> Seq(Order)]
  BY DEF Types, SaleTypes, Offer
<1>2. stock' \in [Counted -> Int]
  <2>1. \A p \in Counted : Ordered(p, offer[x].lines) \in Nat
    BY <1>1, QuantitiesType DEF Ordered
  <2>2. \A p \in Counted : stock[p] \in Int
    BY DEF Types, SaleTypes
  <2> QED
    BY <2>1, <2>2 DEF Purchase
<1>3. balance' \in [Users -> Nat]
  <2>1. offer[x].user \in Users /\ balance \in [Users -> Nat]
    BY <1>1 DEF Offer, Types, SaleTypes
  <2>2. balance[offer[x].user] - total \in Nat
    BY <2>1 DEF Purchase
  <2> QED
    BY <2>1, <2>2 DEF Purchase
<1>4. taken' \in [Offers -> Nat]
  BY DEF Purchase, Types, SaleTypes
<1>5. [offer[x] EXCEPT !.status = "completed"] \in Offer
  BY <1>1 DEF Offer, Statuses
<1>6. offer' \in [Offers -> Offer]
  BY <1>1, <1>5 DEF Purchase
<1> DEFINE placed == [l \in DOMAIN offer[x].lines |-> [status |-> "placed", total |-> charges[l]]]
<1>7. placed \in Seq(Order) /\ Len(placed) = Len(offer[x].lines)
  <2>1. \A l \in DOMAIN offer[x].lines : placed[l] \in Order
    BY DEF Order, OrderStatuses
  <2>2. DOMAIN offer[x].lines = 1 .. Len(offer[x].lines) /\ Len(offer[x].lines) \in Nat
    BY <1>1
  <2>3. placed = [l \in 1 .. Len(offer[x].lines) |-> placed[l]]
    BY <2>2
  <2> HIDE DEF placed
  <2> QED
    BY <2>1, <2>2, <2>3
<1>8. orders' \in [Offers -> Seq(Order)] /\ orders'[x] = placed
  BY <1>1, <1>7 DEF Purchase
<1>9. SaleTypes'
  BY <1>2, <1>3, <1>4, <1>6, <1>8 DEF Types, SaleTypes
<1>10. OrdersAreLines'
  <2>1. /\ \A y \in Offers \ {x} : offer'[y] = offer[y] /\ orders'[y] = orders[y]
        /\ offer'[x] = [offer[x] EXCEPT !.status = "completed"]
    BY PurchaseEffect
  <2>2. offer'[x].status = "completed" /\ offer'[x].lines = offer[x].lines
    BY <1>1, <2>1 DEF Offer
  <2>3. Len(orders'[x]) = Len(offer'[x].lines)
    BY <1>7, <1>8, <2>2
  <2> HIDE DEF placed
  <2> QED
    BY <2>1, <2>2, <2>3 DEF Types, OrdersAreLines
<1> QED
  BY <1>9, <1>10

LEMMA RedemptionsType ==
  ASSUME NEW s \in Sessions, NEW apps \in Seq(Given)
  PROVE  Redemptions(s, apps) \subseteq Redemption /\ IsFiniteSet(Redemptions(s, apps))
<1> DEFINE row(k) == [campaign |-> apps[k].campaign, voucher |-> apps[k].voucher,
                      user |-> OwnerOf[s], of |-> s, gives |-> apps[k].gives]
           rows == [k \in DOMAIN apps |-> row(k)]
<1>1. \A k \in DOMAIN apps : rows[k] \in Redemption
  <2> SUFFICES ASSUME NEW k \in DOMAIN apps PROVE row(k) \in Redemption
    OBVIOUS
  <2>1. apps[k] \in Given
    OBVIOUS
  <2> QED
    BY <2>1, SessionsAreNoQuotes DEF Given, Redemption
<1>2. Redemptions(s, apps) = {rows[k] : k \in DOMAIN apps}
  BY DEF Redemptions
<1>3. IsFiniteSet(DOMAIN apps)
  BY FS_Interval
<1>4. rows \in Surjection(DOMAIN apps, Redemptions(s, apps))
  BY <1>2 DEF Surjection
<1> HIDE DEF rows
<1> QED
  BY <1>1, <1>2, <1>3, <1>4, FS_Surjection

LEMMA CommitSessionTypes ==
  ASSUME Types, NEW s \in Sessions, CommitSession(s)
  PROVE  Types'
<1> DEFINE o == offer[s]
           new == Evaluate(redeemed, live, o.user, o.lines, o.codes)
           charges == [l \in DOMAIN o.lines |-> LinePrice(o.lines[l]) - new.cuts[l]]
<1>1. s \in Offers /\ o \in Offer
  BY SessionsAreNoQuotes DEF Types, SaleTypes
<1>2. o.lines \in Seq(Line) /\ o.codes \in SUBSET Vouchers /\ o.total \in Nat /\ o.user \in Users
  BY <1>1 DEF Offer
<1>3. /\ o.status = "pending" /\ Purchase(s, o.total, charges)
      /\ redeemed' = redeemed \cup Redemptions(s, new.apps)
      /\ cart' = [cart EXCEPT ![o.user] =
                   [w \in Places |->
                      IF \E l \in DOMAIN o.lines : w = <<o.lines[l].product, o.lines[l].server>>
                      THEN 0 ELSE @[w]]]
      /\ UNCHANGED <<supply, shopVars, drafts, changes>>
  BY DEF CommitSession
<1>4. /\ new.apps \in Seq(Given)
      /\ \A l \in DOMAIN o.lines : new.cuts[l] \in Int
  BY <1>2, EvaluateType
<1>5. \A l \in DOMAIN o.lines : charges[l] \in Int
  BY <1>2, <1>4, LineTypes
<1> HIDE DEF new, charges
<1>6. SaleTypes' /\ OrdersAreLines'
  BY <1>1, <1>2, <1>3, <1>5, PurchaseTypes
<1>7. RedemptionTypes'
  <2>1. Redemptions(s, new.apps) \subseteq Redemption /\ IsFiniteSet(Redemptions(s, new.apps))
    BY <1>4, RedemptionsType
  <2>2. IsFiniteSet(redeemed \cup Redemptions(s, new.apps))
    BY <2>1, FS_Union DEF Types, RedemptionTypes
  <2> QED
    BY <1>3, <2>1, <2>2 DEF Types, RedemptionTypes
<1>8. cart' \in [Users -> [Places -> Nat]]
  BY <1>2, <1>3 DEF Types, ShopTypes
<1>9. ShopTypes' /\ DraftTypes'
  BY <1>3, <1>8 DEF shopVars, Types, ShopTypes, DraftTypes
<1> QED
  BY <1>6, <1>7, <1>9 DEF Types

\* An offer that is not a purchase changes.
LEMMA OfferTypes ==
  ASSUME Types, NEW x \in Offers, NEW to \in Offer, offer[x].status # "completed",
         offer' = [offer EXCEPT ![x] = to], to.status # "completed",
         x \in Quotes /\ to.status = "pending" => Len(to.lines) = 1,
         UNCHANGED <<cart, stock, supply, shopVars, drafts, salesVars, changes>>
  PROVE  Types'
<1> USE DEF shopVars, salesVars
<1>1. offer \in [Offers -> Offer]
  BY DEF Types, SaleTypes
<1>2. offer' \in [Offers -> Offer] /\ offer'[x] = to /\ \A y \in Offers \ {x} : offer'[y] = offer[y]
  BY <1>1
<1>3. orders[x] = <<>> /\ orders' = orders
  BY DEF Types, OrdersAreLines
<1>4. OrdersAreLines'
  BY <1>2, <1>3 DEF Types, OrdersAreLines
<1>5. SaleTypes'
  BY <1>2 DEF Types, SaleTypes
<1> QED
  BY <1>4, <1>5 DEF Types, ShopTypes, DraftTypes, RedemptionTypes

LEMMA QuotesAreOffers ==
  ASSUME NEW q \in Quotes
  PROVE  q \in Offers /\ q \notin Sessions
  BY CheckoutAssumption DEF Offers

LEMMA CreateQuoteTypes ==
  ASSUME Types, NEW q \in Quotes, NEW u \in Players, NEW p \in Products,
         NEW n \in 1 .. MaxQuoted, CreateQuote(q, u, p, n)
  PROVE  Types'
<1> DEFINE line == [product |-> p, server |-> QuoteServer, quantity |-> n, price |-> price[p]]
           shown == [status |-> "pending", user |-> u, lines |-> <<line>>,
                     codes |-> {}, total |-> LinePrice(line)]
<1>1. line \in Line
  <2>1. QuoteServer \in Servers /\ n \in Nat \ {0} /\ price[p] \in Prices
    BY CheckoutAssumption DEF Types, ShopTypes
  <2> QED
    BY <2>1 DEF Line
<1>2. <<line>> \in Seq(Line) /\ Len(<<line>>) = 1 /\ <<line>>[1] = line /\ DOMAIN <<line>> = 1 .. 1
  BY <1>1
<1>3. LinePrice(line) \in Nat
  <2>1. Prices \subseteq Nat
    BY CheckoutAssumption
  <2>2. line.price \in Nat /\ line.quantity \in Nat
    BY <1>1, <2>1 DEF Line
  <2> HIDE DEF line
  <2> QED
    BY <2>2 DEF LinePrice
<1>4. u \in Users /\ {} \in SUBSET Vouchers
  BY CheckoutAssumption
<1>5. shown \in Offer /\ shown.status = "pending" /\ Len(shown.lines) = 1
  BY <1>2, <1>3, <1>4 DEF Offer, Statuses
<1>6. /\ offer[q].status = "none" /\ offer' = [offer EXCEPT ![q] = shown]
      /\ UNCHANGED <<cart, stock, supply, shopVars, drafts, salesVars, changes>>
  BY DEF CreateQuote
<1> HIDE DEF shown
<1> QED
  BY <1>5, <1>6, OfferTypes, QuotesAreOffers

LEMMA ExpireTypes ==
  ASSUME Types, NEW x \in Offers, Expire(x)
  PROVE  Types'
<1> DEFINE shown == [NoOffer EXCEPT !.status = "expired"]
<1>1. shown \in Offer
  BY NoOfferType
<1>2. shown.status = "expired"
  BY DEF NoOffer
<1>3. /\ offer[x].status = "pending" /\ offer' = [offer EXCEPT ![x] = shown]
      /\ UNCHANGED <<cart, stock, supply, shopVars, drafts, salesVars, changes>>
  BY DEF Expire
<1> HIDE DEF shown
<1> QED
  BY <1>1, <1>2, <1>3, OfferTypes

LEMMA QuoteLine ==
  ASSUME Types, NEW q \in Quotes, offer[q].status = "pending"
  PROVE  /\ q \in Offers /\ offer[q] \in Offer /\ offer[q].lines \in Seq(Line)
         /\ DOMAIN offer[q].lines = {1} /\ offer[q].total \in Nat /\ offer[q].user \in Users
<1>1. q \in Offers
  BY QuotesAreOffers
<1>2. offer[q] \in Offer /\ offer[q].lines \in Seq(Line) /\ offer[q].total \in Nat /\ offer[q].user \in Users
  BY <1>1 DEF Types, SaleTypes, Offer
<1>3. Len(offer[q].lines) = 1
  BY <1>1 DEF Types, OrdersAreLines
<1>4. DOMAIN offer[q].lines = {1}
  BY <1>2, <1>3
<1> QED
  BY <1>1, <1>2, <1>4

LEMMA ConfirmQuoteTypes ==
  ASSUME Types, NEW q \in Quotes, ConfirmQuote(q)
  PROVE  Types'
<1> DEFINE o == offer[q]
<1>1. /\ o.status = "pending" /\ Purchase(q, o.total, <<o.total>>)
      /\ UNCHANGED <<cart, supply, shopVars, drafts, redeemed, changes>>
  BY DEF ConfirmQuote
<1>2. q \in Offers /\ DOMAIN o.lines = {1} /\ o.total \in Nat
  BY <1>1, QuoteLine
<1>3. \A l \in DOMAIN o.lines : <<o.total>>[l] \in Int
  BY <1>2
<1>4. SaleTypes' /\ OrdersAreLines'
  BY <1>1, <1>2, <1>3, PurchaseTypes
<1> QED
  BY <1>1, <1>4 DEF shopVars, Types, ShopTypes, DraftTypes, RedemptionTypes

LEMMA RefundEffect ==
  ASSUME Types, NEW x \in Offers, NEW l \in DOMAIN orders[x], Refund(x, l)
  PROVE  /\ orders[x][l] \in Order /\ orders[x][l].status = "placed"
         /\ \A y \in Offers \ {x} : orders'[y] = orders[y]
         /\ DOMAIN orders'[x] = DOMAIN orders[x] /\ Len(orders'[x]) = Len(orders[x])
         /\ \A m \in DOMAIN orders[x] \ {l} : orders'[x][m] = orders[x][m]
         /\ orders'[x][l] = [orders[x][l] EXCEPT !.status = "refunded"]
         /\ orders' \in [Offers -> Seq(Order)]
<1>1. orders \in [Offers -> Seq(Order)] /\ orders[x] \in Seq(Order) /\ orders[x][l] \in Order
  BY DEF Types, SaleTypes
<1> DEFINE refunded == [orders[x][l] EXCEPT !.status = "refunded"]
           now == [orders[x] EXCEPT ![l] = refunded]
<1>2. refunded \in Order
  BY <1>1 DEF Order, OrderStatuses
<1>3. orders' = [orders EXCEPT ![x] = now]
  BY DEF Refund
<1> HIDE DEF refunded
<1>4. now \in Seq(Order) /\ DOMAIN now = DOMAIN orders[x] /\ Len(now) = Len(orders[x])
      /\ now[l] = refunded /\ \A m \in DOMAIN orders[x] \ {l} : now[m] = orders[x][m]
  BY <1>1, <1>2
<1> HIDE DEF now
<1>5. orders[x][l].status = "placed"
  BY DEF Refund
<1> QED
  BY <1>1, <1>3, <1>4, <1>5 DEF refunded

LEMMA RefundTypes ==
  ASSUME Types, NEW x \in Offers, NEW l \in DOMAIN orders[x], Refund(x, l)
  PROVE  Types'
<1> USE DEF shopVars, salesVars
<1>1. /\ UNCHANGED <<cart, stock, supply, shopVars, drafts, offer, taken, redeemed, changes>>
      /\ orders[x][l].total > 0
      /\ balance' = [balance EXCEPT ![offer[x].user] = @ + orders[x][l].total]
  BY DEF Refund
<1>2. orders' \in [Offers -> Seq(Order)] /\ orders[x][l].total \in Nat
  <2>1. orders' \in [Offers -> Seq(Order)] /\ orders[x][l] \in Order
    BY RefundEffect
  <2>2. orders[x][l].total \in Int
    BY <2>1 DEF Order
  <2> QED
    BY <1>1, <2>1, <2>2
<1>3. balance' \in [Users -> Nat]
  <2>1. offer[x].user \in Users /\ balance \in [Users -> Nat]
    BY DEF Types, SaleTypes, Offer
  <2>2. balance[offer[x].user] + orders[x][l].total \in Nat
    BY <1>2, <2>1
  <2> QED
    BY <1>1, <2>1, <2>2
<1>4. SaleTypes'
  BY <1>1, <1>2, <1>3 DEF Types, SaleTypes
<1>5. OrdersAreLines'
  <2>1. \A y \in Offers \ {x} : orders'[y] = orders[y]
    BY RefundEffect
  <2>2. Len(orders'[x]) = Len(orders[x]) /\ offer' = offer
    BY <1>1, RefundEffect
  <2>3. offer[x].status = "completed"
    BY OrderLines DEF Types
  <2> QED
    BY <2>1, <2>2, <2>3 DEF Types, OrdersAreLines
<1> QED
  BY <1>1, <1>4, <1>5 DEF Types, ShopTypes, DraftTypes, RedemptionTypes

LEMMA EditStockTypes ==
  ASSUME Types, NEW p \in Counted, NEW n \in 0 .. Supply, EditStock(p, n)
  PROVE  Types'
<1> USE DEF shopVars, salesVars
<1>1. Supply \in Nat /\ MaxChanges \in Nat
  BY CheckoutAssumption
<1>2. n \in Int /\ n + Sold(p) \in Int
  <2>1. Sold(p) \in Nat
    BY SoldType DEF Types
  <2> QED
    BY <1>1, <2>1
<1>3. stock' \in [Counted -> Int] /\ supply' \in [Counted -> Int]
  BY <1>2 DEF EditStock, Types, SaleTypes
<1>4. UNCHANGED <<cart, drafts, offer, salesVars>> /\ UNCHANGED shopVars
  BY DEF EditStock, Change
<1>5. changes' \in 0 .. MaxChanges
  BY <1>1 DEF EditStock, Change, Types, ShopTypes
<1> QED
  BY <1>3, <1>4, <1>5 DEF Types, ShopTypes, DraftTypes, SaleTypes, RedemptionTypes,
     OrdersAreLines

\* A change of the shop that is not one of the stock.
LEMMA ChangeTypes ==
  ASSUME Types, Change, UNCHANGED <<stock, supply>>,
         price' \in [Products -> Prices], onSale' \subseteq Products,
         state' \in [Servers -> ServerStates], live' \subseteq Campaigns \cup Vouchers
  PROVE  Types'
<1> USE DEF salesVars
<1>1. changes' \in 0 .. MaxChanges
  <2>1. MaxChanges \in Nat
    BY CheckoutAssumption
  <2> QED
    BY <2>1 DEF Change, Types, ShopTypes
<1>2. UNCHANGED <<cart, drafts, offer, salesVars>>
  BY DEF Change
<1> QED
  BY <1>1, <1>2 DEF Types, ShopTypes, DraftTypes, SaleTypes, RedemptionTypes, OrdersAreLines

LEMMA ShopStepTypes ==
  ASSUME Types,
         \/ \E p \in Products : \/ \E n \in Prices \ {price[p]} : EditPrice(p, n)
                               \/ EditActive(p)
         \/ \E y \in Campaigns \cup Vouchers : Reschedule(y)
         \/ \E sv \in Servers : \E now \in ServerStates \ {state[sv]} : ServerChanges(sv, now)
  PROVE  Types' /\ UNCHANGED <<drafts, stock, supply, offer, salesVars>>
<1>1. /\ price \in [Products -> Prices] /\ onSale \subseteq Products
      /\ state \in [Servers -> ServerStates] /\ live \subseteq Campaigns \cup Vouchers
  BY DEF Types, ShopTypes
<1>2. ASSUME NEW p \in Products, NEW n \in Prices, EditPrice(p, n)
      PROVE  Types' /\ UNCHANGED <<drafts, stock, supply, offer, salesVars>>
  BY <1>1, <1>2, ChangeTypes DEF EditPrice, Change
<1>3. ASSUME NEW p \in Products, EditActive(p)
      PROVE  Types' /\ UNCHANGED <<drafts, stock, supply, offer, salesVars>>
  <2>1. onSale' \subseteq Products
    BY <1>1, <1>3 DEF EditActive, SymDiff
  <2> QED
    BY <1>1, <1>3, <2>1, ChangeTypes DEF EditActive, Change
<1>4. ASSUME NEW y \in Campaigns \cup Vouchers, Reschedule(y)
      PROVE  Types' /\ UNCHANGED <<drafts, stock, supply, offer, salesVars>>
  <2>1. live' \subseteq Campaigns \cup Vouchers
    BY <1>1, <1>4 DEF Reschedule, SymDiff
  <2> QED
    BY <1>1, <1>4, <2>1, ChangeTypes DEF Reschedule, Change
<1>5. ASSUME NEW sv \in Servers, NEW now \in ServerStates, ServerChanges(sv, now)
      PROVE  Types' /\ UNCHANGED <<drafts, stock, supply, offer, salesVars>>
  BY <1>1, <1>5, ChangeTypes DEF ServerChanges, Change
<1> QED
  BY <1>2, <1>3, <1>4, <1>5

LEMMA CartStep ==
  ASSUME Types,
         \/ \E u \in Users, w \in Places :
              \/ \E n \in 1 .. MaxUnits[u] : AddToCart(u, w, n)
              \/ \E n \in 0 .. MaxUnits[u] : UpdateCartItem(u, w, n)
         \/ \E u \in Users : HasKey(u) /\ \E lines \in Carts[u] : SyncCart(u, lines)
  PROVE  Types' /\ UNCHANGED <<drafts, stock, supply, offer, salesVars>>
<1>1. PICK u \in Users : \E lines : SetCart(u, lines)
  BY DEF AddToCart, UpdateCartItem, SyncCart
<1>2. PICK lines : SetCart(u, lines)
  BY <1>1
<1> QED
  BY <1>2, SetCartTypes DEF SetCart

LEMMA NextTypes == Types /\ [Next]_vars => Types'
<1> SUFFICES ASSUME Types, [Next]_vars PROVE Types'
  OBVIOUS
<1>1. CASE UNCHANGED vars
  BY <1>1 DEF vars, shopVars, salesVars, Types, ShopTypes, DraftTypes, SaleTypes,
     RedemptionTypes, OrdersAreLines
<1>2. CASE Next
  BY <1>2, CartStep, DraftStepTypes, CreateSessionTypes, CommitSessionTypes, CreateQuoteTypes,
     ConfirmQuoteTypes, ExpireTypes, RefundTypes, EditStockTypes, ShopStepTypes DEF Next
<1> QED
  BY <1>1, <1>2

\* The variables always have their types, and a purchase and its orders agree.
THEOREM CheckoutTypes == Spec => []TypeOK
<1>1. Spec => []Types
  BY InitTypes, NextTypes, PTL DEF Spec
<1> QED
  BY <1>1, TypesGiveTypeOK, PTL

-----------------------------------------------------------------------------
(* What a step does to the sales. *)

\* Nothing is bought or refunded.
NoSale ==
  /\ orders' = orders
  /\ \A x \in Offers : offer[x].status = "completed" \/ offer'[x].status = "completed"
                        => offer'[x] = offer[x]

\* Offer x, whose lines fit, becomes a purchase.
Sale(x) ==
  /\ offer[x].status = "pending"
  /\ \A l \in DOMAIN offer[x].lines : ThereIsRoom(offer[x].user, offer[x].lines[l])
  /\ \E total, charges : Purchase(x, total, charges)
  /\ supply' = supply

LEMMA OfferStep ==
  ASSUME Types, NEW x \in Offers, NEW to, offer[x].status # "completed", to.status # "completed",
         offer' = [offer EXCEPT ![x] = to],
         UNCHANGED <<stock, supply, salesVars>>
  PROVE  NoSale /\ UNCHANGED <<stock, supply, salesVars>>
<1>1. offer \in [Offers -> Offer] /\ orders' = orders
  BY DEF Types, SaleTypes, salesVars
<1> QED
  BY <1>1 DEF NoSale

LEMMA StepKinds ==
  ASSUME Types, Next
  PROVE  \/ NoSale /\ UNCHANGED <<stock, supply, salesVars>>
         \/ \E p \in Counted : \E n \in 0 .. Supply : EditStock(p, n)
         \/ \E s \in Sessions : CommitSession(s)
         \/ \E q \in Quotes : ConfirmQuote(q)
         \/ \E x \in Offers : \E l \in DOMAIN orders[x] : Refund(x, l)
<1>1. UNCHANGED <<stock, supply, offer, salesVars>> => NoSale /\ UNCHANGED <<stock, supply, salesVars>>
  BY DEF NoSale, salesVars
<1>2. ASSUME NEW s \in Sessions, NEW codes, Draft(s, codes)
      PROVE  NoSale /\ UNCHANGED <<stock, supply, salesVars>>
  BY <1>1, <1>2 DEF Draft
<1>3. ASSUME NEW d \in drafts, CreateSession(d)
      PROVE  NoSale /\ UNCHANGED <<stock, supply, salesVars>>
  <2>1. d.key \in Offers
    BY SessionsAreNoQuotes DEF Types, DraftTypes
  <2>2. UNCHANGED <<stock, supply, salesVars>>
    BY <1>3 DEF CreateSession
  <2> DEFINE u == OwnerOf[d.key]
             shown == [status |-> "pending", user |-> u, lines |-> d.lines, codes |-> d.codes,
                       total |-> Evaluate(redeemed, live, u, d.lines, d.codes).total]
  <2>3. \/ offer' = offer
        \/ offer' = [offer EXCEPT ![d.key] = shown] /\ offer[d.key].status = "none"
    BY <1>3 DEF CreateSession
  <2>4. shown.status = "pending"
    OBVIOUS
  <2> HIDE DEF shown
  <2> QED
    BY <1>1, <2>1, <2>2, <2>3, <2>4, OfferStep
<1>4. ASSUME NEW q \in Quotes, NEW u, NEW p, NEW n, CreateQuote(q, u, p, n)
      PROVE  NoSale /\ UNCHANGED <<stock, supply, salesVars>>
  <2> DEFINE line == [product |-> p, server |-> QuoteServer, quantity |-> n, price |-> price[p]]
             shown == [status |-> "pending", user |-> u, lines |-> <<line>>,
                       codes |-> {}, total |-> LinePrice(line)]
  <2>1. /\ offer[q].status = "none" /\ q \in Offers
        /\ UNCHANGED <<stock, supply, salesVars>>
        /\ offer' = [offer EXCEPT ![q] = shown]
    BY <1>4, QuotesAreOffers DEF CreateQuote
  <2>2. shown.status = "pending"
    OBVIOUS
  <2> HIDE DEF shown
  <2> QED
    BY <2>1, <2>2, OfferStep
<1>5. ASSUME NEW x \in Offers, Expire(x)
      PROVE  NoSale /\ UNCHANGED <<stock, supply, salesVars>>
  <2> DEFINE shown == [NoOffer EXCEPT !.status = "expired"]
  <2>1. /\ offer[x].status = "pending"
        /\ UNCHANGED <<stock, supply, salesVars>>
        /\ offer' = [offer EXCEPT ![x] = shown]
    BY <1>5 DEF Expire
  <2>2. shown.status = "expired"
    BY DEF NoOffer
  <2> HIDE DEF shown
  <2> QED
    BY <2>1, <2>2, OfferStep
<1> QED
  BY <1>1, <1>2, <1>3, <1>4, <1>5, CartStep, ShopStepTypes DEF Next

LEMMA CommitIsSale ==
  ASSUME NEW s \in Sessions, CommitSession(s)
  PROVE  s \in Offers /\ Sale(s)
  BY SessionsAreNoQuotes DEF CommitSession, Sale

LEMMA ConfirmIsSale ==
  ASSUME Types, NEW q \in Quotes, ConfirmQuote(q)
  PROVE  q \in Offers /\ Sale(q)
<1>1. offer[q].status = "pending" /\ ThereIsRoom(offer[q].user, offer[q].lines[1])
  BY DEF ConfirmQuote
<1>2. DOMAIN offer[q].lines = {1} /\ q \in Offers
  BY <1>1, QuoteLine
<1>3. supply' = supply /\ \E total, charges : Purchase(q, total, charges)
  BY DEF ConfirmQuote
<1> QED
  BY <1>1, <1>2, <1>3 DEF Sale

\* The lines a product was sold on, when the orders and what they are of stay.
LEMMA SameLines ==
  ASSUME NEW x, DOMAIN orders'[x] = DOMAIN orders[x],
         DOMAIN orders[x] # {} => offer'[x] = offer[x]
  PROVE  \A p : LinesWith(x, p)' = LinesWith(x, p) /\ SoldIn(x, p)' = SoldIn(x, p)
<1> SUFFICES ASSUME NEW p
             PROVE  LinesWith(x, p)' = LinesWith(x, p) /\ SoldIn(x, p)' = SoldIn(x, p)
  OBVIOUS
<1>1. LinesWith(x, p)' = LinesWith(x, p)
  BY DEF LinesWith
<1>2. CASE offer'[x] = offer[x]
  BY <1>1, <1>2 DEF SoldIn, LinesWith, Quantities
<1>3. CASE DOMAIN orders[x] = {}
  <2>1. LinesWith(x, p) = {}
    BY <1>3 DEF LinesWith
  <2>2. SoldIn(x, p) = 0
    BY <2>1, SumOfNothing DEF SoldIn
  <2>3. SoldIn(x, p)' = 0
    BY <1>1, <2>1, SumOfNothing DEF SoldIn
  <2> QED
    BY <1>1, <2>2, <2>3
<1> QED
  BY <1>2, <1>3

LEMMA SameBought ==
  ASSUME NEW x, orders'[x] = orders[x], DOMAIN orders[x] # {} => offer'[x] = offer[x]
  PROVE  \A u, p : BoughtIn(u, x, p)' = BoughtIn(u, x, p)
<1> SUFFICES ASSUME NEW u, NEW p PROVE BoughtIn(u, x, p)' = BoughtIn(u, x, p)
  OBVIOUS
<1>1. KeptLines(u, x, p)' = KeptLines(u, x, p)
  BY DEF KeptLines
<1>2. CASE offer'[x] = offer[x]
  BY <1>1, <1>2 DEF BoughtIn, KeptLines, Quantities
<1>3. CASE DOMAIN orders[x] = {}
  <2>1. KeptLines(u, x, p) = {}
    BY <1>3 DEF KeptLines
  <2>2. BoughtIn(u, x, p) = 0
    BY <2>1, SumOfNothing DEF BoughtIn
  <2>3. BoughtIn(u, x, p)' = 0
    BY <1>1, <2>1, SumOfNothing DEF BoughtIn
  <2> QED
    BY <2>2, <2>3
<1> QED
  BY <1>2, <1>3

\* Sums with the same parts, and sums of which one part has changed.
LEMMA SoldSame ==
  ASSUME NEW p, \A x \in Offers : SoldIn(x, p)' = SoldIn(x, p)
  PROVE  Sold(p)' = Sold(p)
<1>1. [x \in Offers |-> SoldIn(x, p)'] = [x \in Offers |-> SoldIn(x, p)]
  OBVIOUS
<1> QED
  BY <1>1, SoldSum

LEMMA BoughtSame ==
  ASSUME NEW p, NEW u, \A x \in Offers : BoughtIn(u, x, p)' = BoughtIn(u, x, p)
  PROVE  Bought(u, p)' = Bought(u, p)
<1> DEFINE f == [x \in Offers |-> BoughtIn(u, x, p)]
           g == [x \in Offers |-> BoughtIn(u, x, p)']
<1>1. g = f
  OBVIOUS
<1>2. Bought(u, p) = SumFunctionOnSet(f, Offers) /\ Bought(u, p)' = SumFunctionOnSet(g, Offers)
  BY BoughtSum
<1> HIDE DEF f, g
<1> QED
  BY <1>1, <1>2

LEMMA SoldOneMore ==
  ASSUME Types, NEW x \in Offers, NEW p, SoldIn(x, p)' \in Nat,
         \A y \in Offers \ {x} : SoldIn(y, p)' = SoldIn(y, p)
  PROVE  Sold(p)' = Sold(p) - SoldIn(x, p) + SoldIn(x, p)'
<1> DEFINE f == [y \in Offers |-> SoldIn(y, p)]
           g == [y \in Offers |-> SoldIn(y, p)']
<1>1. \A y \in Offers : SoldIn(y, p) \in Nat
  BY SoldType DEF Types
<1>2. \A y \in Offers : f[y] \in Int /\ g[y] \in Int
  BY <1>1
<1>3. \A y \in Offers \ {x} : f[y] = g[y]
  OBVIOUS
<1>4. f[x] = SoldIn(x, p) /\ g[x] = SoldIn(x, p)'
  OBVIOUS
<1> HIDE DEF f, g
<1>5. SumFunctionOnSet(g, Offers) = SumFunctionOnSet(f, Offers) - f[x] + g[x]
  BY <1>2, <1>3, OffersFinite, SumChange
<1> QED
  BY <1>4, <1>5, SoldSum DEF f, g

LEMMA BoughtOneMore ==
  ASSUME Types, NEW x \in Offers, NEW p, NEW u \in Users, BoughtIn(u, x, p)' \in Nat,
         \A y \in Offers \ {x} : BoughtIn(u, y, p)' = BoughtIn(u, y, p)
  PROVE  Bought(u, p)' = Bought(u, p) - BoughtIn(u, x, p) + BoughtIn(u, x, p)'
<1> DEFINE f == [y \in Offers |-> BoughtIn(u, y, p)]
           g == [y \in Offers |-> BoughtIn(u, y, p)']
<1>1. \A y \in Offers : BoughtIn(u, y, p) \in Nat
  BY SoldType DEF Types
<1>2. \A y \in Offers : f[y] \in Int /\ g[y] \in Int
  BY <1>1
<1>3. \A y \in Offers \ {x} : f[y] = g[y]
  OBVIOUS
<1>4. f[x] = BoughtIn(u, x, p) /\ g[x] = BoughtIn(u, x, p)'
  OBVIOUS
<1> HIDE DEF f, g
<1>5. SumFunctionOnSet(g, Offers) = SumFunctionOnSet(f, Offers) - f[x] + g[x]
  BY <1>2, <1>3, OffersFinite, SumChange
<1> QED
  BY <1>4, <1>5, BoughtSum DEF f, g

\* A product is on two lines of an offer if it is on two of its orders.
TwoLines(x, p) ==
  \E l, m \in DOMAIN orders[x] :
    l # m /\ offer[x].lines[l].product = p /\ offer[x].lines[m].product = p

LEMMA SplitLines ==
  /\ Split = {p \in Products : \E x \in Offers : TwoLines(x, p)}
  /\ Split' = {p \in Products : \E x \in Offers : TwoLines(x, p)'}
<1>1. Split = {p \in Products : \E x \in Offers : TwoLines(x, p)}
  BY DEF Split, TwoLines
<1>2. Split' = {p \in Products : \E x \in Offers : TwoLines(x, p)'}
  BY DEF Split, TwoLines
<1> QED
  BY <1>1, <1>2

LEMMA NoSaleSums ==
  ASSUME Types, NoSale
  PROVE  /\ \A p : Sold(p)' = Sold(p)
         /\ \A u, p : Bought(u, p)' = Bought(u, p)
         /\ Split' = Split
<1>1. \A x \in Offers : orders'[x] = orders[x] /\ (DOMAIN orders[x] # {} => offer'[x] = offer[x])
  <2>1. \A x \in Offers : DOMAIN orders[x] # {} => offer[x].status = "completed"
    BY OrderLines DEF Types
  <2> QED
    BY <2>1 DEF NoSale
<1>2. ASSUME NEW p PROVE Sold(p)' = Sold(p)
  <2>1. \A x \in Offers : SoldIn(x, p)' = SoldIn(x, p)
    BY <1>1, SameLines
  <2> QED
    BY <2>1, SoldSame
<1>3. ASSUME NEW u, NEW p PROVE Bought(u, p)' = Bought(u, p)
  <2>1. \A x \in Offers : BoughtIn(u, x, p)' = BoughtIn(u, x, p)
    BY <1>1, SameBought
  <2> QED
    BY <2>1, BoughtSame
<1>4. \A x \in Offers : \A p : TwoLines(x, p)' <=> TwoLines(x, p)
  BY <1>1 DEF TwoLines
<1> QED
  BY <1>2, <1>3, <1>4, SplitLines

LEMMA SaleEffect ==
  ASSUME Types, NEW x \in Offers, Sale(x)
  PROVE  /\ \A y \in Offers \ {x} : offer'[y] = offer[y] /\ orders'[y] = orders[y]
         /\ DOMAIN orders[x] = {} /\ DOMAIN orders'[x] = DOMAIN offer[x].lines
         /\ \A l \in DOMAIN offer[x].lines : orders'[x][l].status = "placed"
         /\ offer'[x].lines = offer[x].lines /\ offer'[x].user = offer[x].user
         /\ offer[x].lines \in Seq(Line) /\ offer[x].user \in Users
         /\ stock' = [p \in Counted |-> stock[p] - Ordered(p, offer[x].lines)]
<1>1. PICK total, charges : Purchase(x, total, charges)
  BY DEF Sale
<1>2. offer[x].status = "pending"
  BY DEF Sale
<1>3. /\ \A y \in Offers \ {x} : offer'[y] = offer[y] /\ orders'[y] = orders[y]
      /\ offer'[x] = [offer[x] EXCEPT !.status = "completed"]
      /\ orders[x] = <<>>
      /\ DOMAIN orders'[x] = DOMAIN offer[x].lines
      /\ \A l \in DOMAIN offer[x].lines :
           orders'[x][l] = [status |-> "placed", total |-> charges[l]]
  BY <1>1, <1>2, PurchaseEffect
<1>4. offer[x] \in Offer
  BY DEF Types, SaleTypes
<1>5. /\ offer'[x].lines = offer[x].lines /\ offer'[x].user = offer[x].user
      /\ offer[x].lines \in Seq(Line) /\ offer[x].user \in Users
  BY <1>3, <1>4 DEF Offer
<1>6. DOMAIN orders[x] = {}
  BY <1>3
<1>7. stock' = [p \in Counted |-> stock[p] - Ordered(p, offer[x].lines)]
  BY <1>1 DEF Purchase
<1>8. ASSUME NEW l \in DOMAIN offer[x].lines PROVE orders'[x][l].status = "placed"
  <2>1. orders'[x][l] = [status |-> "placed", total |-> charges[l]]
    BY <1>3
  <2> QED
    BY <2>1
<1> QED
  BY <1>3, <1>5, <1>6, <1>7, <1>8

LEMMA SaleSums ==
  ASSUME Types, NEW x \in Offers, Sale(x), NEW p
  PROVE  /\ Ordered(p, offer[x].lines) \in Nat
         /\ Sold(p)' = Sold(p) + Ordered(p, offer[x].lines)
         /\ \A u \in Users : Bought(u, p)' =
              IF u = offer[x].user THEN Bought(u, p) + Ordered(p, offer[x].lines) ELSE Bought(u, p)
<1> DEFINE lines == offer[x].lines
           with == {l \in DOMAIN lines : lines[l].product = p}
<1>1. lines \in Seq(Line) /\ with \in SUBSET DOMAIN lines
  BY SaleEffect
<1>2. Ordered(p, lines) = SumFunctionOnSet(Quantities(lines), with)
  BY DEF Ordered
<1>3. Ordered(p, lines) \in Nat
  BY <1>1, <1>2, QuantitiesType
<1>4. LinesWith(x, p)' = with /\ LinesWith(x, p) = {}
  BY SaleEffect DEF LinesWith
<1>5. SoldIn(x, p)' = Ordered(p, lines)
  BY <1>2, <1>4, SaleEffect DEF SoldIn
<1>6. SoldIn(x, p) = 0
  BY <1>4, SumOfNothing DEF SoldIn
<1>7. \A y \in Offers \ {x} : SoldIn(y, p)' = SoldIn(y, p)
  BY SaleEffect, SameLines
<1>8. Sold(p)' = Sold(p) + Ordered(p, lines)
  <2>1. Sold(p)' = Sold(p) - SoldIn(x, p) + SoldIn(x, p)'
    BY <1>3, <1>5, <1>7, SoldOneMore
  <2>2. Sold(p) \in Nat
    BY SoldType DEF Types
  <2> QED
    BY <1>3, <1>5, <1>6, <2>1, <2>2
<1>9. ASSUME NEW u \in Users
      PROVE  Bought(u, p)' =
               IF u = offer[x].user THEN Bought(u, p) + Ordered(p, lines) ELSE Bought(u, p)
  <2>1. KeptLines(u, x, p) = {}
    BY SaleEffect DEF KeptLines
  <2>2. BoughtIn(u, x, p) = 0
    BY <2>1, SumOfNothing DEF BoughtIn
  <2>3. KeptLines(u, x, p)' = IF u = offer[x].user THEN with ELSE {}
    BY SaleEffect DEF KeptLines
  <2>4. BoughtIn(u, x, p)' = SumFunctionOnSet(Quantities(lines), KeptLines(u, x, p)')
    BY SaleEffect DEF BoughtIn
  <2>5. BoughtIn(u, x, p)' = IF u = offer[x].user THEN Ordered(p, lines) ELSE 0
    BY <1>2, <2>3, <2>4, SumOfNothing
  <2>6. \A y \in Offers \ {x} : BoughtIn(u, y, p)' = BoughtIn(u, y, p)
    BY SaleEffect, SameBought
  <2>7. BoughtIn(u, x, p)' \in Nat
    BY <1>3, <2>5
  <2>8. Bought(u, p)' = Bought(u, p) - BoughtIn(u, x, p) + BoughtIn(u, x, p)'
    BY <2>6, <2>7, BoughtOneMore
  <2>9. Bought(u, p) \in Nat
    BY SoldType DEF Types
  <2> QED
    BY <1>3, <2>2, <2>5, <2>8, <2>9
<1> QED
  BY <1>3, <1>8, <1>9

\* A product that is not split is on one line of the offer, or on none.
LEMMA SaleSplit ==
  ASSUME Types, NEW x \in Offers, Sale(x)
  PROVE  /\ Split \subseteq Split'
         /\ \A p \in Products \ Split' :
              \/ Ordered(p, offer[x].lines) = 0
              \/ \E l \in DOMAIN offer[x].lines :
                   /\ offer[x].lines[l].product = p
                   /\ Ordered(p, offer[x].lines) = offer[x].lines[l].quantity
<1> DEFINE lines == offer[x].lines
<1>1. ASSUME NEW y \in Offers, NEW p, TwoLines(y, p) PROVE TwoLines(y, p)'
  <2>1. y # x
    BY <1>1, SaleEffect DEF TwoLines
  <2> QED
    BY <1>1, <2>1, SaleEffect DEF TwoLines
<1>2. Split \subseteq Split'
  BY <1>1, SplitLines
<1>3. ASSUME NEW p \in Products \ Split'
      PROVE  \/ Ordered(p, lines) = 0
             \/ \E l \in DOMAIN lines : /\ lines[l].product = p
                                        /\ Ordered(p, lines) = lines[l].quantity
  <2> DEFINE with == {l \in DOMAIN lines : lines[l].product = p}
  <2>1. ~TwoLines(x, p)'
    BY SplitLines
  <2>2. \A l, m \in with : l = m
    BY <2>1, SaleEffect DEF TwoLines
  <2>3. Ordered(p, lines) = SumFunctionOnSet(Quantities(lines), with)
    BY DEF Ordered
  <2>4. lines \in Seq(Line)
    BY SaleEffect
  <2>5. CASE with = {}
    <3>1. Ordered(p, lines) = 0
      BY <2>3, <2>5, SumOfNothing
    <3> QED
      BY <3>1
  <2>6. ASSUME NEW l \in with
        PROVE  lines[l].product = p /\ l \in DOMAIN lines /\ Ordered(p, lines) = lines[l].quantity
    <3>1. with = {l}
      BY <2>2, <2>6
    <3>2. Quantities(lines)[l] = lines[l].quantity /\ Quantities(lines)[l] \in Nat
      BY <2>4, QuantitiesType
    <3>3. IsFiniteSet({l}) /\ {l} \ {l} = {}
      BY FS_Singleton
    <3>4. SumFunctionOnSet(Quantities(lines), {l}) =
            Quantities(lines)[l] + SumFunctionOnSet(Quantities(lines), {})
      <4>1. \A m \in {l} : Quantities(lines)[m] \in Int
        BY <3>2
      <4>2. SumFunctionOnSet(Quantities(lines), {l}) =
              Quantities(lines)[l] + SumFunctionOnSet(Quantities(lines), {l} \ {l})
        BY <4>1, <3>3, SumRemove
      <4> QED
        BY <3>3, <4>2
    <3>5. SumFunctionOnSet(Quantities(lines), {}) = 0
      BY SumOfNothing
    <3>6. Ordered(p, lines) = SumFunctionOnSet(Quantities(lines), {l})
      BY <2>3, <3>1
    <3> HIDE DEF with, lines
    <3>7. Ordered(p, lines) = Quantities(lines)[l]
      BY <3>2, <3>4, <3>5, <3>6
    <3> QED
      BY <2>6, <3>2, <3>7 DEF with
  <2> QED
    BY <2>5, <2>6
<1> QED
  BY <1>2, <1>3

LEMMA RefundSums ==
  ASSUME Types, NEW x \in Offers, NEW l \in DOMAIN orders[x], Refund(x, l)
  PROVE  /\ \A p : Sold(p)' = Sold(p)
         /\ \A u \in Users : \A p : Bought(u, p)' \in Int /\ Bought(u, p)' <= Bought(u, p)
         /\ Split' = Split
<1>1. /\ offer' = offer
      /\ \A y \in Offers \ {x} : orders'[y] = orders[y]
      /\ DOMAIN orders'[x] = DOMAIN orders[x]
      /\ \A m \in DOMAIN orders[x] \ {l} : orders'[x][m] = orders[x][m]
      /\ orders[x][l].status = "placed" /\ orders'[x][l].status = "refunded"
  <2>1. orders[x][l] \in Order /\ orders'[x][l] = [orders[x][l] EXCEPT !.status = "refunded"]
    BY RefundEffect
  <2>2. orders'[x][l].status = "refunded"
    BY <2>1 DEF Order
  <2> QED
    BY <2>2, RefundEffect DEF Refund
<1>2. \A y \in Offers : DOMAIN orders'[y] = DOMAIN orders[y]
  BY <1>1
<1>3. ASSUME NEW p PROVE Sold(p)' = Sold(p)
  <2>1. \A y \in Offers : SoldIn(y, p)' = SoldIn(y, p)
    BY <1>1, <1>2, SameLines
  <2> QED
    BY <2>1, SoldSame
<1>4. ASSUME NEW u \in Users, NEW p
      PROVE  Bought(u, p)' \in Int /\ Bought(u, p)' <= Bought(u, p)
  <2>1. \A y \in Offers \ {x} : BoughtIn(u, y, p)' = BoughtIn(u, y, p)
    BY <1>1, SameBought
  <2>2. \A y \in Offers : BoughtIn(u, y, p) \in Nat
    BY SoldType DEF Types
  <2>3. Bought(u, p) \in Nat
    BY SoldType DEF Types
  <2> DEFINE q == Quantities(offer[x].lines)
             before == KeptLines(u, x, p)
             after == before \ {l}
  <2>4. /\ before \in SUBSET DOMAIN offer[x].lines
        /\ offer[x].lines \in Seq(Line)
    BY OrderLines DEF Types, KeptLines
  <2>5. KeptLines(u, x, p)' = after
    BY <1>1 DEF KeptLines
  <2>6. BoughtIn(u, x, p) = SumFunctionOnSet(q, before)
    BY DEF BoughtIn
  <2>7. BoughtIn(u, x, p)' = SumFunctionOnSet(q, after)
    BY <1>1, <2>5 DEF BoughtIn
  <2>8. /\ IsFiniteSet(before) /\ \A m \in before : q[m] \in Nat
        /\ SumFunctionOnSet(q, after) \in Nat
    BY <2>4, QuantitiesType
  <2> HIDE DEF q, before
  <2>9. SumFunctionOnSet(q, after) <= SumFunctionOnSet(q, before)
    <3>1. CASE l \in before
      <4>1. \A m \in before : q[m] \in Int
        BY <2>8
      <4>2. SumFunctionOnSet(q, before) = q[l] + SumFunctionOnSet(q, before \ {l})
        BY <2>8, <3>1, <4>1, SumRemove
      <4>3. q[l] \in Nat
        BY <2>8, <3>1
      <4> HIDE DEF after
      <4>4. SumFunctionOnSet(q, before) = q[l] + SumFunctionOnSet(q, after)
        BY <4>2 DEF after
      <4> QED
        BY <2>8, <4>3, <4>4
    <3>2. CASE l \notin before
      <4>1. after = before
        BY <3>2
      <4> QED
        BY <2>8, <4>1
    <3> QED
      BY <3>1, <3>2
  <2> HIDE DEF after
  <2>10. Bought(u, p)' = Bought(u, p) - BoughtIn(u, x, p) + BoughtIn(u, x, p)'
    <3>1. BoughtIn(u, x, p)' \in Nat
      BY <2>7, <2>8
    <3> QED
      BY <2>1, <3>1, BoughtOneMore
  <2>11. BoughtIn(u, x, p)' <= BoughtIn(u, x, p) /\ BoughtIn(u, x, p)' \in Nat /\ BoughtIn(u, x, p) \in Nat
    BY <2>2, <2>6, <2>7, <2>8, <2>9
  <2> QED
    BY <2>3, <2>10, <2>11
<1>5. \A y \in Offers : \A p : TwoLines(y, p)' <=> TwoLines(y, p)
  BY <1>1, <1>2 DEF TwoLines
<1> QED
  BY <1>3, <1>4, <1>5, SplitLines

-----------------------------------------------------------------------------
(* Stock and limits. *)

StockAgrees == \A p \in Counted : stock[p] = supply[p] - Sold(p)
StockLeft == \A p \in Counted \ Split : stock[p] >= 0

SalesInv == Types /\ StockAgrees /\ StockLeft /\ WithinLimits

LEMMA InitSales == Init => SalesInv
<1> SUFFICES ASSUME Init PROVE SalesInv
  OBVIOUS
<1>1. Types
  BY InitTypes
<1>2. Supply \in Nat /\ MaxPerUser \in [Products -> Nat \cup {NoLimit}] /\ Counted \subseteq Products
  BY CheckoutAssumption
<1>3. \A x \in Offers : DOMAIN orders[x] = {}
  BY DEF Init
<1>4. ASSUME NEW p PROVE Sold(p) = 0 /\ \A u \in Users : Bought(u, p) = 0
  <2> DEFINE none == [x \in Offers |-> 0]
             N == {s \in SUBSET Offers : SumFunctionOnSet(none, s) = 0}
  <2>1. SumFunctionOnSet(none, Offers) = 0
    <3>1. {} \in N
      BY SumOfNothing
    <3>2. ASSUME NEW s \in SUBSET Offers, NEW x \in Offers \ s, s \in N PROVE s \cup {x} \in N
      <4>1. IsFiniteSet(s)
        BY OffersFinite, FS_Subset
      <4>2. \A y \in s \cup {x} : none[y] \in Int
        OBVIOUS
      <4> HIDE DEF none
      <4>3. SumFunctionOnSet(none, s \cup {x}) = none[x] + SumFunctionOnSet(none, s)
        BY <4>1, <4>2, SumAdd
      <4>4. none[x] = 0
        BY DEF none
      <4> QED
        BY <3>2, <4>3, <4>4
    <3> HIDE DEF N
    <3>3. Offers \in N
      BY <3>1, <3>2, OffersFinite, SubsetsInFamily
    <3> QED
      BY <3>3 DEF N
  <2>2. \A x \in Offers : SoldIn(x, p) = 0
    <3>1. \A x \in Offers : LinesWith(x, p) = {}
      BY <1>3 DEF LinesWith
    <3> QED
      BY <3>1, SumOfNothing DEF SoldIn
  <2>3. \A x \in Offers, u \in Users : BoughtIn(u, x, p) = 0
    <3>1. \A x \in Offers, u \in Users : KeptLines(u, x, p) = {}
      BY <1>3 DEF KeptLines
    <3> QED
      BY <3>1, SumOfNothing DEF BoughtIn
  <2>4. [x \in Offers |-> SoldIn(x, p)] = none
    BY <2>2
  <2>5. \A u \in Users : [x \in Offers |-> BoughtIn(u, x, p)] = none
    BY <2>3
  <2> HIDE DEF none
  <2>6. Sold(p) = 0
    BY <2>1, <2>4, SoldSum
  <2>7. ASSUME NEW u \in Users PROVE Bought(u, p) = 0
    <3>1. [x \in Offers |-> BoughtIn(u, x, p)] = none
      BY <2>5
    <3>2. Bought(u, p) = SumFunctionOnSet([x \in Offers |-> BoughtIn(u, x, p)], Offers)
      BY BoughtSum
    <3> QED
      BY <2>1, <3>1, <3>2
  <2> QED
    BY <2>6, <2>7
<1>5. \A p \in Counted : stock[p] = Supply /\ supply[p] = Supply
  BY DEF Init
<1>6. StockAgrees /\ StockLeft
  BY <1>2, <1>4, <1>5 DEF StockAgrees, StockLeft
<1>7. WithinLimits
  <2>1. \A u \in Users, p \in Products : AtMost(Bought(u, p), MaxPerUser[p])
    BY <1>2, <1>4 DEF AtMost
  <2> QED
    BY <2>1 DEF WithinLimits
<1> QED
  BY <1>1, <1>6, <1>7 DEF SalesInv

LEMMA EditStockSales ==
  ASSUME SalesInv, NEW p \in Counted, NEW n \in 0 .. Supply, EditStock(p, n)
  PROVE  StockAgrees' /\ StockLeft' /\ WithinLimits'
<1>1. Types /\ Supply \in Nat
  BY CheckoutAssumption DEF SalesInv
<1>2. NoSale
  BY DEF EditStock, Change, NoSale, salesVars
<1>3. /\ \A r : Sold(r)' = Sold(r)
      /\ \A u, r : Bought(u, r)' = Bought(u, r)
      /\ Split' = Split
  BY <1>1, <1>2, NoSaleSums
<1>4. /\ stock' = [stock EXCEPT ![p] = n] /\ stock \in [Counted -> Int]
      /\ supply' = [supply EXCEPT ![p] = n + Sold(p)] /\ supply \in [Counted -> Int]
  BY <1>1 DEF EditStock, Types, SaleTypes
<1>5. \A r \in Counted \ {p} : stock'[r] = stock[r] /\ supply'[r] = supply[r]
  BY <1>4
<1>6. stock'[p] = n /\ supply'[p] = n + Sold(p) /\ n \in Int /\ n >= 0
  BY <1>1, <1>4
<1>7. Sold(p) \in Nat
  BY <1>1, SoldType DEF Types
<1>8. StockAgrees'
  BY <1>3, <1>5, <1>6, <1>7 DEF SalesInv, StockAgrees
<1>9. StockLeft'
  BY <1>3, <1>5, <1>6 DEF SalesInv, StockLeft
<1> QED
  BY <1>3, <1>8, <1>9 DEF SalesInv, WithinLimits

LEMMA SaleSales ==
  ASSUME SalesInv, NEW x \in Offers, Sale(x)
  PROVE  StockAgrees' /\ StockLeft' /\ WithinLimits'
<1> DEFINE lines == offer[x].lines
           buyer == offer[x].user
<1>1. Types /\ Counted \subseteq Products /\ MaxPerUser \in [Products -> Nat \cup {NoLimit}]
  BY CheckoutAssumption DEF SalesInv
<1>2. /\ supply' = supply /\ lines \in Seq(Line) /\ buyer \in Users
      /\ \A p \in Counted : stock'[p] = stock[p] - Ordered(p, lines)
  BY <1>1, SaleEffect DEF Sale
<1>3. \A l \in DOMAIN lines : InStock(lines[l].product, lines[l].quantity)
                              /\ WithinLimit(buyer, lines[l].product, lines[l].quantity)
  BY DEF Sale, ThereIsRoom
<1>4. \A p \in Products \ Split' :
        \/ Ordered(p, lines) = 0
        \/ \E l \in DOMAIN lines : /\ lines[l].product = p
                                   /\ Ordered(p, lines) = lines[l].quantity
  BY <1>1, SaleSplit
<1>5. Split \subseteq Split'
  BY <1>1, SaleSplit
<1>6. \A p : /\ Ordered(p, lines) \in Nat
             /\ Sold(p)' = Sold(p) + Ordered(p, lines)
             /\ \A u \in Users : Bought(u, p)' =
                  IF u = buyer THEN Bought(u, p) + Ordered(p, lines) ELSE Bought(u, p)
  BY <1>1, SaleSums
<1> HIDE DEF lines, buyer
<1>7. StockAgrees'
  <2> SUFFICES ASSUME NEW p \in Counted PROVE stock'[p] = supply'[p] - Sold(p)'
    BY DEF StockAgrees
  <2>1. /\ stock[p] = supply[p] - Sold(p) /\ Sold(p) \in Nat
        /\ stock[p] \in Int /\ supply[p] \in Int
    BY <1>1, SoldType DEF SalesInv, StockAgrees, Types, SaleTypes
  <2>2. Ordered(p, lines) \in Nat /\ Sold(p)' = Sold(p) + Ordered(p, lines)
    BY <1>6
  <2> QED
    BY <1>2, <2>1, <2>2
<1>8. StockLeft'
  <2> SUFFICES ASSUME NEW p \in Counted \ Split' PROVE stock'[p] >= 0
    BY DEF StockLeft
  <2>1. stock[p] \in Int /\ stock[p] >= 0 /\ stock'[p] = stock[p] - Ordered(p, lines)
    BY <1>1, <1>2, <1>5 DEF SalesInv, StockLeft, Types, SaleTypes
  <2>2. CASE Ordered(p, lines) = 0
    BY <2>1, <2>2
  <2>3. ASSUME NEW l \in DOMAIN lines, lines[l].product = p, Ordered(p, lines) = lines[l].quantity
        PROVE  stock'[p] >= 0
    <3>1. stock[p] >= Ordered(p, lines) /\ Ordered(p, lines) \in Nat
      BY <1>3, <1>6, <2>3 DEF InStock
    <3> QED
      BY <2>1, <3>1
  <2> QED
    BY <1>1, <1>4, <2>2, <2>3
<1>9. WithinLimits'
  <2> SUFFICES ASSUME NEW u \in Users, NEW p \in Products \ Split'
               PROVE  AtMost(Bought(u, p)', MaxPerUser[p])
    BY DEF WithinLimits
  <2>1. Bought(u, p) \in Nat /\ AtMost(Bought(u, p), MaxPerUser[p])
    BY <1>1, <1>5, SoldType DEF SalesInv, WithinLimits, Types
  <2>2. Bought(u, p)' = IF u = buyer THEN Bought(u, p) + Ordered(p, lines) ELSE Bought(u, p)
    BY <1>6
  <2>3. CASE u # buyer \/ Ordered(p, lines) = 0
    <3>1. Bought(u, p)' = Bought(u, p)
      BY <2>1, <2>2, <2>3
    <3> QED
      BY <2>1, <3>1
  <2>4. ASSUME u = buyer, NEW l \in DOMAIN lines, lines[l].product = p,
               Ordered(p, lines) = lines[l].quantity
        PROVE  AtMost(Bought(u, p)', MaxPerUser[p])
    <3>1. AtMost(Bought(buyer, p) + Ordered(p, lines), MaxPerUser[p])
      BY <1>3, <2>4 DEF WithinLimit
    <3> QED
      BY <2>2, <2>4, <3>1
  <2> QED
    BY <1>4, <2>3, <2>4
<1> QED
  BY <1>7, <1>8, <1>9

LEMMA RefundSales ==
  ASSUME SalesInv, NEW x \in Offers, NEW l \in DOMAIN orders[x], Refund(x, l)
  PROVE  StockAgrees' /\ StockLeft' /\ WithinLimits'
<1>1. Types /\ MaxPerUser \in [Products -> Nat \cup {NoLimit}]
  BY CheckoutAssumption DEF SalesInv
<1>2. /\ \A p : Sold(p)' = Sold(p)
      /\ \A u \in Users : \A p : Bought(u, p)' \in Int /\ Bought(u, p)' <= Bought(u, p)
      /\ Split' = Split
  BY <1>1, RefundSums
<1>3. stock' = stock /\ supply' = supply
  BY DEF Refund
<1>4. WithinLimits'
  <2> SUFFICES ASSUME NEW u \in Users, NEW p \in Products \ Split
               PROVE  AtMost(Bought(u, p)', MaxPerUser[p])
    BY <1>2 DEF WithinLimits
  <2>1. Bought(u, p) \in Nat /\ AtMost(Bought(u, p), MaxPerUser[p])
    BY <1>1, SoldType DEF SalesInv, WithinLimits, Types
  <2>2. Bought(u, p)' \in Int
    BY <1>2
  <2>3. Bought(u, p)' <= Bought(u, p)
    BY <1>2
  <2>4. MaxPerUser[p] \in Nat \/ MaxPerUser[p] = NoLimit
    BY <1>1
  <2> QED
    BY <2>1, <2>2, <2>3, <2>4 DEF AtMost
<1> QED
  BY <1>2, <1>3, <1>4 DEF SalesInv, StockAgrees, StockLeft

LEMMA NextSales == SalesInv /\ [Next]_vars => SalesInv'
<1> SUFFICES ASSUME SalesInv, [Next]_vars PROVE SalesInv'
  OBVIOUS
<1>1. Types /\ Types'
  BY NextTypes DEF SalesInv
<1>2. ASSUME NoSale, UNCHANGED <<stock, supply>>
      PROVE  StockAgrees' /\ StockLeft' /\ WithinLimits'
  <2>1. /\ \A p : Sold(p)' = Sold(p)
        /\ \A u, p : Bought(u, p)' = Bought(u, p)
        /\ Split' = Split
    BY <1>1, <1>2, NoSaleSums
  <2> QED
    BY <1>2, <2>1 DEF SalesInv, StockAgrees, StockLeft, WithinLimits
<1>3. CASE UNCHANGED vars
  BY <1>2, <1>1, <1>3 DEF vars, salesVars, NoSale, SalesInv
<1>4. CASE Next
  BY <1>1, <1>2, <1>4, StepKinds, EditStockSales, CommitIsSale, ConfirmIsSale, SaleSales,
     RefundSales DEF SalesInv
<1> QED
  BY <1>3, <1>4

\* No more of a product is sold than was put up for sale, unless a session held
\* it on two lines: commit and confirmation check every line against the stock
\* and lower it in one transaction.
THEOREM NothingIsOversold == Spec => []NothingOversold
<1>1. Spec => []SalesInv
  BY InitSales, NextSales, PTL DEF Spec
<1>2. SalesInv => NothingOversold
  <2> SUFFICES ASSUME SalesInv, NEW p \in Counted \ Split
               PROVE  Sold(p) <= supply[p] /\ stock[p] = supply[p] - Sold(p)
    BY DEF NothingOversold
  <2>1. /\ stock[p] = supply[p] - Sold(p) /\ stock[p] >= 0
        /\ stock[p] \in Int /\ supply[p] \in Int
    BY DEF SalesInv, StockAgrees, StockLeft, Types, SaleTypes
  <2>2. Sold(p) \in Nat
    BY SoldType DEF SalesInv, Types
  <2> QED
    BY <2>1, <2>2
<1> QED
  BY <1>1, <1>2, PTL

\* No buyer holds more of a product than its limit, with the same exception.
THEOREM LimitsHold == Spec => []WithinLimits
<1>1. Spec => []SalesInv
  BY InitSales, NextSales, PTL DEF Spec
<1> QED
  BY <1>1, PTL DEF SalesInv

-----------------------------------------------------------------------------
(* The limits of campaigns and vouchers. *)

KeptRow(row, uses) ==
  /\ AtMost(Cardinality(uses), row.limitTotal)
  /\ \A u \in Users : AtMost(Cardinality({r \in uses : r.user = u}), row.limitPerUser)

LEMMA FinitePart ==
  ASSUME NEW S, IsFiniteSet(S), NEW T \in SUBSET S
  PROVE  /\ IsFiniteSet(T) /\ Cardinality(S) \in Nat /\ Cardinality(T) \in Nat
         /\ Cardinality(T) <= Cardinality(S)
  BY FS_Subset, FS_CardinalityType

LEMMA OneMoreFits ==
  ASSUME NEW seen, IsFiniteSet(seen), NEW uses \in SUBSET seen, NEW r,
         NEW limit \in Nat \cup {NoLimit}, Below(Cardinality(seen), limit)
  PROVE  AtMost(Cardinality(uses \cup {r}), limit)
<1>1. /\ IsFiniteSet(uses) /\ Cardinality(uses) \in Nat /\ Cardinality(seen) \in Nat
      /\ Cardinality(uses) <= Cardinality(seen)
  BY FinitePart
<1>2. Cardinality(uses \cup {r}) \in {Cardinality(uses), Cardinality(uses) + 1}
  BY <1>1, FS_AddElement
<1> QED
  BY <1>1, <1>2 DEF AtMost, Below

LEMMA OneMoreUse ==
  ASSUME NEW seen, IsFiniteSet(seen), NEW uses \in SUBSET seen, NEW r, NEW row, Limits(row),
         KeptRow(row, uses), Below(Cardinality(seen), row.limitTotal),
         Below(Cardinality({x \in seen : x.user = r.user}), row.limitPerUser)
  PROVE  KeptRow(row, uses \cup {r})
<1>1. AtMost(Cardinality(uses \cup {r}), row.limitTotal)
  BY OneMoreFits DEF Limits
<1>2. ASSUME NEW u \in Users
      PROVE  AtMost(Cardinality({x \in uses \cup {r} : x.user = u}), row.limitPerUser)
  <2>1. CASE u # r.user
    <3>1. {x \in uses \cup {r} : x.user = u} = {x \in uses : x.user = u}
      BY <2>1
    <3> QED
      BY <3>1 DEF KeptRow
  <2>2. CASE u = r.user
    <3> DEFINE mine == {x \in uses : x.user = r.user}
               hers == {x \in seen : x.user = r.user}
    <3>1. {x \in uses \cup {r} : x.user = u} = mine \cup {r}
      BY <2>2
    <3>2. IsFiniteSet(hers) /\ mine \in SUBSET hers
      BY FinitePart
    <3>3. row.limitPerUser \in Nat \cup {NoLimit}
      BY DEF Limits
    <3>4. AtMost(Cardinality(mine \cup {r}), row.limitPerUser)
      BY <3>2, <3>3, OneMoreFits
    <3> QED
      BY <3>1, <3>4
  <2> QED
    BY <2>1, <2>2
<1> QED
  BY <1>1, <1>2 DEF KeptRow

LimitsKept ==
  /\ \A c \in Campaigns : KeptRow(CampaignRows[c], {r \in redeemed : r.campaign = c})
  /\ \A v \in Vouchers : KeptRow(VoucherRows[v], {r \in redeemed : r.voucher = v})

LEMMA LimitsKeptMeans == LimitsKept => RedeemedWithinLimits
  BY DEF LimitsKept, RedeemedWithinLimits, KeptRow

LEMMA RedeemKeepsLimits ==
  ASSUME RedemptionTypes, LimitsKept, NEW s \in Sessions, NEW apps \in Seq(Given),
         Redeemable(s, apps), redeemed' = redeemed \cup Redemptions(s, apps)
  PROVE  LimitsKept'
<1> DEFINE row(k) == [campaign |-> apps[k].campaign, voucher |-> apps[k].voucher,
                      user |-> OwnerOf[s], of |-> s, gives |-> apps[k].gives]
           seen(k) == redeemed \cup Redemptions(s, SubSeq(apps, 1, k - 1))
<1>1. \A r : r \in redeemed' <=> r \in redeemed \/ \E k \in DOMAIN apps : r = row(k)
  BY DEF Redemptions
<1>2. \A k \in DOMAIN apps : IsFiniteSet(seen(k)) /\ redeemed \subseteq seen(k)
  <2> SUFFICES ASSUME NEW k \in DOMAIN apps PROVE IsFiniteSet(seen(k)) /\ redeemed \subseteq seen(k)
    OBVIOUS
  <2>1. SubSeq(apps, 1, k - 1) \in Seq(Given)
    OBVIOUS
  <2>2. IsFiniteSet(Redemptions(s, SubSeq(apps, 1, k - 1)))
    BY <2>1, RedemptionsType
  <2> QED
    BY <2>2, FS_Union DEF RedemptionTypes
<1>3. \A k \in DOMAIN apps : Available(seen(k), apps[k], OwnerOf[s])
  BY DEF Redeemable
<1>4. \A j, k \in DOMAIN apps : apps[j].campaign = apps[k].campaign => j = k
  <2>1. \A k \in DOMAIN apps : \A j \in 1 .. k - 1 : apps[j].campaign # apps[k].campaign
    BY DEF Redeemable
  <2> QED
    BY <2>1
<1>5. \A k \in DOMAIN apps : /\ apps[k].campaign \in Campaigns
                             /\ apps[k].voucher # 0 => apps[k].campaign = VoucherRows[apps[k].voucher].campaign
  BY DEF Given
<1>6. ASSUME NEW c \in Campaigns
      PROVE  KeptRow(CampaignRows[c], {r \in redeemed' : r.campaign = c})
  <2> DEFINE uses == {r \in redeemed : r.campaign = c}
             now == {r \in redeemed' : r.campaign = c}
  <2>1. KeptRow(CampaignRows[c], uses)
    BY DEF LimitsKept
  <2>2. CASE \A k \in DOMAIN apps : apps[k].campaign # c
    <3>1. now = uses
      BY <1>1, <2>2
    <3> QED
      BY <2>1, <3>1
  <2>3. ASSUME NEW k \in DOMAIN apps, apps[k].campaign = c
        PROVE  KeptRow(CampaignRows[c], now)
    <3> DEFINE before == {r \in seen(k) : r.campaign = c}
    <3>1. now = uses \cup {row(k)}
      <4>1. \A j \in DOMAIN apps : row(j).campaign = c => j = k
        BY <1>4, <2>3
      <4>2. row(k).campaign = c
        BY <2>3
      <4> HIDE DEF row
      <4> QED
        BY <1>1, <4>1, <4>2
    <3>2. IsFiniteSet(before) /\ uses \in SUBSET before
      BY <1>2, FinitePart
    <3>3. /\ Below(Cardinality(before), CampaignRows[c].limitTotal)
          /\ Below(Cardinality({r \in before : r.user = OwnerOf[s]}), CampaignRows[c].limitPerUser)
      BY <1>3, <2>3 DEF Available
    <3>4. row(k).user = OwnerOf[s]
      OBVIOUS
    <3>5. Limits(CampaignRows[c])
      BY RowTypes
    <3> HIDE DEF before, uses, now, row
    <3> QED
      BY <2>1, <3>1, <3>2, <3>3, <3>4, <3>5, OneMoreUse
  <2> QED
    BY <2>2, <2>3
<1>7. ASSUME NEW v \in Vouchers
      PROVE  KeptRow(VoucherRows[v], {r \in redeemed' : r.voucher = v})
  <2> DEFINE uses == {r \in redeemed : r.voucher = v}
             now == {r \in redeemed' : r.voucher = v}
  <2>0. v # 0
    BY RowTypes
  <2>1. KeptRow(VoucherRows[v], uses)
    BY DEF LimitsKept
  <2>2. CASE \A k \in DOMAIN apps : apps[k].voucher # v
    <3>1. now = uses
      BY <1>1, <2>2
    <3> QED
      BY <2>1, <3>1
  <2>3. ASSUME NEW k \in DOMAIN apps, apps[k].voucher = v
        PROVE  KeptRow(VoucherRows[v], now)
    <3> DEFINE before == {r \in seen(k) : r.voucher = v}
    <3>1. now = uses \cup {row(k)}
      <4>1. \A j \in DOMAIN apps : row(j).voucher = v => j = k
        BY <1>4, <1>5, <2>0, <2>3
      <4>2. row(k).voucher = v
        BY <2>3
      <4> HIDE DEF row
      <4> QED
        BY <1>1, <4>1, <4>2
    <3>2. IsFiniteSet(before) /\ uses \in SUBSET before
      BY <1>2, FinitePart
    <3>3. /\ Below(Cardinality(before), VoucherRows[v].limitTotal)
          /\ Below(Cardinality({r \in before : r.user = OwnerOf[s]}), VoucherRows[v].limitPerUser)
      BY <1>3, <2>0, <2>3 DEF Available
    <3>4. row(k).user = OwnerOf[s]
      OBVIOUS
    <3>5. Limits(VoucherRows[v])
      BY RowTypes
    <3> HIDE DEF before, uses, now, row
    <3> QED
      BY <2>1, <3>1, <3>2, <3>3, <3>4, <3>5, OneMoreUse
  <2> QED
    BY <2>2, <2>3
<1> QED
  BY <1>6, <1>7 DEF LimitsKept

LEMMA RedeemedChanges ==
  ASSUME Types, Next
  PROVE  \/ redeemed' = redeemed
         \/ \E s \in Sessions : \E apps \in Seq(Given) :
              Redeemable(s, apps) /\ redeemed' = redeemed \cup Redemptions(s, apps)
<1>1. ASSUME NEW s \in Sessions, CommitSession(s)
      PROVE  \E apps \in Seq(Given) :
               Redeemable(s, apps) /\ redeemed' = redeemed \cup Redemptions(s, apps)
  <2> DEFINE o == offer[s]
             apps == Evaluate(redeemed, live, o.user, o.lines, o.codes).apps
  <2>1. o.lines \in Seq(Line) /\ o.codes \in SUBSET Vouchers
    BY SessionsAreNoQuotes DEF Types, SaleTypes, Offer
  <2>2. apps \in Seq(Given)
    BY <2>1, EvaluateType
  <2>3. Redeemable(s, apps) /\ redeemed' = redeemed \cup Redemptions(s, apps)
    BY <1>1 DEF CommitSession
  <2> QED
    BY <2>2, <2>3
<1>2. ASSUME NEW q, ConfirmQuote(q) PROVE redeemed' = redeemed
  BY <1>2 DEF ConfirmQuote
<1>3. ASSUME NEW x, NEW l, Refund(x, l) PROVE redeemed' = redeemed
  BY <1>3 DEF Refund
<1>4. ASSUME NEW p, NEW n, EditStock(p, n) PROVE redeemed' = redeemed
  BY <1>4 DEF EditStock, Change, salesVars
<1>5. UNCHANGED salesVars => redeemed' = redeemed
  BY DEF salesVars
<1> QED
  BY <1>1, <1>2, <1>3, <1>4, <1>5, StepKinds

RedemptionInv == Types /\ LimitsKept

LEMMA InitRedemptions == Init => RedemptionInv
<1> SUFFICES ASSUME Init PROVE LimitsKept
  BY InitTypes DEF RedemptionInv
<1>1. redeemed = {}
  BY DEF Init
<1>2. ASSUME NEW row, Limits(row) PROVE KeptRow(row, {})
  <2>1. AtMost(0, row.limitTotal) /\ AtMost(0, row.limitPerUser)
    BY <1>2 DEF Limits, AtMost
  <2>2. \A u \in Users : {r \in {} : r.user = u} = {}
    OBVIOUS
  <2> QED
    BY <2>1, <2>2, FS_EmptySet DEF KeptRow
<1>3. ASSUME NEW c \in Campaigns
      PROVE  KeptRow(CampaignRows[c], {r \in redeemed : r.campaign = c})
  <2>1. {r \in redeemed : r.campaign = c} = {}
    BY <1>1
  <2> QED
    BY <1>2, <2>1, RowTypes
<1>4. ASSUME NEW v \in Vouchers
      PROVE  KeptRow(VoucherRows[v], {r \in redeemed : r.voucher = v})
  <2>1. {r \in redeemed : r.voucher = v} = {}
    BY <1>1
  <2> QED
    BY <1>2, <2>1, RowTypes
<1> QED
  BY <1>3, <1>4 DEF LimitsKept

LEMMA NextRedemptions == RedemptionInv /\ [Next]_vars => RedemptionInv'
<1> SUFFICES ASSUME RedemptionInv, [Next]_vars PROVE LimitsKept'
  BY NextTypes DEF RedemptionInv
<1>1. ASSUME redeemed' = redeemed PROVE LimitsKept'
  BY <1>1 DEF RedemptionInv, LimitsKept
<1>2. CASE UNCHANGED vars
  BY <1>1, <1>2 DEF vars, salesVars
<1>3. CASE Next
  BY <1>1, <1>3, RedeemedChanges, RedeemKeepsLimits DEF RedemptionInv, Types
<1> QED
  BY <1>2, <1>3

\* No campaign and no voucher is redeemed beyond its limits, in all or by one
\* user: redeemForCheckout checks them again for each application, and the
\* database admits one redemption of a campaign for each session.
THEOREM RedemptionLimitsHold == Spec => []RedeemedWithinLimits
<1>1. Spec => []RedemptionInv
  BY InitRedemptions, NextRedemptions, PTL DEF Spec
<1>2. RedemptionInv => RedeemedWithinLimits
  BY LimitsKeptMeans DEF RedemptionInv
<1> QED
  BY <1>1, <1>2, PTL

-----------------------------------------------------------------------------
(* Money. *)

RowsOf(x) == {r \in redeemed : r.of = x}
GivesOf(x) == SumFunction([r \in RowsOf(x) |-> r.gives])

OfferPaid(x) ==
  /\ taken[x] = (IF offer[x].status = "completed" THEN offer[x].total ELSE 0)
  /\ taken[x] = SumFunction(Charges(x))
  /\ offer[x].status = "completed" => SumFunction(Charges(x)) = Subtotal(offer[x].lines) - GivesOf(x)
  /\ \A l \in DOMAIN orders[x] : orders[x][l].total >= 0

QuoteTotals ==
  \A q \in Quotes :
    offer[q].status = "pending" => offer[q].total = LinePrice(offer[q].lines[1])

RowsOfPurchases == \A r \in redeemed : offer[r.of].status = "completed"

\* What an offer took from a user, and what came back.
Refunds(x) == {l \in DOMAIN orders[x] : orders[x][l].status = "refunded"}
Back(x) == SumFunctionOnSet(Charges(x), Refunds(x))
TakenFrom(u, x) == IF offer[x].user = u THEN taken[x] ELSE 0
BackTo(u, x) == IF offer[x].user = u THEN Back(x) ELSE 0

BalancesAgree ==
  \A u \in Users :
    balance[u] = Funds - SumFunctionOnSet([x \in Offers |-> TakenFrom(u, x)], Offers)
                       + SumFunctionOnSet([x \in Offers |-> BackTo(u, x)], Offers)

PaidInv ==
  /\ Types /\ QuoteTotals /\ RowsOfPurchases
  /\ \A x \in Offers : OfferPaid(x)
  /\ BalancesAgree

LEMMA ChargesType ==
  ASSUME SaleTypes, OrdersAreLines, NEW x \in Offers
  PROVE  /\ IsFiniteSet(DOMAIN orders[x]) /\ DOMAIN Charges(x) = DOMAIN orders[x]
         /\ \A l \in DOMAIN orders[x] : Charges(x)[l] = orders[x][l].total /\ Charges(x)[l] \in Int
         /\ IsFiniteSet(Refunds(x)) /\ Refunds(x) \in SUBSET DOMAIN orders[x]
         /\ Back(x) \in Int
<1>1. orders[x] \in Seq(Order)
  BY DEF SaleTypes
<1>2. IsFiniteSet(DOMAIN orders[x])
  BY <1>1, FS_Interval
<1>3. ASSUME NEW l \in DOMAIN orders[x]
      PROVE  Charges(x)[l] = orders[x][l].total /\ Charges(x)[l] \in Int
  <2>1. orders[x][l] \in Order
    BY <1>1
  <2>2. orders[x][l].total \in Int
    BY <2>1 DEF Order
  <2> QED
    BY <2>2 DEF Charges
<1>4. IsFiniteSet(Refunds(x)) /\ Refunds(x) \in SUBSET DOMAIN orders[x]
  BY <1>2, FS_Subset DEF Refunds
<1>5. Back(x) \in Int
  BY <1>3, <1>4, SumInt DEF Back
<1> QED
  BY <1>2, <1>3, <1>4, <1>5 DEF Charges

LEMMA PaidMeans == PaidInv => PaidAsShown
<1> SUFFICES ASSUME PaidInv PROVE PaidAsShown
  OBVIOUS
<1>1. ASSUME NEW x \in Offers
      PROVE  LET charges == SumFunction(Charges(x))
                 discounts == SumFunction([r \in {r \in redeemed : r.of = x} |-> r.gives])
             IN /\ taken[x] = (IF offer[x].status = "completed" THEN offer[x].total ELSE 0)
                /\ taken[x] = charges
                /\ offer[x].status = "completed" => charges = Subtotal(offer[x].lines) - discounts
                /\ \A l \in DOMAIN orders[x] : orders[x][l].total >= 0
  BY DEF PaidInv, OfferPaid, GivesOf, RowsOf
<1>2. ASSUME NEW u \in Users
      PROVE  LET mine == {x \in Offers : offer[x].user = u}
             IN balance[u] = Funds - SumFunctionOnSet(taken, mine)
                  + SumFunction([x \in mine |->
                      SumFunctionOnSet(Charges(x),
                        {l \in DOMAIN orders[x] : orders[x][l].status = "refunded"})])
  <2> DEFINE mine == {x \in Offers : offer[x].user = u}
             f == [x \in Offers |-> TakenFrom(u, x)]
             g == [x \in Offers |-> BackTo(u, x)]
             back == [x \in mine |-> Back(x)]
  <2>1. balance[u] = Funds - SumFunctionOnSet(f, Offers) + SumFunctionOnSet(g, Offers)
    BY DEF PaidInv, BalancesAgree
  <2>2. \A x \in mine : f[x] = taken[x] /\ f[x] \in Int /\ g[x] = back[x] /\ g[x] \in Int
    <3> SUFFICES ASSUME NEW x \in mine
                 PROVE  f[x] = taken[x] /\ f[x] \in Int /\ g[x] = back[x] /\ g[x] \in Int
      OBVIOUS
    <3>1. taken[x] \in Int /\ Back(x) \in Int
      BY ChargesType DEF PaidInv, Types, SaleTypes
    <3> QED
      BY <3>1 DEF TakenFrom, BackTo
  <2>3. \A x \in Offers \ mine : f[x] = 0 /\ g[x] = 0
    BY DEF TakenFrom, BackTo
  <2>4. SumFunction(back) = SumFunctionOnSet(back, mine)
    BY DEF SumFunction
  <2>5. back = [x \in mine |-> SumFunctionOnSet(Charges(x),
                        {l \in DOMAIN orders[x] : orders[x][l].status = "refunded"})]
    BY DEF Back, Refunds
  <2>6. mine \in SUBSET Offers
    OBVIOUS
  <2> HIDE DEF f, g, back, mine
  <2>7. SumFunctionOnSet(f, Offers) = SumFunctionOnSet(taken, mine)
    BY <2>2, <2>3, <2>6, OffersFinite, SumPart
  <2>8. SumFunctionOnSet(g, Offers) = SumFunctionOnSet(back, mine)
    BY <2>2, <2>3, <2>6, OffersFinite, SumPart
  <2>9. balance[u] = Funds - SumFunctionOnSet(taken, mine) + SumFunction(back)
    BY <2>1, <2>4, <2>7, <2>8
  <2> QED
    BY <2>5, <2>9 DEF mine
<1> QED
  BY <1>1, <1>2 DEF PaidAsShown

LEMMA InitPaid == Init => PaidInv
<1> SUFFICES ASSUME Init PROVE PaidInv
  OBVIOUS
<1>1. Types /\ Funds \in Nat
  BY InitTypes, CheckoutAssumption
<1>2. \A x \in Offers : offer[x].status = "none" /\ orders[x] = <<>> /\ taken[x] = 0
  BY DEF Init, NoOffer
<1>3. QuoteTotals /\ RowsOfPurchases
  BY <1>2, QuotesAreOffers DEF QuoteTotals, RowsOfPurchases, Init
<1>4. ASSUME NEW x \in Offers PROVE OfferPaid(x) /\ Back(x) = 0
  <2>1. DOMAIN orders[x] = {} /\ DOMAIN Charges(x) = {} /\ Refunds(x) = {}
    BY <1>2 DEF Charges, Refunds
  <2>2. SumFunction(Charges(x)) = 0 /\ Back(x) = 0
    BY <2>1, SumOfNothing DEF SumFunction, Back
  <2> QED
    BY <1>2, <2>1, <2>2 DEF OfferPaid
<1>5. BalancesAgree
  <2> SUFFICES ASSUME NEW u \in Users
               PROVE  balance[u] = Funds
                        - SumFunctionOnSet([x \in Offers |-> TakenFrom(u, x)], Offers)
                        + SumFunctionOnSet([x \in Offers |-> BackTo(u, x)], Offers)
    BY DEF BalancesAgree
  <2> DEFINE f == [x \in Offers |-> TakenFrom(u, x)]
             g == [x \in Offers |-> BackTo(u, x)]
  <2>1. \A x \in Offers : f[x] = 0 /\ g[x] = 0
    BY <1>2, <1>4 DEF TakenFrom, BackTo
  <2>2. balance[u] = Funds
    BY DEF Init
  <2> HIDE DEF f, g
  <2>3. SumFunctionOnSet(f, Offers) = 0 /\ SumFunctionOnSet(g, Offers) = 0
    BY <2>1, OffersFinite, SumZero
  <2>4. balance[u] = Funds - SumFunctionOnSet(f, Offers) + SumFunctionOnSet(g, Offers)
    BY <1>1, <2>2, <2>3
  <2> QED
    BY <2>4 DEF f, g
<1> QED
  BY <1>1, <1>3, <1>4, <1>5 DEF PaidInv

\* What an offer took and gave back, when it stays the purchase it was.
LEMMA SamePayment ==
  ASSUME NEW x, taken'[x] = taken[x], orders'[x] = orders[x],
         \/ offer'[x] = offer[x]
         \/ taken[x] = 0 /\ orders[x] = <<>>
  PROVE  /\ Charges(x)' = Charges(x) /\ Back(x)' = Back(x)
         /\ \A u : TakenFrom(u, x)' = TakenFrom(u, x) /\ BackTo(u, x)' = BackTo(u, x)
<1>1. Charges(x)' = Charges(x) /\ Refunds(x)' = Refunds(x)
  BY DEF Charges, Refunds
<1>2. Back(x)' = Back(x)
  BY <1>1 DEF Back
<1>3. CASE offer'[x] = offer[x]
  BY <1>1, <1>2, <1>3 DEF TakenFrom, BackTo
<1>4. CASE taken[x] = 0 /\ orders[x] = <<>>
  <2>1. Refunds(x) = {}
    BY <1>4 DEF Refunds
  <2>2. Back(x) = 0
    BY <2>1, SumOfNothing DEF Back
  <2> QED
    BY <1>1, <1>2, <1>4, <2>2 DEF TakenFrom, BackTo
<1> QED
  BY <1>3, <1>4

LEMMA BalanceStays ==
  ASSUME BalancesAgree, NEW u \in Users, balance'[u] = balance[u],
         \A x \in Offers : TakenFrom(u, x)' = TakenFrom(u, x) /\ BackTo(u, x)' = BackTo(u, x)
  PROVE  balance'[u] = Funds - SumFunctionOnSet([x \in Offers |-> TakenFrom(u, x)'], Offers)
                             + SumFunctionOnSet([x \in Offers |-> BackTo(u, x)'], Offers)
<1>1. /\ [x \in Offers |-> TakenFrom(u, x)'] = [x \in Offers |-> TakenFrom(u, x)]
      /\ [x \in Offers |-> BackTo(u, x)'] = [x \in Offers |-> BackTo(u, x)]
  OBVIOUS
<1>2. balance[u] = Funds - SumFunctionOnSet([x \in Offers |-> TakenFrom(u, x)], Offers)
                         + SumFunctionOnSet([x \in Offers |-> BackTo(u, x)], Offers)
  BY DEF BalancesAgree
<1> QED
  BY <1>1, <1>2

LEMMA NoSalePaid ==
  ASSUME PaidInv, NoSale, UNCHANGED salesVars
  PROVE  RowsOfPurchases' /\ (\A x \in Offers : OfferPaid(x)') /\ BalancesAgree'
<1>1. Types /\ UNCHANGED <<orders, balance, taken, redeemed>>
  BY DEF PaidInv, salesVars
<1>2. RowsOfPurchases'
  <2>1. \A r \in redeemed : r.of \in Offers
    BY <1>1, SessionsAreNoQuotes DEF Types, RedemptionTypes, Redemption
  <2> QED
    BY <1>1, <2>1 DEF PaidInv, RowsOfPurchases, NoSale
<1>3. ASSUME NEW x \in Offers
      PROVE  \/ offer'[x] = offer[x]
             \/ /\ taken[x] = 0 /\ orders[x] = <<>> /\ taken'[x] = taken[x]
                /\ offer[x].status # "completed" /\ offer'[x].status # "completed"
  <2>1. offer[x].status # "completed" => orders[x] = <<>>
    BY <1>1 DEF Types, OrdersAreLines
  <2>2. offer[x].status # "completed" => taken[x] = 0
    BY DEF PaidInv, OfferPaid
  <2> QED
    BY <1>1, <2>1, <2>2 DEF NoSale
<1>4. ASSUME NEW x \in Offers PROVE OfferPaid(x)'
  <2>1. OfferPaid(x)
    BY DEF PaidInv
  <2>2. Charges(x)' = Charges(x) /\ GivesOf(x)' = GivesOf(x)
    BY <1>1 DEF Charges, GivesOf, RowsOf
  <2>3. CASE offer'[x] = offer[x]
    BY <1>1, <2>1, <2>2, <2>3 DEF OfferPaid
  <2>4. CASE /\ taken[x] = 0 /\ taken'[x] = taken[x]
             /\ offer[x].status # "completed" /\ offer'[x].status # "completed"
    BY <1>1, <2>1, <2>2, <2>4 DEF OfferPaid
  <2> QED
    BY <1>3, <2>3, <2>4
<1>5. BalancesAgree'
  <2>1. ASSUME NEW u \in Users, NEW x \in Offers
        PROVE  TakenFrom(u, x)' = TakenFrom(u, x) /\ BackTo(u, x)' = BackTo(u, x)
    BY <1>1, <1>3, SamePayment
  <2>2. ASSUME NEW u \in Users
        PROVE  balance'[u] = Funds - SumFunctionOnSet([x \in Offers |-> TakenFrom(u, x)'], Offers)
                                   + SumFunctionOnSet([x \in Offers |-> BackTo(u, x)'], Offers)
    BY <1>1, <2>1, BalanceStays DEF PaidInv
  <2> QED
    BY <2>2 DEF BalancesAgree
<1> QED
  BY <1>2, <1>4, <1>5

\* The offer is paid: its orders make up the total, and its redemptions what
\* the total is below the subtotal.
Bill(x) ==
  /\ offer[x].status = "pending"
  /\ \E charges :
       /\ Purchase(x, offer[x].total, charges)
       /\ \A l \in DOMAIN offer[x].lines : charges[l] \in Nat
       /\ SumFunctionOnSet(charges, DOMAIN offer[x].lines) = offer[x].total
  /\ GivesOf(x)' = Subtotal(offer[x].lines) - offer[x].total
  /\ \A y \in Offers \ {x} : RowsOf(y)' = RowsOf(y)
  /\ \A r \in redeemed' : r \in redeemed \/ r.of = x

\* A session redeems a campaign once, so no two applications are one row.
LEMMA RedemptionsGive ==
  ASSUME NEW s \in Sessions, NEW apps \in Seq(Given), Redeemable(s, apps)
  PROVE  SumFunction([r \in Redemptions(s, apps) |-> r.gives]) =
           SumFunctionOnSet([k \in DOMAIN apps |-> apps[k].gives], DOMAIN apps)
<1> DEFINE row(k) == [campaign |-> apps[k].campaign, voucher |-> apps[k].voucher,
                      user |-> OwnerOf[s], of |-> s, gives |-> apps[k].gives]
           rows == [k \in DOMAIN apps |-> row(k)]
           T == Redemptions(s, apps)
           f == [r \in T |-> r.gives]
           given == [k \in DOMAIN apps |-> apps[k].gives]
<1>1. T = {rows[k] : k \in DOMAIN apps} /\ rows \in [DOMAIN apps -> T]
  BY DEF Redemptions
<1>2. ASSUME NEW j \in DOMAIN apps, NEW k \in DOMAIN apps, rows[j] = rows[k] PROVE j = k
  <2>1. apps[j].campaign = apps[k].campaign
    BY <1>2
  <2>2. \A n \in DOMAIN apps : \A m \in 1 .. n - 1 : apps[m].campaign # apps[n].campaign
    BY DEF Redeemable
  <2>3. j \in Nat \ {0} /\ k \in Nat \ {0}
    OBVIOUS
  <2>4. ~(j < k)
    BY <2>1, <2>2, <2>3
  <2>5. ~(k < j)
    BY <2>1, <2>2, <2>3
  <2> QED
    BY <2>3, <2>4, <2>5
<1>3. \A k \in DOMAIN apps : given[k] = f[rows[k]] /\ given[k] \in Int
  <2> SUFFICES ASSUME NEW k \in DOMAIN apps PROVE given[k] = f[rows[k]] /\ given[k] \in Int
    OBVIOUS
  <2>1. apps[k] \in Given /\ rows[k] \in T
    BY <1>1
  <2>2. apps[k].gives \in Int
    BY <2>1 DEF Given
  <2>3. rows[k].gives = apps[k].gives
    OBVIOUS
  <2> HIDE DEF T, rows
  <2> QED
    BY <2>1, <2>2, <2>3
<1>4. IsFiniteSet(DOMAIN apps)
  BY FS_Interval
<1>5. SumFunction(f) = SumFunctionOnSet(f, T)
  BY DEF SumFunction
<1> HIDE DEF rows, T, f, given
<1>6. OneToOne(rows, DOMAIN apps, T)
  BY <1>1, <1>2 DEF OneToOne
<1>7. SumFunctionOnSet(f, T) = SumFunctionOnSet(given, DOMAIN apps)
  <2> DEFINE S == DOMAIN apps
  <2>1. IsFiniteSet(S) /\ OneToOne(rows, S, T) /\ \A k \in S : given[k] = f[rows[k]] /\ given[k] \in Int
    BY <1>3, <1>4, <1>6
  <2> HIDE DEF S
  <2>2. SumFunctionOnSet(f, T) = SumFunctionOnSet(given, S)
    BY <2>1, SumImage
  <2> QED
    BY <2>2 DEF S
<1> QED
  BY <1>5, <1>7 DEF f, given, T

LEMMA CommitBills ==
  ASSUME PaidInv, NEW s \in Sessions, CommitSession(s)
  PROVE  Bill(s)
<1> DEFINE o == offer[s]
           new == Evaluate(redeemed, live, o.user, o.lines, o.codes)
           prices == [l \in DOMAIN o.lines |-> LinePrice(o.lines[l])]
           charges == [l \in DOMAIN o.lines |-> LinePrice(o.lines[l]) - new.cuts[l]]
<1>1. s \in Offers /\ o \in Offer
  BY SessionsAreNoQuotes DEF PaidInv, Types, SaleTypes
<1>2. o.lines \in Seq(Line) /\ o.codes \in SUBSET Vouchers /\ o.total \in Nat /\ o.user \in Users
  BY <1>1 DEF Offer
<1>3. /\ o.status = "pending" /\ Purchase(s, o.total, charges)
      /\ redeemed' = redeemed \cup Redemptions(s, new.apps)
      /\ new.total = o.total /\ Redeemable(s, new.apps)
  BY DEF CommitSession, SameTerms
<1>4. /\ new.apps \in Seq(Given) /\ DOMAIN new.cuts = DOMAIN o.lines
      /\ \A l \in DOMAIN o.lines : new.cuts[l] \in Int /\ new.cuts[l] <= LinePrice(o.lines[l])
  <2>1. DOMAIN new.cuts = DOMAIN o.lines
    BY DEF Evaluate
  <2>2. new.apps \in Seq(Given)
    BY <1>2, EvaluateType
  <2>3. \A l \in DOMAIN o.lines : new.cuts[l] \in Int
    BY <1>2, EvaluateType
  <2>4. ASSUME NEW l \in DOMAIN o.lines PROVE new.cuts[l] <= LinePrice(o.lines[l])
    BY <1>2, EvaluateType
  <2> QED
    BY <2>1, <2>2, <2>3, <2>4
<1>5. new.total = SumFunction(charges)
  BY DEF Evaluate
<1>6. SumFunctionOnSet([k \in DOMAIN new.apps |-> new.apps[k].gives], DOMAIN new.apps) =
        SumFunctionOnSet(new.cuts, DOMAIN o.lines)
  BY <1>2, EvaluateAddsUp
<1> HIDE DEF new
<1>7. IsFiniteSet(DOMAIN o.lines) /\ \A l \in DOMAIN o.lines : LinePrice(o.lines[l]) \in Nat
  BY <1>2, LineTypes
<1>8. \A l \in DOMAIN o.lines : /\ prices[l] \in Int /\ new.cuts[l] \in Int
                                /\ charges[l] = prices[l] - new.cuts[l] /\ charges[l] \in Nat
  <2> SUFFICES ASSUME NEW l \in DOMAIN o.lines
               PROVE  /\ prices[l] \in Int /\ new.cuts[l] \in Int
                      /\ charges[l] = prices[l] - new.cuts[l] /\ charges[l] \in Nat
    OBVIOUS
  <2>1. LinePrice(o.lines[l]) \in Nat /\ new.cuts[l] \in Int /\ new.cuts[l] <= LinePrice(o.lines[l])
    BY <1>4, <1>7
  <2> QED
    BY <2>1
<1>9. SumFunction(charges) = SumFunctionOnSet(charges, DOMAIN o.lines)
  BY DEF SumFunction
<1>10. Subtotal(o.lines) = SumFunctionOnSet(prices, DOMAIN o.lines)
  BY DEF Subtotal, SumFunction
<1>11. RowsOf(s)' = Redemptions(s, new.apps)
  <2>1. RowsOf(s) = {}
    BY <1>3 DEF PaidInv, RowsOfPurchases, RowsOf
  <2>2. \A r \in Redemptions(s, new.apps) : r.of = s
    BY DEF Redemptions
  <2> QED
    BY <1>3, <2>1, <2>2 DEF RowsOf
<1>12. GivesOf(s)' = SumFunctionOnSet(new.cuts, DOMAIN o.lines)
  <2>1. GivesOf(s)' = SumFunction([r \in Redemptions(s, new.apps) |-> r.gives])
    BY <1>11 DEF GivesOf
  <2> QED
    BY <1>3, <1>4, <1>6, <2>1, RedemptionsGive
<1> HIDE DEF charges, prices
<1>13. SumFunctionOnSet(charges, DOMAIN o.lines) =
         SumFunctionOnSet(prices, DOMAIN o.lines) - SumFunctionOnSet(new.cuts, DOMAIN o.lines)
  BY <1>7, <1>8, SumMinus
<1>14. GivesOf(s)' = Subtotal(o.lines) - o.total
  <2>1. SumFunctionOnSet(prices, DOMAIN o.lines) \in Int /\ SumFunctionOnSet(new.cuts, DOMAIN o.lines) \in Int
    BY <1>7, <1>8, SumInt
  <2> QED
    BY <1>2, <1>3, <1>9, <1>10, <1>12, <1>13, <1>5, <2>1
<1>15. \A r \in Redemptions(s, new.apps) : r.of = s
  BY DEF Redemptions
<1>16. /\ \A y \in Offers \ {s} : RowsOf(y)' = RowsOf(y)
       /\ \A r \in redeemed' : r \in redeemed \/ r.of = s
  BY <1>3, <1>15 DEF RowsOf
<1>17. SumFunctionOnSet(charges, DOMAIN o.lines) = o.total
  BY <1>3, <1>9, <1>5
<1> QED
  BY <1>3, <1>8, <1>14, <1>16, <1>17 DEF Bill

LEMMA ConfirmBills ==
  ASSUME PaidInv, NEW q \in Quotes, ConfirmQuote(q)
  PROVE  Bill(q)
<1> DEFINE o == offer[q]
           charges == <<o.total>>
           prices == [l \in DOMAIN o.lines |-> LinePrice(o.lines[l])]
<1>1. /\ o.status = "pending" /\ Purchase(q, o.total, charges) /\ redeemed' = redeemed
  BY DEF ConfirmQuote
<1>2. DOMAIN o.lines = {1} /\ o.total \in Nat /\ q \in Offers
  BY <1>1, QuoteLine DEF PaidInv
<1>3. o.total = LinePrice(o.lines[1])
  BY <1>1 DEF PaidInv, QuoteTotals
<1>4. charges[1] = o.total /\ prices[1] = o.total
  BY <1>2, <1>3
<1>5. Subtotal(o.lines) = SumFunctionOnSet(prices, {1})
  BY <1>2 DEF Subtotal, SumFunction
<1>6. RowsOf(q)' = {}
  <2>1. \A r \in redeemed : r.of \in Sessions
    BY DEF PaidInv, Types, RedemptionTypes, Redemption
  <2>2. \A r \in redeemed : r.of # q
    BY <2>1, QuotesAreOffers
  <2> QED
    BY <1>1, <2>2 DEF RowsOf
<1>7. GivesOf(q)' = 0
  <2>1. GivesOf(q)' = SumFunctionOnSet([r \in {} |-> r.gives], {})
    BY <1>6 DEF GivesOf, SumFunction
  <2> QED
    BY <2>1, SumOfNothing
<1> HIDE DEF charges, prices
<1>8. SumFunctionOnSet(charges, {1}) = o.total /\ SumFunctionOnSet(prices, {1}) = o.total
  BY <1>2, <1>4, SumOfOne
<1>9. GivesOf(q)' = Subtotal(o.lines) - o.total
  BY <1>2, <1>5, <1>7, <1>8
<1>10. /\ \A y \in Offers \ {q} : RowsOf(y)' = RowsOf(y)
       /\ \A r \in redeemed' : r \in redeemed \/ r.of = q
  BY <1>1 DEF RowsOf
<1>11. \A l \in DOMAIN o.lines : charges[l] \in Nat
  BY <1>2, <1>4
<1> QED
  BY <1>1, <1>2, <1>8, <1>9, <1>10, <1>11 DEF Bill
LEMMA SubtotalType ==
  ASSUME NEW lines \in Seq(Line)
  PROVE  Subtotal(lines) \in Nat
<1> DEFINE prices == [l \in DOMAIN lines |-> LinePrice(lines[l])]
<1>1. IsFiniteSet(DOMAIN lines) /\ \A l \in DOMAIN lines : prices[l] \in Nat
  BY LineTypes
<1>2. Subtotal(lines) = SumFunctionOnSet(prices, DOMAIN lines)
  BY DEF Subtotal, SumFunction
<1> HIDE DEF prices
<1> QED
  BY <1>1, <1>2, SumNat

LEMMA BillEffect ==
  ASSUME PaidInv, NEW x \in Offers, Bill(x)
  PROVE  /\ OfferPaid(x)'
         /\ offer[x].user \in Users /\ offer[x].total \in Nat
         /\ taken[x] = 0 /\ orders[x] = <<>> /\ taken'[x] = offer[x].total
         /\ offer'[x].status = "completed" /\ offer'[x].user = offer[x].user
         /\ Back(x) = 0 /\ Back(x)' = 0
         /\ \A y \in Offers \ {x} : /\ offer'[y] = offer[y] /\ orders'[y] = orders[y]
                                    /\ taken'[y] = taken[y] /\ RowsOf(y)' = RowsOf(y)
         /\ balance' = [balance EXCEPT ![offer[x].user] = @ - offer[x].total]
<1> DEFINE lines == offer[x].lines
           total == offer[x].total
<1>1. PICK charges : /\ Purchase(x, total, charges)
                     /\ \A l \in DOMAIN lines : charges[l] \in Nat
                     /\ SumFunctionOnSet(charges, DOMAIN lines) = total
  BY DEF Bill
<1>2. /\ offer[x].status = "pending" /\ GivesOf(x)' = Subtotal(lines) - total
      /\ \A y \in Offers \ {x} : RowsOf(y)' = RowsOf(y)
  BY DEF Bill
<1>3. /\ Types /\ offer[x] \in Offer /\ lines \in Seq(Line) /\ total \in Nat
      /\ offer[x].user \in Users /\ taken \in [Offers -> Nat]
  BY DEF PaidInv, Types, SaleTypes, Offer
<1>4. /\ \A y \in Offers \ {x} : offer'[y] = offer[y] /\ orders'[y] = orders[y]
      /\ offer'[x] = [offer[x] EXCEPT !.status = "completed"]
      /\ orders[x] = <<>>
      /\ DOMAIN orders'[x] = DOMAIN lines
      /\ \A l \in DOMAIN lines : orders'[x][l] = [status |-> "placed", total |-> charges[l]]
  <2>1. Purchase(x, total, charges) /\ offer[x].status = "pending" /\ Types
    BY <1>1, <1>2, <1>3
  <2> QED
    BY ONLY <2>1, PurchaseEffect
<1>5. /\ offer'[x].status = "completed" /\ offer'[x].user = offer[x].user
      /\ offer'[x].lines = lines /\ offer'[x].total = total
  BY <1>3, <1>4 DEF Offer
<1>6. /\ balance' = [balance EXCEPT ![offer[x].user] = @ - total]
      /\ taken'[x] = total /\ \A y \in Offers \ {x} : taken'[y] = taken[y]
  BY <1>1, <1>3 DEF Purchase
<1>7. taken[x] = 0
  BY <1>2 DEF PaidInv, OfferPaid
<1>8. Back(x) = 0 /\ Back(x)' = 0
  <2>1. Refunds(x) = {}
    BY <1>4 DEF Refunds
  <2>2. \A l \in DOMAIN orders'[x] : orders'[x][l].status = "placed"
    <3> SUFFICES ASSUME NEW l \in DOMAIN orders'[x] PROVE orders'[x][l].status = "placed"
      OBVIOUS
    <3>1. orders'[x][l] = [status |-> "placed", total |-> charges[l]]
      BY <1>4
    <3> QED
      BY <3>1
  <2>3. Refunds(x)' = {}
    BY <2>2 DEF Refunds
  <2> QED
    BY <2>1, <2>3, SumOfNothing DEF Back
<1>9. \A l \in DOMAIN lines : orders'[x][l].total = charges[l]
  <2> SUFFICES ASSUME NEW l \in DOMAIN lines PROVE orders'[x][l].total = charges[l]
    OBVIOUS
  <2>1. orders'[x][l] = [status |-> "placed", total |-> charges[l]]
    BY <1>4
  <2> QED
    BY <2>1
<1>10. SumFunction(Charges(x))' = total
  <2> DEFINE asked == [l \in DOMAIN lines |-> orders'[x][l].total]
  <2>1. SumFunction(Charges(x))' = SumFunctionOnSet(asked, DOMAIN lines)
    BY <1>4 DEF Charges, SumFunction
  <2>2. IsFiniteSet(DOMAIN lines) /\ \A l \in DOMAIN lines : asked[l] = charges[l]
    BY <1>3, <1>9, LineTypes
  <2> HIDE DEF asked
  <2>3. SumFunctionOnSet(asked, DOMAIN lines) = SumFunctionOnSet(charges, DOMAIN lines)
    BY <2>2, SumSame
  <2> QED
    BY <1>1, <2>1, <2>3
<1>11. OfferPaid(x)'
  <2>1. \A l \in DOMAIN orders'[x] : orders'[x][l].total >= 0
    <3> SUFFICES ASSUME NEW l \in DOMAIN lines PROVE orders'[x][l].total >= 0
      BY <1>4
    <3>1. orders'[x][l].total \in Nat
      BY <1>1, <1>9
    <3> QED
      BY <3>1
  <2>2. Subtotal(lines) - GivesOf(x)' = total
    <3>1. Subtotal(lines) \in Int
      BY <1>3, SubtotalType
    <3> QED
      BY <1>2, <1>3, <3>1
  <2> QED
    BY <1>5, <1>6, <1>10, <2>1, <2>2 DEF OfferPaid
<1> QED
  BY <1>2, <1>3, <1>4, <1>5, <1>6, <1>7, <1>8, <1>11

LEMMA BillPaid ==
  ASSUME PaidInv, NEW x \in Offers, Bill(x)
  PROVE  RowsOfPurchases' /\ (\A y \in Offers : OfferPaid(y)') /\ BalancesAgree'
<1>0. Types
  BY DEF PaidInv
<1>1. RowsOfPurchases'
  <2> SUFFICES ASSUME NEW r \in redeemed' PROVE offer'[r.of].status = "completed"
    BY DEF RowsOfPurchases
  <2>1. r \in redeemed \/ r.of = x
    BY DEF Bill
  <2>2. CASE r.of = x
    BY <2>2, BillEffect
  <2>3. CASE r \in redeemed /\ r.of # x
    <3>1. r.of \in Sessions
      BY <1>0, <2>3 DEF Types, RedemptionTypes, Redemption
    <3>2. r.of \in Offers \ {x}
      BY <2>3, <3>1, SessionsAreNoQuotes
    <3>3. offer[r.of].status = "completed"
      BY <2>3 DEF PaidInv, RowsOfPurchases
    <3> QED
      BY <3>2, <3>3, BillEffect
  <2> QED
    BY <2>1, <2>2, <2>3
<1>2. ASSUME NEW y \in Offers PROVE OfferPaid(y)'
  <2>1. CASE y = x
    BY <2>1, BillEffect
  <2>2. CASE y # x
    <3>1. OfferPaid(y)
      BY DEF PaidInv
    <3>2. /\ offer'[y] = offer[y] /\ orders'[y] = orders[y]
          /\ taken'[y] = taken[y] /\ RowsOf(y)' = RowsOf(y)
      BY <2>2, BillEffect
    <3>3. Charges(y)' = Charges(y) /\ GivesOf(y)' = GivesOf(y)
      BY <3>2 DEF Charges, GivesOf
    <3> QED
      BY <3>1, <3>2, <3>3 DEF OfferPaid
  <2> QED
    BY <2>1, <2>2
<1>3. ASSUME NEW u \in Users, NEW y \in Offers, y # x \/ u # offer[x].user
      PROVE  TakenFrom(u, y)' = TakenFrom(u, y) /\ BackTo(u, y)' = BackTo(u, y)
  <2>1. CASE y # x
    <3>1. taken'[y] = taken[y] /\ orders'[y] = orders[y] /\ offer'[y] = offer[y]
      BY <2>1, BillEffect
    <3> QED
      BY <3>1, SamePayment
  <2>2. CASE y = x
    <3>1. u # offer[x].user /\ offer'[x].user = offer[x].user
      BY <1>3, <2>2, BillEffect
    <3> QED
      BY <2>2, <3>1 DEF TakenFrom, BackTo
  <2> QED
    BY <2>1, <2>2
<1>4. ASSUME NEW u \in Users
      PROVE  balance'[u] = Funds - SumFunctionOnSet([y \in Offers |-> TakenFrom(u, y)'], Offers)
                                 + SumFunctionOnSet([y \in Offers |-> BackTo(u, y)'], Offers)
  <2>1. CASE u # offer[x].user
    <3>1. balance'[u] = balance[u]
      BY <1>0, <2>1, BillEffect DEF Types, SaleTypes
    <3> QED
      BY <1>3, <2>1, <3>1, BalanceStays DEF PaidInv
  <2>2. CASE u = offer[x].user
    <3> DEFINE f == [y \in Offers |-> TakenFrom(u, y)]
               g == [y \in Offers |-> TakenFrom(u, y)']
               total == offer[x].total
    <3>1. f[x] = 0 /\ g[x] = total /\ total \in Nat
      BY <2>2, BillEffect DEF TakenFrom
    <3>2. BackTo(u, x) = BackTo(u, x)'
      BY BillEffect DEF BackTo
    <3>3. [y \in Offers |-> BackTo(u, y)'] = [y \in Offers |-> BackTo(u, y)]
      BY <1>3, <3>2
    <3>4. \A y \in Offers \ {x} : f[y] = g[y]
      BY <1>3
    <3>5. \A y \in Offers : f[y] \in Int
      BY <1>0 DEF TakenFrom, Types, SaleTypes
    <3>6. \A y \in Offers : f[y] \in Int /\ g[y] \in Int
      <4> HIDE DEF f, g, total
      <4> QED
        BY <3>1, <3>4, <3>5
    <3> DEFINE b == SumFunctionOnSet([y \in Offers |-> BackTo(u, y)], Offers)
    <3>7. balance[u] = Funds - SumFunctionOnSet(f, Offers) + b
      BY DEF PaidInv, BalancesAgree
    <3>8. b \in Int
      <4> DEFINE h == [y \in Offers |-> BackTo(u, y)]
      <4>1. \A y \in Offers : h[y] \in Int
        BY <1>0, ChargesType DEF BackTo, Types
      <4> HIDE DEF h
      <4>2. SumFunctionOnSet(h, Offers) \in Int
        BY <4>1, OffersFinite, SumInt
      <4> QED
        BY <4>2 DEF h
    <3>9. balance'[u] = balance[u] - total /\ Funds \in Nat
      BY <1>0, <2>2, BillEffect, CheckoutAssumption DEF Types, SaleTypes
    <3> HIDE DEF f, g, total, b
    <3>10. SumFunctionOnSet(g, Offers) = SumFunctionOnSet(f, Offers) - f[x] + g[x]
      BY <3>4, <3>6, OffersFinite, SumChange
    <3>11. SumFunctionOnSet(f, Offers) \in Int
      BY <3>6, OffersFinite, SumInt
    <3>12. balance'[u] = Funds - SumFunctionOnSet(g, Offers) + b
      BY <3>1, <3>7, <3>8, <3>9, <3>10, <3>11
    <3> QED
      BY <3>3, <3>12 DEF g, b
  <2> QED
    BY <2>1, <2>2
<1> QED
  BY <1>1, <1>2, <1>4 DEF BalancesAgree

LEMMA RefundPaid ==
  ASSUME PaidInv, NEW x \in Offers, NEW l \in DOMAIN orders[x], Refund(x, l)
  PROVE  RowsOfPurchases' /\ (\A y \in Offers : OfferPaid(y)') /\ BalancesAgree'
<1> DEFINE back == orders[x][l].total
<1>1. /\ Types /\ UNCHANGED <<offer, taken, redeemed>>
      /\ balance' = [balance EXCEPT ![offer[x].user] = @ + back]
  BY DEF PaidInv, Refund
<1>2. /\ orders[x][l] \in Order /\ orders[x][l].status = "placed"
      /\ \A y \in Offers \ {x} : orders'[y] = orders[y]
      /\ DOMAIN orders'[x] = DOMAIN orders[x]
      /\ \A m \in DOMAIN orders[x] \ {l} : orders'[x][m] = orders[x][m]
      /\ orders'[x][l] = [orders[x][l] EXCEPT !.status = "refunded"]
  BY <1>1, RefundEffect
<1>3. orders'[x][l].status = "refunded" /\ orders'[x][l].total = back /\ back \in Int
  BY <1>2 DEF Order
<1>4. ASSUME NEW y \in Offers
      PROVE  /\ DOMAIN orders'[y] = DOMAIN orders[y]
             /\ \A m \in DOMAIN orders[y] : orders'[y][m].total = orders[y][m].total
  <2>1. CASE y = x
    BY <1>2, <1>3, <2>1
  <2>2. CASE y # x
    BY <1>2, <2>2
  <2> QED
    BY <2>1, <2>2
<1> HIDE DEF back
<1>5. ASSUME NEW y \in Offers PROVE Charges(y)' = Charges(y)
  BY <1>4 DEF Charges
<1>6. ASSUME NEW y \in Offers PROVE OfferPaid(y)'
  <2>1. OfferPaid(y)
    BY DEF PaidInv
  <2>2. GivesOf(y)' = GivesOf(y)
    BY <1>1 DEF GivesOf, RowsOf
  <2> QED
    BY <1>1, <1>4, <1>5, <2>1, <2>2 DEF OfferPaid
<1>7. Back(x)' = back + Back(x) /\ Back(x) \in Int
  <2> DEFINE S == Refunds(x)
  <2>1. Refunds(x)' = S \cup {l} /\ l \notin S
    <3>1. l \notin S
      BY <1>2 DEF Refunds
    <3>2. \A m \in DOMAIN orders[x] :
            orders'[x][m].status = "refunded" <=> m = l \/ orders[x][m].status = "refunded"
      BY <1>2, <1>3
    <3>3. Refunds(x)' = {m \in DOMAIN orders[x] : orders'[x][m].status = "refunded"}
      BY <1>2 DEF Refunds
    <3> QED
      BY <3>1, <3>2, <3>3 DEF Refunds
  <2>2. /\ IsFiniteSet(S) /\ S \in SUBSET DOMAIN orders[x] /\ Back(x) \in Int
        /\ \A m \in DOMAIN orders[x] : Charges(x)[m] = orders[x][m].total /\ Charges(x)[m] \in Int
    BY <1>1, ChargesType DEF Types
  <2>3. \A m \in S \cup {l} : Charges(x)[m] \in Int
    BY <2>2
  <2>4. Charges(x)[l] = back
    BY <2>2 DEF back
  <2>5. Back(x) = SumFunctionOnSet(Charges(x), S) /\ Back(x)' = SumFunctionOnSet(Charges(x), S \cup {l})
    BY <1>5, <2>1 DEF Back
  <2> HIDE DEF S
  <2>6. SumFunctionOnSet(Charges(x), S \cup {l}) = Charges(x)[l] + SumFunctionOnSet(Charges(x), S)
    BY <2>1, <2>2, <2>3, SumAdd
  <2> QED
    BY <2>2, <2>4, <2>5, <2>6
<1>8. ASSUME NEW u \in Users, NEW y \in Offers
      PROVE  TakenFrom(u, y)' = TakenFrom(u, y)
  BY <1>1 DEF TakenFrom
<1>9. ASSUME NEW u \in Users, NEW y \in Offers, y # x \/ u # offer[x].user
      PROVE  BackTo(u, y)' = BackTo(u, y)
  <2>1. CASE y # x
    <3>1. taken'[y] = taken[y] /\ orders'[y] = orders[y] /\ offer'[y] = offer[y]
      BY <1>1, <1>2, <2>1
    <3> QED
      BY <3>1, SamePayment
  <2>2. CASE y = x
    BY <1>1, <1>9, <2>2 DEF BackTo
  <2> QED
    BY <2>1, <2>2
<1>10. ASSUME NEW u \in Users
       PROVE  balance'[u] = Funds - SumFunctionOnSet([y \in Offers |-> TakenFrom(u, y)'], Offers)
                                  + SumFunctionOnSet([y \in Offers |-> BackTo(u, y)'], Offers)
  <2>1. CASE u # offer[x].user
    <3>1. balance'[u] = balance[u]
      BY <1>1, <2>1 DEF Types, SaleTypes
    <3> QED
      BY <1>8, <1>9, <2>1, <3>1, BalanceStays DEF PaidInv
  <2>2. CASE u = offer[x].user
    <3> DEFINE f == [y \in Offers |-> BackTo(u, y)]
               g == [y \in Offers |-> BackTo(u, y)']
               t == [y \in Offers |-> TakenFrom(u, y)]
               paid == SumFunctionOnSet(t, Offers)
    <3>1. f[x] = Back(x) /\ g[x] = back + Back(x) /\ f[x] \in Int /\ g[x] \in Int
      BY <1>1, <1>3, <1>7, <2>2 DEF BackTo
    <3>2. [y \in Offers |-> TakenFrom(u, y)'] = t
      BY <1>8
    <3>3. \A y \in Offers \ {x} : f[y] = g[y]
      BY <1>9
    <3>4. \A y \in Offers : f[y] \in Int
      BY <1>1, ChargesType DEF BackTo, Types
    <3>5. \A y \in Offers : f[y] \in Int /\ g[y] \in Int
      <4> HIDE DEF f, g
      <4> QED
        BY <3>1, <3>3, <3>4
    <3>6. balance[u] = Funds - paid + SumFunctionOnSet(f, Offers)
      BY DEF PaidInv, BalancesAgree
    <3>7. paid \in Int
      <4>1. \A y \in Offers : t[y] \in Int
        BY <1>1 DEF TakenFrom, Types, SaleTypes
      <4> HIDE DEF t
      <4> QED
        BY <4>1, OffersFinite, SumInt
    <3>8. balance'[u] = balance[u] + back /\ Funds \in Nat
      BY <1>1, <2>2, CheckoutAssumption DEF Types, SaleTypes
    <3> HIDE DEF f, g, paid
    <3>9. SumFunctionOnSet(g, Offers) = SumFunctionOnSet(f, Offers) - f[x] + g[x]
      BY <3>3, <3>5, OffersFinite, SumChange
    <3>10. SumFunctionOnSet(f, Offers) \in Int
      BY <3>5, OffersFinite, SumInt
    <3>11. balance'[u] = Funds - paid + SumFunctionOnSet(g, Offers)
      BY <1>3, <1>7, <3>1, <3>6, <3>7, <3>8, <3>9, <3>10
    <3> QED
      BY <3>2, <3>11 DEF g, paid
  <2> QED
    BY <2>1, <2>2
<1>11. RowsOfPurchases'
  BY <1>1 DEF PaidInv, RowsOfPurchases
<1> QED
  BY <1>6, <1>10, <1>11 DEF BalancesAgree

\* A quote shows the price of its line as long as it can be confirmed.
LEMMA QuoteStep ==
  ASSUME Types, QuoteTotals, NEW x \in Offers, NEW to, offer' = [offer EXCEPT ![x] = to],
         x \in Quotes /\ to.status = "pending" => to.total = LinePrice(to.lines[1])
  PROVE  QuoteTotals'
<1>1. offer'[x] = to /\ \A y \in Offers \ {x} : offer'[y] = offer[y]
  BY DEF Types, SaleTypes
<1> QED
  BY <1>1, QuotesAreOffers DEF QuoteTotals

LEMMA QuotesKept ==
  ASSUME PaidInv, Next
  PROVE  QuoteTotals'
<1>1. Types /\ QuoteTotals
  BY DEF PaidInv
<1>2. ASSUME offer' = offer PROVE QuoteTotals'
  BY <1>1, <1>2 DEF QuoteTotals
<1>3. ASSUME NEW x \in Offers, Bill(x) PROVE QuoteTotals'
  <2>1. offer'[x].status = "completed" /\ \A y \in Offers \ {x} : offer'[y] = offer[y]
    BY <1>3, BillEffect
  <2> QED
    BY <1>1, <2>1, QuotesAreOffers DEF QuoteTotals
<1>4. ASSUME NEW s \in Sessions, CommitSession(s) PROVE QuoteTotals'
  BY <1>3, <1>4, CommitBills, SessionsAreNoQuotes
<1>5. ASSUME NEW q \in Quotes, ConfirmQuote(q) PROVE QuoteTotals'
  BY <1>3, <1>5, ConfirmBills, QuotesAreOffers
<1>6. ASSUME NEW d \in drafts, CreateSession(d) PROVE QuoteTotals'
  <2>1. d.key \in Offers /\ d.key \notin Quotes
    BY <1>1, SessionsAreNoQuotes DEF Types, DraftTypes
  <2>2. offer' = offer \/ \E to : offer' = [offer EXCEPT ![d.key] = to]
    BY <1>6 DEF CreateSession
  <2> QED
    BY <1>1, <1>2, <2>1, <2>2, QuoteStep
<1>7. ASSUME NEW q \in Quotes, NEW u, NEW p, NEW n, CreateQuote(q, u, p, n) PROVE QuoteTotals'
  <2> DEFINE line == [product |-> p, server |-> QuoteServer, quantity |-> n, price |-> price[p]]
             shown == [status |-> "pending", user |-> u, lines |-> <<line>>,
                       codes |-> {}, total |-> LinePrice(line)]
  <2>1. offer' = [offer EXCEPT ![q] = shown] /\ q \in Offers
    BY <1>7, QuotesAreOffers DEF CreateQuote
  <2>2. shown.total = LinePrice(shown.lines[1])
    OBVIOUS
  <2> HIDE DEF shown
  <2> QED
    BY <1>1, <2>1, <2>2, QuoteStep
<1>8. ASSUME NEW x \in Offers, Expire(x) PROVE QuoteTotals'
  <2> DEFINE shown == [NoOffer EXCEPT !.status = "expired"]
  <2>1. offer' = [offer EXCEPT ![x] = shown]
    BY <1>8 DEF Expire
  <2>2. shown.status = "expired"
    BY DEF NoOffer
  <2> HIDE DEF shown
  <2> QED
    BY <1>1, <2>1, <2>2, QuoteStep
<1>9. ASSUME NEW x, NEW l, Refund(x, l) PROVE offer' = offer
  BY <1>9 DEF Refund
<1>10. ASSUME NEW p, NEW n, EditStock(p, n) PROVE offer' = offer
  BY <1>10 DEF EditStock, Change
<1>11. ASSUME NEW s, NEW codes, Draft(s, codes) PROVE offer' = offer
  BY <1>11 DEF Draft
<1> QED
  BY <1>1, <1>2, <1>4, <1>5, <1>6, <1>7, <1>8, <1>9, <1>10, <1>11, CartStep, ShopStepTypes DEF
     Next

LEMMA NextPaid == PaidInv /\ [Next]_vars => PaidInv'
<1> SUFFICES ASSUME PaidInv, [Next]_vars PROVE PaidInv'
  OBVIOUS
<1>1. Types /\ Types'
  BY NextTypes DEF PaidInv
<1>2. CASE UNCHANGED vars
  <2>1. NoSale /\ UNCHANGED salesVars /\ QuoteTotals'
    BY <1>2 DEF vars, salesVars, NoSale, PaidInv, QuoteTotals
  <2> QED
    BY <1>1, <2>1, NoSalePaid DEF PaidInv
<1>3. CASE Next
  <2>1. ASSUME NoSale, UNCHANGED salesVars
        PROVE  RowsOfPurchases' /\ (\A y \in Offers : OfferPaid(y)') /\ BalancesAgree'
    BY <2>1, NoSalePaid
  <2>2. ASSUME NEW p, NEW n, EditStock(p, n)
        PROVE  NoSale /\ UNCHANGED salesVars
    BY <2>2 DEF EditStock, Change, NoSale, salesVars
  <2>3. ASSUME NEW s \in Sessions, CommitSession(s)
        PROVE  RowsOfPurchases' /\ (\A y \in Offers : OfferPaid(y)') /\ BalancesAgree'
    BY <2>3, CommitBills, BillPaid, SessionsAreNoQuotes
  <2>4. ASSUME NEW q \in Quotes, ConfirmQuote(q)
        PROVE  RowsOfPurchases' /\ (\A y \in Offers : OfferPaid(y)') /\ BalancesAgree'
    BY <2>4, ConfirmBills, BillPaid, QuotesAreOffers
  <2>5. ASSUME NEW x \in Offers, NEW l \in DOMAIN orders[x], Refund(x, l)
        PROVE  RowsOfPurchases' /\ (\A y \in Offers : OfferPaid(y)') /\ BalancesAgree'
    BY <2>5, RefundPaid
  <2>6. RowsOfPurchases' /\ (\A y \in Offers : OfferPaid(y)') /\ BalancesAgree'
    BY <1>1, <1>3, <2>1, <2>2, <2>3, <2>4, <2>5, StepKinds
  <2>7. QuoteTotals'
    BY <1>3, QuotesKept
  <2> QED
    BY <1>1, <2>6, <2>7 DEF PaidInv
<1> QED
  BY <1>2, <1>3

\* A purchase takes the total the buyer was shown, once, whatever changed
\* between the two; its orders make it up, its redemptions are what it lies
\* below the subtotal, and a balance is what was not spent or came back.
THEOREM PaidIsAsShown == Spec => []PaidAsShown
<1>1. Spec => []PaidInv
  BY InitPaid, NextPaid, PTL DEF Spec
<1> QED
  BY <1>1, PaidMeans, PTL
=============================================================================
