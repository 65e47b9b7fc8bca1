-------------------------- MODULE BlockLedgerProofs --------------------------
(***************************************************************************)
(* The operations that Rosetta serves for a block are the changes that its *)
(* transactions made, for any keys, amounts, balances and length of the    *)
(* block.  The invariant says of each transaction, apart from all others,  *)
(* that its operations and the ledgers before and after it agree whatever  *)
(* else the block spends; that the amounts of coins are found again is a   *)
(* fact about the keys of all coins of the block.                          *)
(***************************************************************************)
EXTENDS BlockLedger, FoldLemmas

Ops   == [account : Accounts, type : {"INPUT", "OUTPUT"}, value : Int]
Moves == [account : Accounts, value : Int]

\* One sequence after another: a name for what equations leave closed.
Cat(s, t) == s \o t

-----------------------------------------------------------------------------
(* The values of a sequence, added up by account.                           *)

Entry(x, a) == IF x.account = a THEN x.value ELSE 0
Entries(s, a) == [i \in DOMAIN s |-> Entry(s[i], a)]

LEMMA ValueOfEntries ==
  ASSUME NEW s, NEW a
  PROVE  ValueOf(s, a) = SumFunction(Entries(s, a))
BY DEF ValueOf, Entries, Entry

LEMMA EntriesType ==
  ASSUME NEW A, \A x \in A : x.value \in Int, NEW s \in Seq(A), NEW a
  PROVE  /\ Entries(s, a) \in Seq(Int) /\ Len(Entries(s, a)) = Len(s)
         /\ \A i \in 1..Len(s) : Entries(s, a)[i] = Entry(s[i], a)
<1>1. \A i \in 1..Len(s) : s[i] \in A /\ Entry(s[i], a) \in Int
  BY DEF Entry
<1>2. DOMAIN s = 1..Len(s) /\ Len(s) \in Nat
  OBVIOUS
<1> QED BY <1>1, <1>2 DEF Entries

LEMMA ValueOfConcat ==
  ASSUME NEW A, \A x \in A : x.value \in Int,
         NEW s \in Seq(A), NEW t \in Seq(A), NEW a
  PROVE  /\ ValueOf(s, a) \in Int /\ ValueOf(t, a) \in Int
         /\ ValueOf(Cat(s, t), a) = ValueOf(s, a) + ValueOf(t, a)
<1> DEFINE e == Entries(s, a)
           f == Entries(t, a)
           g == Entries(s \o t, a)
<1>0. /\ s \o t \in Seq(A) /\ Len(s \o t) = Len(s) + Len(t)
      /\ Len(s) \in Nat /\ Len(t) \in Nat
      /\ \A i \in 1..Len(s) : (s \o t)[i] = s[i]
      /\ \A i \in 1..Len(t) : (s \o t)[Len(s) + i] = t[i]
  OBVIOUS
<1>1. /\ e \in Seq(Int) /\ f \in Seq(Int) /\ g \in Seq(Int)
      /\ Len(e) = Len(s) /\ Len(f) = Len(t) /\ Len(g) = Len(s) + Len(t)
  <2>1. e \in Seq(Int) /\ Len(e) = Len(s)
    BY EntriesType
  <2>2. f \in Seq(Int) /\ Len(f) = Len(t)
    BY EntriesType
  <2>3. g \in Seq(Int) /\ Len(g) = Len(s \o t)
    BY <1>0, EntriesType
  <2> HIDE DEF e, f, g
  <2> QED BY <1>0, <2>1, <2>2, <2>3
<1>2. /\ \A i \in 1..Len(s) : e[i] = Entry(s[i], a)
      /\ \A i \in 1..Len(t) : f[i] = Entry(t[i], a)
      /\ \A i \in 1..Len(s) + Len(t) : g[i] = Entry((s \o t)[i], a)
  <2>1. \A i \in 1..Len(s) : e[i] = Entry(s[i], a)
    BY EntriesType
  <2>2. \A i \in 1..Len(t) : f[i] = Entry(t[i], a)
    BY EntriesType
  <2>3. \A i \in 1..Len(s \o t) : g[i] = Entry((s \o t)[i], a)
    BY <1>0, EntriesType
  <2> HIDE DEF e, f, g
  <2> QED BY <1>0, <2>1, <2>2, <2>3
<1> HIDE DEF e, f, g
<1>3. g = e \o f
  <2>1. /\ e \o f \in Seq(Int) /\ Len(e \o f) = Len(e) + Len(f)
        /\ \A i \in 1..Len(e) : (e \o f)[i] = e[i]
        /\ \A i \in 1..Len(f) : (e \o f)[Len(e) + i] = f[i]
    <3>1. e \in Seq(Int) /\ f \in Seq(Int)
      BY <1>1
    <3> QED BY <3>1
  <2>2. ASSUME NEW i \in 1..Len(s) + Len(t)
        PROVE  (e \o f)[i] = g[i]
    <3>1. CASE i \in 1..Len(s)
      BY <1>0, <1>1, <1>2, <2>1, <3>1
    <3>2. CASE i \notin 1..Len(s)
      <4>1. i - Len(s) \in 1..Len(t) /\ i = Len(s) + (i - Len(s))
        BY <1>0, <3>2
      <4>2. (e \o f)[i] = f[i - Len(s)]
        BY <1>1, <2>1, <4>1
      <4>3. (s \o t)[i] = t[i - Len(s)]
        BY <1>0, <4>1
      <4> QED BY <1>2, <4>1, <4>2, <4>3
    <3> QED BY <3>1, <3>2
  <2> DEFINE h == e \o f
  <2>3. h \in Seq(Int) /\ g \in Seq(Int) /\ Len(h) = Len(g)
        /\ \A i \in 1..Len(h) : h[i] = g[i]
    BY <1>1, <2>1, <2>2
  <2> HIDE DEF h
  <2>4. g = h
    <3>1. g = [i \in 1..Len(g) |-> g[i]] /\ h = [i \in 1..Len(h) |-> h[i]]
      BY <2>3
    <3> QED BY <2>3, <3>1
  <2> QED BY <2>4 DEF h
<1>4. /\ ValueOf(s, a) = SumFunction(e) /\ ValueOf(t, a) = SumFunction(f)
      /\ ValueOf(s \o t, a) = SumFunction(g)
  BY ValueOfEntries DEF e, f, g
<1>5. /\ SumFunction(e) \in Int /\ SumFunction(f) \in Int
      /\ SumFunction(e \o f) = SumFunction(e) + SumFunction(f)
  BY <1>1, SumOfConcat
<1> QED BY <1>3, <1>4, <1>5, Zenon DEF Cat

LEMMA ValueOfEmpty ==
  ASSUME NEW a
  PROVE  ValueOf(<<>>, a) = 0
<1>1. DOMAIN Entries(<<>>, a) = {}
  BY DEF Entries
<1> QED BY <1>1, ValueOfEntries, SumEmpty, Zenon DEF SumFunction

LEMMA ValueOfOne ==
  ASSUME NEW x, x.value \in Int, NEW a
  PROVE  ValueOf(<< x >>, a) = Entry(x, a)
<1> DEFINE e == Entries(<< x >>, a)
<1>1. DOMAIN e = {1} /\ e[1] = Entry(x, a) /\ Entry(x, a) \in Int
  BY DEF Entries, Entry
<1> HIDE DEF e
<1>2. SumFunctionOnSet(e, {1}) = e[1]
  <2>1. IsFiniteSet({1})
    BY FS_Singleton
  <2> QED BY <1>1, <2>1, SumOfOne
<1> QED BY <1>1, <1>2, ValueOfEntries, Zenon DEF SumFunction, e

LEMMA ValueOfTwo ==
  ASSUME NEW x, x.value \in Int, NEW y, y.value \in Int, NEW a
  PROVE  ValueOf(<< x, y >>, a) = Entry(x, a) + Entry(y, a)
<1> DEFINE A == {x, y}
           s == << x >>
           t == << y >>
<1>1. s \in Seq(A) /\ t \in Seq(A) /\ \A z \in A : z.value \in Int
  OBVIOUS
<1>2. << x, y >> = Cat(s, t)
  BY DEF Cat
<1>3. ValueOf(s, a) = Entry(x, a) /\ ValueOf(t, a) = Entry(y, a)
  BY ValueOfOne
<1> HIDE DEF A, s, t
<1>4. ValueOf(Cat(s, t), a) = ValueOf(s, a) + ValueOf(t, a)
  BY <1>1, ValueOfConcat
<1> QED BY <1>2, <1>3, <1>4, Zenon

\* The values depend on the accounts and values only.
LEMMA ValueOfSame ==
  ASSUME NEW s, NEW t, DOMAIN s = DOMAIN t, NEW a,
         \A i \in DOMAIN s : s[i].account = t[i].account /\ s[i].value = t[i].value
  PROVE  ValueOf(s, a) = ValueOf(t, a)
<1>1. Entries(s, a) = Entries(t, a)
  BY DEF Entries, Entry
<1> QED BY <1>1, ValueOfEntries, Zenon

LEMMA ValueOfNone ==
  ASSUME NEW s, IsFiniteSet(DOMAIN s), NEW a, \A i \in DOMAIN s : s[i].account # a
  PROVE  ValueOf(s, a) = 0
<1>1. DOMAIN Entries(s, a) = DOMAIN s
      /\ \A i \in DOMAIN s : Entries(s, a)[i] = 0
  BY DEF Entries, Entry
<1> QED BY <1>1, SumZero, ValueOfEntries, Zenon DEF SumFunction

-----------------------------------------------------------------------------
(* UTXO operations by type.                                                 *)

IsSeq(s) == s \in Seq(ToSet(s))

LEMMA SeqIsSeq ==
  ASSUME NEW A, NEW s \in Seq(A)
  PROVE  IsSeq(s) /\ ToSet(s) \subseteq A
BY DEF IsSeq, ToSet

LEMMA IsSeqFacts ==
  ASSUME NEW s, IsSeq(s)
  PROVE  /\ Len(s) \in Nat /\ DOMAIN s = 1..Len(s)
         /\ \A i \in 1..Len(s) : s[i] \in ToSet(s)
         /\ \A x \in ToSet(s) : \E i \in 1..Len(s) : s[i] = x
         /\ \A A : ToSet(s) \subseteq A => s \in Seq(A)
BY DEF IsSeq, ToSet

LEMMA ConcatIsSeq ==
  ASSUME NEW s, IsSeq(s), NEW t, IsSeq(t)
  PROVE  /\ IsSeq(Cat(s, t)) /\ ToSet(Cat(s, t)) = ToSet(s) \cup ToSet(t)
         /\ Len(Cat(s, t)) = Len(s) + Len(t)
         /\ \A i \in 1..Len(s) : Cat(s, t)[i] = s[i]
         /\ \A i \in 1..Len(t) : Cat(s, t)[Len(s) + i] = t[i]
<1> DEFINE A == ToSet(s) \cup ToSet(t)
           u == s \o t
<1>1. s \in Seq(A) /\ t \in Seq(A)
  BY IsSeqFacts
<1> HIDE DEF A
<1>2. /\ u \in Seq(A) /\ Len(u) = Len(s) + Len(t)
      /\ Len(s) \in Nat /\ Len(t) \in Nat
      /\ \A i \in 1..Len(s) : u[i] = s[i]
      /\ \A i \in 1..Len(t) : u[Len(s) + i] = t[i]
  BY <1>1
<1> HIDE DEF u
<1>3. ToSet(u) \subseteq A /\ IsSeq(u)
  BY <1>2, SeqIsSeq
<1>4. ASSUME NEW x \in A
      PROVE  x \in ToSet(u)
  <2>1. CASE x \in ToSet(s)
    <3>1. PICK i \in 1..Len(s) : s[i] = x
      BY <2>1, IsSeqFacts
    <3>2. i \in 1..Len(u) /\ u[i] = x
      BY <1>2, <3>1
    <3> QED BY <1>3, <3>2, IsSeqFacts
  <2>2. CASE x \in ToSet(t)
    <3>1. PICK i \in 1..Len(t) : t[i] = x
      BY <2>2, IsSeqFacts
    <3>2. Len(s) + i \in 1..Len(u) /\ u[Len(s) + i] = x
      BY <1>2, <3>1
    <3> QED BY <1>3, <3>2, IsSeqFacts
  <2> QED BY <2>1, <2>2 DEF A
<1>5. ToSet(u) = A
  BY <1>3, <1>4
<1> QED BY <1>2, <1>3, <1>5 DEF u, A, Cat

\* What is selected of a sequence, of two, and of one that has nothing of it.
LEMMA SelectedConcat ==
  ASSUME NEW s, IsSeq(s), NEW t, IsSeq(t), NEW S
  PROVE  /\ IsSeq(Selection(s, S \cap ToSet(s)))
         /\ IsSeq(Selection(t, S \cap ToSet(t)))
         /\ Selection(Cat(s, t), S \cap ToSet(Cat(s, t)))
              = Cat(Selection(s, S \cap ToSet(s)), Selection(t, S \cap ToSet(t)))
<1> DEFINE A == ToSet(s) \cup ToSet(t)
           P == S \cap ToSet(Cat(s, t))
           Q == S \cap ToSet(s)
           R == S \cap ToSet(t)
<1>1. s \in Seq(A) /\ t \in Seq(A)
  BY IsSeqFacts
<1>2. \A i \in 1..Len(s) : s[i] \in P <=> s[i] \in Q
  BY IsSeqFacts, ConcatIsSeq
<1>3. \A i \in 1..Len(t) : t[i] \in P <=> t[i] \in R
  BY IsSeqFacts, ConcatIsSeq
<1> HIDE DEF A, P, Q, R
<1>4. /\ Selection(s, Q) \in Seq(A) /\ Selection(t, R) \in Seq(A)
      /\ Selection(s \o t, P) = Selection(s, Q) \o Selection(t, R)
  BY <1>1, <1>2, <1>3, SelectionOfConcat
<1>5. Selection(Cat(s, t), P) = Cat(Selection(s, Q), Selection(t, R))
  BY <1>4 DEF Cat
<1> QED BY <1>4, <1>5, SeqIsSeq DEF P, Q, R

LEMMA SelectedAll ==
  ASSUME NEW s, IsSeq(s), NEW S, ToSet(s) \subseteq S
  PROVE  Selection(s, S) = s
<1>1. s \in Seq(ToSet(s)) /\ \A i \in 1..Len(s) : s[i] \in S
  BY IsSeqFacts DEF IsSeq
<1> QED BY <1>1, SelectionOfAll

LEMMA SelectedNone ==
  ASSUME NEW s, IsSeq(s), NEW S, ToSet(s) \cap S = {}
  PROVE  Selection(s, S) = <<>>
<1>1. Selection(s, S) \in Seq(ToSet(s) \cap S)
  BY SelectionType DEF IsSeq
<1>2. \A u \in Seq({}) : u = <<>>
  OBVIOUS
<1> QED BY <1>1, <1>2

OfTypes(s, types) == {u \in ToSet(s) : u.type \in types}

LEMMA OfTypeConcat ==
  ASSUME NEW s, IsSeq(s), NEW t, IsSeq(t), NEW types
  PROVE  /\ IsSeq(OfType(s, types)) /\ IsSeq(OfType(t, types))
         /\ OfType(Cat(s, t), types) = Cat(OfType(s, types), OfType(t, types))
<1> DEFINE S == OfTypes(s, types) \cup OfTypes(t, types)
<1>1. /\ OfTypes(Cat(s, t), types) = S \cap ToSet(Cat(s, t))
      /\ OfTypes(s, types) = S \cap ToSet(s)
      /\ OfTypes(t, types) = S \cap ToSet(t)
  <2>1. ToSet(Cat(s, t)) = ToSet(s) \cup ToSet(t)
    BY ConcatIsSeq
  <2> QED BY <2>1 DEF OfTypes
<1>2. /\ OfType(s, types) = Selection(s, OfTypes(s, types))
      /\ OfType(t, types) = Selection(t, OfTypes(t, types))
      /\ OfType(Cat(s, t), types) = Selection(Cat(s, t), OfTypes(Cat(s, t), types))
  BY DEF OfType, OfTypes
<1> HIDE DEF S
<1>3. /\ IsSeq(Selection(s, S \cap ToSet(s)))
      /\ IsSeq(Selection(t, S \cap ToSet(t)))
      /\ Selection(Cat(s, t), S \cap ToSet(Cat(s, t)))
           = Cat(Selection(s, S \cap ToSet(s)), Selection(t, S \cap ToSet(t)))
  BY SelectedConcat
<1> QED BY <1>1, <1>2, <1>3, Zenon

LEMMA OfTypeAll ==
  ASSUME NEW s, IsSeq(s), NEW types, \A u \in ToSet(s) : u.type \in types
  PROVE  OfType(s, types) = s
<1>1. OfType(s, types) = Selection(s, OfTypes(s, types))
  BY DEF OfType, OfTypes
<1>2. ToSet(s) \subseteq OfTypes(s, types)
  BY DEF OfTypes
<1> QED BY <1>1, <1>2, SelectedAll

LEMMA OfTypeNone ==
  ASSUME NEW s, IsSeq(s), NEW types, \A u \in ToSet(s) : u.type \notin types
  PROVE  OfType(s, types) = <<>>
<1>1. OfType(s, types) = Selection(s, OfTypes(s, types))
  BY DEF OfType, OfTypes
<1>2. ToSet(s) \cap OfTypes(s, types) = {}
  BY DEF OfTypes
<1> QED BY <1>1, <1>2, SelectedNone

-----------------------------------------------------------------------------
(* A set as a sequence, and the value of coins.                             *)

LEMMA SetToSeqRenames ==
  ASSUME NEW S, IsFiniteSet(S)
  PROVE  /\ SetToSeq(S) \in Seq(S) /\ Len(SetToSeq(S)) = Cardinality(S)
         /\ Renames(SetToSeq(S), 1..Len(SetToSeq(S)), S)
<1> DEFINE n == Cardinality(S)
           s == SetToSeq(S)
<1>1. n \in Nat /\ ExistsBijection(1..n, S)
  BY FS_CardinalityType
<1>2. \E f \in [1..n -> S] : IsInjective(f)
  BY <1>1 DEF ExistsBijection, Bijection, Injection, IsInjective
<1>3. s \in [1..n -> S] /\ IsInjective(s)
  BY <1>2 DEF SetToSeq
<1> HIDE DEF s
<1>4. s \in Injection(1..n, S)
  BY <1>3 DEF Injection
<1>5. IsFiniteSet(1..n) /\ Cardinality(1..n) = n
  BY <1>1, FS_Interval
<1>6. s \in Surjection(1..n, S)
  BY <1>4, <1>5, FS_Injection
<1> HIDE DEF n
<1>7. s \in Seq(S) /\ Len(s) = n
  BY <1>1, <1>3
<1>8. Renames(s, 1..n, S)
  BY <1>3, <1>6 DEF Surjection, IsInjective, Renames
<1> QED BY <1>7, <1>8 DEF s, n

\* A sequence of one negative entry for each coin of the key k.
LEMMA CoinsValue ==
  ASSUME NEW k, NEW coins, IsFiniteSet(coins),
         \A c \in coins : c.publicKey = k /\ c.amount \in Int,
         NEW ops, DOMAIN ops = DOMAIN SetToSeq(coins),
         \A i \in DOMAIN ops : /\ ops[i].account = Main(k)
                               /\ ops[i].value = -SetToSeq(coins)[i].amount,
         NEW a
  PROVE  /\ AmountOf(coins) \in Int
         /\ ValueOf(ops, a) = Entry(Move(Main(k), -AmountOf(coins)), a)
<1> DEFINE s == SetToSeq(coins)
           N == 1..Len(s)
           am == [c \in coins |-> c.amount]
           neg == [c \in coins |-> -c.amount]
           e == Entries(ops, a)
<1>1. s \in Seq(coins) /\ Len(s) \in Nat /\ Renames(s, N, coins)
  BY SetToSeqRenames
<1>2. IsFiniteSet(N) /\ DOMAIN ops = N /\ \A i \in N : s[i] \in coins
  BY <1>1, FS_Interval
<1>3. AmountOf(coins) \in Int /\ AmountOf(coins) = SumFunctionOnSet(am, coins)
  <2>1. \A c \in coins : am[c] \in Int
    OBVIOUS
  <2>2. AmountOf(coins) = SumFunctionOnSet(am, coins)
    BY DEF AmountOf, SumFunction
  <2> HIDE DEF am
  <2> QED BY <2>1, <2>2, SumType
<1>4. ValueOf(ops, a) = SumFunctionOnSet(e, N)
  BY <1>2, ValueOfEntries DEF SumFunction, Entries
<1>5. CASE a = Main(k)
  <2>1. \A i \in N : e[i] = neg[s[i]] /\ e[i] \in Int
    BY <1>2, <1>5 DEF Entries, Entry
  <2>2. \A c \in coins : am[c] \in Int /\ neg[c] = -am[c]
    OBVIOUS
  <2> HIDE DEF am, neg, e, s, N
  <2>3. SumFunctionOnSet(e, N) = SumFunctionOnSet(neg, coins)
    BY <1>1, <1>2, <2>1, SumRenamed
  <2>4. SumFunctionOnSet(neg, coins) = -SumFunctionOnSet(am, coins)
    BY <2>2, SumNegative
  <2> QED BY <1>3, <1>4, <1>5, <2>3, <2>4 DEF Entry, Move
<1>6. CASE a # Main(k)
  <2>1. \A i \in DOMAIN ops : ops[i].account # a
    BY <1>6
  <2>2. ValueOf(ops, a) = 0
    BY <1>2, <2>1, ValueOfNone
  <2> QED BY <1>3, <1>6, <2>2 DEF Entry, Move
<1> QED BY <1>3, <1>5, <1>6

-----------------------------------------------------------------------------
(* The squashed operations have the same values.                            *)

LEMMA SquashValue ==
  ASSUME NEW ops \in Seq(Ops)
  PROVE  /\ squashOperations(ops) \in Seq(Ops)
         /\ \A a : ValueOf(squashOperations(ops), a) = ValueOf(ops, a)
<1> DEFINE n == Len(ops)
           first == {i \in DOMAIN ops :
                       \A j \in 1..i - 1 : ops[j].account # ops[i].account}
           sel == Selection([i \in 1..n |-> i], first)
           m == Len(sel)
           sq == squashOperations(ops)
<1>1. /\ n \in Nat /\ DOMAIN ops = 1..n /\ first = (1..n) \cap first
      /\ \A i \in 1..n : ops[i] \in Ops
      /\ \A x \in Ops : x.value \in Int
  <2>1. n \in Nat /\ DOMAIN ops = 1..n /\ \A i \in 1..n : ops[i] \in Ops
    OBVIOUS
  <2>2. \A x \in Ops : x.value \in Int
    BY DEF Ops
  <2>3. first \subseteq 1..n
    BY <2>1
  <2> HIDE DEF first
  <2> QED BY <2>1, <2>2, <2>3
<1>2. sel \in Seq(first) /\ Renames(sel, 1..m, first)
  <2> HIDE DEF first
  <2>1. /\ sel \in Seq((1..n) \cap first)
        /\ Renames(sel, 1..m, (1..n) \cap first)
    BY <1>1, SelectionOfIndexes
  <2> QED BY <1>1, <2>1
<1>3. sq = [l \in DOMAIN sel |-> [ops[sel[l]] EXCEPT
                                   !.value = ValueOf(ops, ops[sel[l]].account)]]
  BY <1>1 DEF squashOperations
<1>4. /\ m \in Nat /\ DOMAIN sel = 1..m
      /\ \A l \in 1..m : sel[l] \in first /\ sel[l] \in 1..n
  <2> HIDE DEF sel, first
  <2> QED BY <1>1, <1>2
<1>5. \A a : ValueOf(ops, a) \in Int
  BY <1>1, ValueOfConcat
<1> HIDE DEF sel, m, n, sq
<1>6. \A l \in 1..m : /\ sq[l].account = ops[sel[l]].account
                      /\ sq[l].type = ops[sel[l]].type
                      /\ sq[l].value = ValueOf(ops, ops[sel[l]].account)
                      /\ sq[l] \in Ops
  BY <1>1, <1>3, <1>4, <1>5 DEF Ops
<1>7. sq \in Seq(Ops) /\ Len(sq) = m /\ DOMAIN sq = 1..m
  BY <1>3, <1>4, <1>6
<1>8. ASSUME NEW a
      PROVE  ValueOf(sq, a) = ValueOf(ops, a)
  <2>1. CASE \A i \in 1..n : ops[i].account # a
    <3>1. \A l \in 1..m : sq[l].account # a
      BY <1>4, <1>6, <2>1
    <3>2. IsFiniteSet(1..n) /\ IsFiniteSet(1..m)
      BY <1>1, <1>4, FS_Interval
    <3> QED BY <1>1, <1>7, <2>1, <3>1, <3>2, ValueOfNone
  <2>2. CASE \E i \in 1..n : ops[i].account = a
    <3> DEFINE T == {i \in 1..n : ops[i].account = a}
    <3>1. PICK f \in T : \A j \in T : f =< j
      <4>1. T \in SUBSET Nat /\ T # {}
        BY <2>2
      <4> HIDE DEF T
      <4> QED BY <4>1, NatLeast
    <3>2. f \in first
      <4>1. f \in 1..n /\ ops[f].account = a
        BY <3>1
      <4>2. ASSUME NEW j \in 1..f - 1, ops[j].account = a
            PROVE  FALSE
        <5>1. j \in 1..n /\ j < f
          BY <1>1, <4>1
        <5>2. f =< j
          BY <3>1, <4>2, <5>1
        <5> QED BY <4>1, <5>1, <5>2
      <4> QED BY <1>1, <4>1, <4>2
    <3>3. PICK l \in 1..m : sel[l] = f
      BY <1>2, <3>2 DEF Renames
    <3>4. ASSUME NEW k \in 1..m, sq[k].account = a
          PROVE  k = l
      <4>1. sel[k] \in first /\ ops[sel[k]].account = a /\ sel[k] \in 1..n
        BY <1>4, <1>6, <3>4
      <4>2. f =< sel[k] /\ f \in 1..n /\ ops[f].account = a
        BY <3>1, <4>1
      <4>3. ~(f \in 1..sel[k] - 1)
        BY <4>1, <4>2
      <4>4. sel[k] = f
        BY <1>1, <4>1, <4>2, <4>3
      <4> QED BY <1>2, <3>3, <4>4 DEF Renames
    <3> DEFINE e == Entries(sq, a)
    <3>5. /\ DOMAIN e = 1..m /\ e[l] = ValueOf(ops, a)
          /\ \A k \in (1..m) \ {l} : e[k] = 0
      BY <1>6, <1>7, <3>1, <3>3, <3>4 DEF Entries, Entry
    <3>6. IsFiniteSet(1..m)
      BY <1>4, FS_Interval
    <3> HIDE DEF e
    <3>7. SumFunctionOnSet(e, 1..m) = e[l]
      <4>1. e[l] \in Int
        BY <1>5, <3>5
      <4> QED BY <3>5, <3>6, <4>1, SumOfOne
    <3> QED BY <3>5, <3>7, ValueOfEntries DEF SumFunction, e
  <2> QED BY <2>1, <2>2
<1> QED BY <1>7, <1>8 DEF sq

-----------------------------------------------------------------------------
(* Operations made of one UTXO operation each.                              *)

Mapped(F, s) == [i \in DOMAIN s |-> F[s[i]]]

LEMMA MapOfConcat ==
  ASSUME NEW s, IsSeq(s), NEW t, IsSeq(t), NEW F
  PROVE  Mapped(F, Cat(s, t)) = Cat(Mapped(F, s), Mapped(F, t))
<1> DEFINE u == Cat(s, t)
           m == Len(s)
           n == Len(t)
           f == [i \in 1..m |-> F[s[i]]]
           g == [i \in 1..n |-> F[t[i]]]
           h == Cat(f, g)
           A == {F[x] : x \in ToSet(s) \cup ToSet(t)}
<1>1. /\ m \in Nat /\ n \in Nat /\ DOMAIN s = 1..m /\ DOMAIN t = 1..n
      /\ \A i \in 1..m : s[i] \in ToSet(s)
      /\ \A i \in 1..n : t[i] \in ToSet(t)
  BY IsSeqFacts
<1>2. /\ DOMAIN u = 1..m + n
      /\ \A i \in 1..m : u[i] = s[i]
      /\ \A i \in 1..n : u[m + i] = t[i]
  <2>1. IsSeq(u) /\ Len(u) = m + n
    BY ConcatIsSeq
  <2>2. DOMAIN u = 1..Len(u)
    <3> HIDE DEF u
    <3> QED BY <2>1, IsSeqFacts
  <2> QED BY <2>1, <2>2, ConcatIsSeq
<1> HIDE DEF u, m, n
<1>3. f \in Seq(A) /\ g \in Seq(A) /\ Len(f) = m /\ Len(g) = n
  <2>1. /\ \A i \in 1..m : F[s[i]] \in A
        /\ \A i \in 1..n : F[t[i]] \in A
    BY <1>1
  <2> HIDE DEF A
  <2> QED BY <1>1, <2>1
<1>4. /\ \A i \in 1..m : f[i] = F[s[i]]
      /\ \A i \in 1..n : g[i] = F[t[i]]
  OBVIOUS
<1> HIDE DEF f, g, A
<1>5. /\ h \in Seq(A) /\ Len(h) = m + n
      /\ \A i \in 1..m : h[i] = f[i]
      /\ \A i \in 1..n : h[m + i] = g[i]
  BY <1>1, <1>3 DEF Cat
<1> HIDE DEF h
<1>6. \A i \in 1..m + n : h[i] = F[u[i]]
  <2> TAKE i \in 1..m + n
  <2>1. CASE i \in 1..m
    BY <1>2, <1>4, <1>5, <2>1
  <2>2. CASE i \notin 1..m
    <3>1. i - m \in 1..n /\ m + (i - m) = i
      BY <1>1, <2>2
    <3> DEFINE j == i - m
    <3>2. h[m + j] = g[j] /\ u[m + j] = t[j] /\ g[j] = F[t[j]]
      BY <1>2, <1>4, <1>5, <3>1
    <3> HIDE DEF j
    <3> QED BY <3>1, <3>2 DEF j
  <2> QED BY <2>1, <2>2
<1>7. h = [i \in 1..m + n |-> F[u[i]]]
  <2>1. h = [i \in 1..m + n |-> h[i]]
    BY <1>5
  <2> QED BY <1>6, <2>1
<1> QED BY <1>1, <1>2, <1>7 DEF h, f, g, u, Mapped

LEMMA SpendsConcat ==
  ASSUME NEW s, IsSeq(s), NEW t, IsSeq(t)
  PROVE  getBalanceModelSpends(Cat(s, t))
           = Cat(getBalanceModelSpends(s), getBalanceModelSpends(t))
<1> DEFINE types == {"SpendBalance"}
           f == OfType(s, types)
           g == OfType(t, types)
           h == OfType(Cat(s, t), types)
           F == [u \in ToSet(Cat(f, g)) |-> Input(Main(u.publicKey), -u.amount)]
<1>1. IsSeq(f) /\ IsSeq(g) /\ h = Cat(f, g)
  <2> HIDE DEF types
  <2> QED BY OfTypeConcat
<1>2. /\ getBalanceModelSpends(s)
           = [i \in DOMAIN f |-> Input(Main(f[i].publicKey), -f[i].amount)]
      /\ getBalanceModelSpends(t)
           = [i \in DOMAIN g |-> Input(Main(g[i].publicKey), -g[i].amount)]
      /\ getBalanceModelSpends(Cat(s, t))
           = [i \in DOMAIN h |-> Input(Main(h[i].publicKey), -h[i].amount)]
  BY DEF getBalanceModelSpends
<1>3. /\ \A i \in DOMAIN f : f[i] \in ToSet(Cat(f, g))
      /\ \A i \in DOMAIN g : g[i] \in ToSet(Cat(f, g))
      /\ \A i \in DOMAIN h : h[i] \in ToSet(Cat(f, g))
  <2>1. ToSet(Cat(f, g)) = ToSet(f) \cup ToSet(g)
    BY <1>1, ConcatIsSeq
  <2> QED BY <1>1, <2>1 DEF ToSet
<1> HIDE DEF f, g, h
<1>4. /\ getBalanceModelSpends(s) = Mapped(F, f)
      /\ getBalanceModelSpends(t) = Mapped(F, g)
      /\ getBalanceModelSpends(Cat(s, t)) = Mapped(F, h)
  BY <1>2, <1>3 DEF Mapped
<1> HIDE DEF F
<1>5. Mapped(F, Cat(f, g)) = Cat(Mapped(F, f), Mapped(F, g))
  BY <1>1, MapOfConcat
<1> QED BY <1>1, <1>4, <1>5, Zenon

\* The UTXO operations that are implicit outputs beside n outputs.
IsImplicit(n, u) ==
  \/ u.type = "AddUtxo" /\ u.key[2] >= n
  \/ u.type \in {"AddBalance", "StakeDistributionPayToBalance"}

Added(n, s) == Selection(s, {u \in ToSet(s) : IsImplicit(n, u)})

LEMMA ImplicitOutputs ==
  ASSUME NEW n, NEW s
  PROVE  getImplicitOutputs(n, s)
           = [i \in DOMAIN Added(n, s) |->
                Output(Main(Added(n, s)[i].publicKey), Added(n, s)[i].amount)]
BY DEF getImplicitOutputs, Added, IsImplicit

LEMMA ImplicitConcat ==
  ASSUME NEW n, NEW s, IsSeq(s), NEW t, IsSeq(t)
  PROVE  getImplicitOutputs(n, Cat(s, t))
           = Cat(getImplicitOutputs(n, s), getImplicitOutputs(n, t))
<1> DEFINE f == Added(n, s)
           g == Added(n, t)
           h == Added(n, Cat(s, t))
           F == [u \in ToSet(Cat(f, g)) |-> Output(Main(u.publicKey), u.amount)]
<1>1. IsSeq(f) /\ IsSeq(g) /\ h = Cat(f, g)
  <2> DEFINE S == {u \in ToSet(s) \cup ToSet(t) : IsImplicit(n, u)}
  <2>1. /\ {u \in ToSet(Cat(s, t)) : IsImplicit(n, u)} = S \cap ToSet(Cat(s, t))
        /\ {u \in ToSet(s) : IsImplicit(n, u)} = S \cap ToSet(s)
        /\ {u \in ToSet(t) : IsImplicit(n, u)} = S \cap ToSet(t)
    <3>1. ToSet(Cat(s, t)) = ToSet(s) \cup ToSet(t)
      BY ConcatIsSeq
    <3> QED BY <3>1
  <2> HIDE DEF S
  <2>2. /\ IsSeq(Selection(s, S \cap ToSet(s)))
        /\ IsSeq(Selection(t, S \cap ToSet(t)))
        /\ Selection(Cat(s, t), S \cap ToSet(Cat(s, t)))
             = Cat(Selection(s, S \cap ToSet(s)), Selection(t, S \cap ToSet(t)))
    BY SelectedConcat
  <2> QED BY <2>1, <2>2, Zenon DEF Added
<1>2. /\ getImplicitOutputs(n, s)
           = [i \in DOMAIN f |-> Output(Main(f[i].publicKey), f[i].amount)]
      /\ getImplicitOutputs(n, t)
           = [i \in DOMAIN g |-> Output(Main(g[i].publicKey), g[i].amount)]
      /\ getImplicitOutputs(n, Cat(s, t))
           = [i \in DOMAIN h |-> Output(Main(h[i].publicKey), h[i].amount)]
  BY ImplicitOutputs
<1>3. /\ \A i \in DOMAIN f : f[i] \in ToSet(Cat(f, g))
      /\ \A i \in DOMAIN g : g[i] \in ToSet(Cat(f, g))
      /\ \A i \in DOMAIN h : h[i] \in ToSet(Cat(f, g))
  <2>1. ToSet(Cat(f, g)) = ToSet(f) \cup ToSet(g)
    BY <1>1, ConcatIsSeq
  <2> QED BY <1>1, <2>1 DEF ToSet
<1> HIDE DEF f, g, h
<1>4. /\ getImplicitOutputs(n, s) = Mapped(F, f)
      /\ getImplicitOutputs(n, t) = Mapped(F, g)
      /\ getImplicitOutputs(n, Cat(s, t)) = Mapped(F, h)
  BY <1>2, <1>3 DEF Mapped
<1> HIDE DEF F
<1>5. Mapped(F, Cat(f, g)) = Cat(Mapped(F, f), Mapped(F, g))
  BY <1>1, MapOfConcat
<1> QED BY <1>1, <1>4, <1>5, Zenon

\* All of the sequence is implicit outputs, or nothing of it.
LEMMA ImplicitAll ==
  ASSUME NEW n, NEW s, IsSeq(s), \A u \in ToSet(s) : IsImplicit(n, u)
  PROVE  getImplicitOutputs(n, s)
           = [i \in DOMAIN s |-> Output(Main(s[i].publicKey), s[i].amount)]
<1>1. ToSet(s) \subseteq {u \in ToSet(s) : IsImplicit(n, u)}
  OBVIOUS
<1>2. Added(n, s) = s
  BY <1>1, SelectedAll DEF Added
<1> QED BY <1>2, ImplicitOutputs

LEMMA ImplicitNone ==
  ASSUME NEW n, NEW s, IsSeq(s), \A u \in ToSet(s) : ~IsImplicit(n, u)
  PROVE  getImplicitOutputs(n, s) = <<>>
<1>1. ToSet(s) \cap {u \in ToSet(s) : IsImplicit(n, u)} = {}
  OBVIOUS
<1>2. Added(n, s) = <<>>
  BY <1>1, SelectedNone DEF Added
<1> QED BY <1>2, ImplicitOutputs

LEMMA SpendsAll ==
  ASSUME NEW s, IsSeq(s), \A u \in ToSet(s) : u.type = "SpendBalance"
  PROVE  getBalanceModelSpends(s)
           = [i \in DOMAIN s |-> Input(Main(s[i].publicKey), -s[i].amount)]
<1>1. OfType(s, {"SpendBalance"}) = s
  BY OfTypeAll
<1> QED BY <1>1 DEF getBalanceModelSpends

LEMMA SpendsNone ==
  ASSUME NEW s, IsSeq(s), \A u \in ToSet(s) : u.type # "SpendBalance"
  PROVE  getBalanceModelSpends(s) = <<>>
<1>1. OfType(s, {"SpendBalance"}) = <<>>
  BY OfTypeNone
<1> QED BY <1>1 DEF getBalanceModelSpends

-----------------------------------------------------------------------------
(* Operations and movements one after another.                              *)

LEMMA EmptyCat ==
  ASSUME NEW s, IsSeq(s)
  PROVE  Cat(<<>>, s) = s /\ Cat(s, <<>>) = s
BY DEF Cat, IsSeq

LEMMA EmptyIsSeq == IsSeq(<<>>) /\ Cat(<<>>, <<>>) = <<>>
BY DEF IsSeq, ToSet, Cat

LEMMA CatType ==
  ASSUME NEW A, NEW s \in Seq(A), NEW t \in Seq(A)
  PROVE  Cat(s, t) \in Seq(A)
BY DEF Cat

LEMMA OpsValue ==
  ASSUME NEW s \in Seq(Ops)
  PROVE  \A a : ValueOf(s, a) \in Int
<1>1. \A x \in Ops : x.value \in Int
  BY DEF Ops
<1> QED BY <1>1, ValueOfConcat

LEMMA OpsConcat ==
  ASSUME NEW s \in Seq(Ops), NEW t \in Seq(Ops)
  PROVE  /\ Cat(s, t) \in Seq(Ops)
         /\ \A a : /\ ValueOf(s, a) \in Int /\ ValueOf(t, a) \in Int
                   /\ ValueOf(Cat(s, t), a) = ValueOf(s, a) + ValueOf(t, a)
<1>1. \A x \in Ops : x.value \in Int
  BY DEF Ops
<1> QED BY <1>1, CatType, ValueOfConcat

LEMMA MovesConcat ==
  ASSUME NEW s \in Seq(Moves), NEW t \in Seq(Moves)
  PROVE  /\ Cat(s, t) \in Seq(Moves)
         /\ \A a : /\ ValueOf(s, a) \in Int /\ ValueOf(t, a) \in Int
                   /\ ValueOf(Cat(s, t), a) = ValueOf(s, a) + ValueOf(t, a)
<1>1. \A x \in Moves : x.value \in Int
  BY DEF Moves
<1> QED BY <1>1, CatType, ValueOfConcat

LEMMA NoOps == <<>> \in Seq(Ops) /\ <<>> \in Seq(Moves) /\ \A a : ValueOf(<<>>, a) = 0
BY ValueOfEmpty

LEMMA MainAccount ==
  ASSUME NEW k \in Keys
  PROVE  Main(k) \in Accounts /\ CreatorCoin(k) \in Accounts
BY DEF Accounts

CreditSet == [publicKey : Keys, amount : Int]

LEMMA CreditMovesConcat ==
  ASSUME NEW s \in Seq(CreditSet), NEW t \in Seq(CreditSet)
  PROVE  /\ CreditMoves(s) \in Seq(Moves) /\ CreditMoves(t) \in Seq(Moves)
         /\ CreditMoves(Cat(s, t)) = Cat(CreditMoves(s), CreditMoves(t))
<1> DEFINE F == [c \in CreditSet |-> Move(Main(c.publicKey), c.amount)]
<1>1. \A u \in Seq(CreditSet) : CreditMoves(u) = Mapped(F, u)
  BY DEF CreditMoves, Mapped
<1>2. \A c \in CreditSet : Move(Main(c.publicKey), c.amount) \in Moves
  BY MainAccount DEF CreditSet, Move, Moves
<1>3. \A u \in Seq(CreditSet) : CreditMoves(u) \in Seq(Moves)
  <2> TAKE u \in Seq(CreditSet)
  <2>1. DOMAIN u = 1..Len(u) /\ Len(u) \in Nat /\ \A i \in 1..Len(u) : u[i] \in CreditSet
    OBVIOUS
  <2>2. \A i \in 1..Len(u) : Move(Main(u[i].publicKey), u[i].amount) \in Moves
    BY <1>2, <2>1
  <2> HIDE DEF CreditSet, Moves
  <2> QED BY <2>1, <2>2 DEF CreditMoves
<1>4. IsSeq(s) /\ IsSeq(t) /\ Cat(s, t) \in Seq(CreditSet)
  BY SeqIsSeq, CatType
<1> HIDE DEF F
<1>5. Mapped(F, Cat(s, t)) = Cat(Mapped(F, s), Mapped(F, t))
  BY <1>4, MapOfConcat
<1> QED BY <1>1, <1>3, <1>4, <1>5, Zenon

-----------------------------------------------------------------------------
(* The UTXO operations of a transaction.                                    *)

Money == {"SpendUtxo", "SpendBalance", "AddUtxo", "AddBalance",
          "StakeDistributionPayToBalance"}

LEMMA SpendOpsFacts ==
  ASSUME NEW coins, IsFiniteSet(coins)
  PROVE  /\ IsSeq(SpendOps(coins))
         /\ DOMAIN SpendOps(coins) = DOMAIN SetToSeq(coins)
         /\ \A u \in ToSet(SpendOps(coins)) :
              u.type = IF isBalanceModel THEN "SpendBalance" ELSE "SpendUtxo"
         /\ isBalanceModel =>
              \A i \in DOMAIN SpendOps(coins) :
                /\ SpendOps(coins)[i].publicKey = SetToSeq(coins)[i].publicKey
                /\ SpendOps(coins)[i].amount = SetToSeq(coins)[i].amount
         /\ ~isBalanceModel =>
              ToSet(SpendOps(coins))
                = {[type |-> "SpendUtxo", key |-> c.key, amount |-> c.amount] : c \in coins}
<1> DEFINE s == SetToSeq(coins)
           n == Len(s)
           ops == SpendOps(coins)
           B(i) == [type |-> "SpendBalance", publicKey |-> s[i].publicKey,
                    amount |-> s[i].amount]
           U(i) == [type |-> "SpendUtxo", key |-> s[i].key, amount |-> s[i].amount]
<1>1. s \in Seq(coins) /\ Renames(s, 1..n, coins)
  BY SetToSeqRenames
<1>2. n \in Nat /\ DOMAIN s = 1..n /\ \A i \in 1..n : s[i] \in coins
  BY <1>1
<1>3. ops = [i \in 1..n |-> IF isBalanceModel THEN B(i) ELSE U(i)]
  BY <1>2 DEF SpendOps
<1> HIDE DEF s, n, ops
<1>4. DOMAIN ops = 1..n /\ IsSeq(ops)
  <2>1. ops \in Seq({ops[i] : i \in 1..n})
    BY <1>2, <1>3
  <2> QED BY <1>3, <2>1, SeqIsSeq
<1>5. ToSet(ops) = {ops[i] : i \in 1..n}
  BY <1>4 DEF ToSet
<1>6. /\ isBalanceModel => \A i \in 1..n : ops[i] = B(i)
      /\ ~isBalanceModel => \A i \in 1..n : ops[i] = U(i)
  BY <1>3
<1>7. \A u \in ToSet(ops) :
        u.type = IF isBalanceModel THEN "SpendBalance" ELSE "SpendUtxo"
  <2> TAKE u \in ToSet(ops)
  <2>1. PICK i \in 1..n : u = ops[i]
    BY <1>5
  <2>2. CASE isBalanceModel
    <3>1. u = B(i)
      BY <1>6, <2>1, <2>2
    <3>2. u.type = "SpendBalance"
      BY <3>1
    <3> QED BY <2>2, <3>2
  <2>3. CASE ~isBalanceModel
    <3>1. u = U(i)
      BY <1>6, <2>1, <2>3
    <3>2. u.type = "SpendUtxo"
      BY <3>1
    <3> QED BY <2>3, <3>2
  <2> QED BY <2>2, <2>3
<1>8. ASSUME ~isBalanceModel
      PROVE  ToSet(ops) = {[type |-> "SpendUtxo", key |-> c.key, amount |-> c.amount] : c \in coins}
  <2>1. \A i \in 1..n : s[i] \in coins /\ ops[i] = U(i)
    BY <1>2, <1>6, <1>8
  <2>2. \A c \in coins : \E i \in 1..n : s[i] = c
    BY <1>1 DEF Renames
  <2> DEFINE R == {[type |-> "SpendUtxo", key |-> c.key, amount |-> c.amount] : c \in coins}
  <2>3. ASSUME NEW u \in ToSet(ops)
        PROVE  u \in R
    <3>1. PICK i \in 1..n : u = ops[i]
      BY <1>5
    <3> QED BY <2>1, <3>1
  <2>4. ASSUME NEW c \in coins
        PROVE  [type |-> "SpendUtxo", key |-> c.key, amount |-> c.amount] \in ToSet(ops)
    <3>1. PICK i \in 1..n : s[i] = c
      BY <2>2
    <3>2. ops[i] \in ToSet(ops) /\ ops[i] = U(i)
      BY <1>5, <2>1
    <3> QED BY <3>1, <3>2
  <2> QED BY <2>3, <2>4
<1> QED BY <1>2, <1>4, <1>6, <1>7, <1>8 DEF s, ops

LEMMA AddOpsFacts ==
  ASSUME NEW credits \in Seq(CreditSet)
  PROVE  /\ IsSeq(AddOps(credits)) /\ DOMAIN AddOps(credits) = DOMAIN credits
         /\ \A u \in ToSet(AddOps(credits)) :
              u.type = IF isBalanceModel THEN "AddBalance" ELSE "AddUtxo"
         /\ \A i \in DOMAIN credits :
              /\ AddOps(credits)[i].key[2] = i - 1
              /\ AddOps(credits)[i].publicKey = credits[i].publicKey
              /\ AddOps(credits)[i].amount = credits[i].amount
<1> DEFINE ops == AddOps(credits)
           n == Len(credits)
<1>1. n \in Nat /\ DOMAIN credits = 1..n
  OBVIOUS
<1>2. /\ DOMAIN ops = 1..n
      /\ \A i \in 1..n :
           /\ ops[i].type = IF isBalanceModel THEN "AddBalance" ELSE "AddUtxo"
           /\ ops[i].key[2] = i - 1
           /\ ops[i].publicKey = credits[i].publicKey
           /\ ops[i].amount = credits[i].amount
      /\ ops \in Seq({ops[i] : i \in 1..n})
  <2> DEFINE A(i) ==
        [type |-> IF isBalanceModel THEN "AddBalance" ELSE "AddUtxo",
         key |-> << Len(txns) + 1, i - 1 >>, publicKey |-> credits[i].publicKey,
         amount |-> credits[i].amount]
  <2>1. ops = [i \in 1..n |-> A(i)]
    BY <1>1 DEF AddOps, NewCoin
  <2> HIDE DEF ops
  <2>2. \A i \in 1..n : ops[i] = A(i)
    BY <2>1
  <2>3. DOMAIN ops = 1..n /\ ops \in Seq({ops[i] : i \in 1..n})
    <3> HIDE DEF A
    <3> QED BY <1>1, <2>1
  <2> QED BY <2>2, <2>3
<1> HIDE DEF ops, n
<1>3. IsSeq(ops) /\ ToSet(ops) = {ops[i] : i \in 1..n}
  BY <1>2, SeqIsSeq DEF ToSet
<1> QED BY <1>1, <1>2, <1>3 DEF ops, n

\* What a plan and the coins that pay for it are.
Paid(k, coins) ==
  /\ k \in Keys /\ IsFiniteSet(coins)
  /\ \A c \in coins : /\ c.publicKey = k /\ c.amount \in Int
                      /\ isBalanceModel \/ c \in unspent

Paying(t, coins, bids) ==
  /\ isBalanceModel \in BOOLEAN
  /\ Paid(t.publicKey, coins) /\ Paid(t.bidder, bids)
  /\ Outputs(t, coins) \in Seq(CreditSet)
  /\ Implicit(t, bids) \in Seq(CreditSet)
  /\ IsSeq(t.special) /\ \A u \in ToSet(t.special) : u.type \notin Money

LEMMA UtxoOpsParts ==
  ASSUME NEW t, NEW coins, NEW bids, Paying(t, coins, bids)
  PROVE  LET first  == SpendOps(coins)
             second == SpendOps(bids)
             added  == AddOps(Credits(t, coins, bids))
         IN  /\ UtxoOps(t, coins, bids)
                  = Cat(Cat(Cat(first, second), added), t.special)
             /\ Credits(t, coins, bids) = Cat(Outputs(t, coins), Implicit(t, bids))
             /\ Credits(t, coins, bids) \in Seq(CreditSet)
             /\ IsSeq(first) /\ IsSeq(second) /\ IsSeq(added)
             /\ IsSeq(Cat(first, second)) /\ IsSeq(Cat(Cat(first, second), added))
             /\ IsSeq(UtxoOps(t, coins, bids))
<1>1. UtxoOps(t, coins, bids)
        = Cat(Cat(Cat(SpendOps(coins), SpendOps(bids)),
                  AddOps(Credits(t, coins, bids))), t.special)
  BY DEF UtxoOps, Cat
<1>2. Credits(t, coins, bids) = Cat(Outputs(t, coins), Implicit(t, bids))
  BY DEF Credits, Cat
<1>3. Credits(t, coins, bids) \in Seq(CreditSet)
  BY <1>2, CatType DEF Paying
<1>4. IsSeq(SpendOps(coins)) /\ IsSeq(SpendOps(bids)) /\ IsSeq(t.special)
  BY SpendOpsFacts DEF Paying, Paid
<1>5. IsSeq(AddOps(Credits(t, coins, bids)))
  BY <1>3, AddOpsFacts
<1>6. IsSeq(Cat(SpendOps(coins), SpendOps(bids)))
  BY <1>4, ConcatIsSeq
<1>7. IsSeq(Cat(Cat(SpendOps(coins), SpendOps(bids)),
                AddOps(Credits(t, coins, bids))))
  BY <1>5, <1>6, ConcatIsSeq
<1>8. IsSeq(UtxoOps(t, coins, bids))
  BY <1>1, <1>4, <1>7, ConcatIsSeq
<1> QED BY <1>1, <1>2, <1>3, <1>4, <1>5, <1>6, <1>7, <1>8, Zenon

BidEntry(t, bids, a) == Entry(Move(Main(t.bidder), -AmountOf(bids)), a)
CoinEntry(t, coins, a) == Entry(Move(Main(t.publicKey), -AmountOf(coins)), a)

LEMMA EntryType ==
  ASSUME NEW k \in Keys, NEW coins, Paid(k, coins)
  PROVE  /\ AmountOf(coins) \in Int
         /\ \A a : Entry(Move(Main(k), -AmountOf(coins)), a) \in Int
<1> DEFINE s == SetToSeq(coins)
           ops == [i \in DOMAIN s |-> Input(Main(k), -s[i].amount)]
<1>1. AmountOf(coins) \in Int
  <2>1. IsFiniteSet(coins) /\ \A c \in coins : c.publicKey = k /\ c.amount \in Int
    BY DEF Paid
  <2>2. DOMAIN ops = DOMAIN s /\ \A i \in DOMAIN ops :
          ops[i].account = Main(k) /\ ops[i].value = -s[i].amount
    BY DEF Input, Operation
  <2> HIDE DEF ops
  <2> QED BY <2>1, <2>2, CoinsValue
<1> QED BY <1>1 DEF Entry, Move

\* Above the fork what a key spends is an operation of its own.
LEMMA SpentBalance ==
  ASSUME NEW k, NEW coins, Paid(k, coins), isBalanceModel
  PROVE  /\ getBalanceModelSpends(SpendOps(coins)) \in Seq(Ops)
         /\ \A a : ValueOf(getBalanceModelSpends(SpendOps(coins)), a)
                     = Entry(Move(Main(k), -AmountOf(coins)), a)
<1> DEFINE s == SetToSeq(coins)
           u == SpendOps(coins)
           ops == getBalanceModelSpends(u)
<1>1. /\ k \in Keys /\ IsFiniteSet(coins)
      /\ \A c \in coins : c.publicKey = k /\ c.amount \in Int
  BY DEF Paid
<1>2. /\ IsSeq(u) /\ DOMAIN u = DOMAIN s
      /\ \A x \in ToSet(u) : x.type = "SpendBalance"
      /\ \A i \in DOMAIN u : u[i].publicKey = s[i].publicKey /\ u[i].amount = s[i].amount
  BY <1>1, SpendOpsFacts
<1>3. s \in Seq(coins)
  BY <1>1, SetToSeqRenames
<1>4. \A i \in DOMAIN s : s[i].publicKey = k /\ s[i].amount \in Int
  BY <1>1, <1>3
<1> HIDE DEF s, u
<1>5. ops = [i \in DOMAIN u |-> Input(Main(u[i].publicKey), -u[i].amount)]
  BY <1>2, SpendsAll
<1> HIDE DEF ops
<1>6. /\ DOMAIN ops = DOMAIN s
      /\ \A i \in DOMAIN ops : ops[i] = Input(Main(k), -s[i].amount)
  BY <1>2, <1>4, <1>5
<1>7. /\ \A i \in DOMAIN ops : ops[i].account = Main(k) /\ ops[i].value = -s[i].amount
      /\ \A i \in DOMAIN ops : ops[i] \in Ops
  BY <1>1, <1>4, <1>6, MainAccount DEF Input, Operation, Ops
<1>8. ops \in Seq(Ops)
  <2>1. DOMAIN s = 1..Len(s) /\ Len(s) \in Nat
    BY <1>3
  <2>2. ops = [i \in 1..Len(s) |-> ops[i]]
    BY <1>5, <1>6, <2>1
  <2> QED BY <1>6, <1>7, <2>1, <2>2
<1>9. \A a : ValueOf(ops, a) = Entry(Move(Main(k), -AmountOf(coins)), a)
  BY <1>1, <1>6, <1>7, CoinsValue DEF s
<1> QED BY <1>8, <1>9 DEF ops, u

LEMMA Spending ==
  ASSUME NEW t, NEW coins, NEW bids, Paying(t, coins, bids)
  PROVE  LET ops == getBalanceModelSpends(UtxoOps(t, coins, bids))
         IN  /\ ops \in Seq(Ops)
             /\ \A a : ValueOf(ops, a)
                         = IF isBalanceModel
                           THEN CoinEntry(t, coins, a) + BidEntry(t, bids, a) ELSE 0
<1> DEFINE s1 == SpendOps(coins)
           s2 == SpendOps(bids)
           ad == AddOps(Credits(t, coins, bids))
           sp == t.special
           S(u) == getBalanceModelSpends(u)
           E(a) == IF isBalanceModel
                   THEN CoinEntry(t, coins, a) + BidEntry(t, bids, a) ELSE 0
<1>1. /\ UtxoOps(t, coins, bids) = Cat(Cat(Cat(s1, s2), ad), sp)
      /\ Credits(t, coins, bids) \in Seq(CreditSet)
      /\ IsSeq(s1) /\ IsSeq(s2) /\ IsSeq(ad) /\ IsSeq(sp)
      /\ IsSeq(Cat(s1, s2)) /\ IsSeq(Cat(Cat(s1, s2), ad))
  BY UtxoOpsParts DEF Paying
<1>2. /\ \A u \in ToSet(ad) : u.type # "SpendBalance"
      /\ \A u \in ToSet(sp) : u.type # "SpendBalance"
  BY <1>1, AddOpsFacts DEF Paying, Money
<1>3. Paid(t.publicKey, coins) /\ Paid(t.bidder, bids)
  BY DEF Paying
<1> HIDE DEF s1, s2, ad, sp, S
<1>4. S(Cat(Cat(Cat(s1, s2), ad), sp)) = Cat(Cat(Cat(S(s1), S(s2)), S(ad)), S(sp))
  <2>1. S(Cat(s1, s2)) = Cat(S(s1), S(s2))
    BY <1>1, SpendsConcat DEF S
  <2>2. S(Cat(Cat(s1, s2), ad)) = Cat(S(Cat(s1, s2)), S(ad))
    BY <1>1, SpendsConcat DEF S
  <2>3. S(Cat(Cat(Cat(s1, s2), ad), sp)) = Cat(S(Cat(Cat(s1, s2), ad)), S(sp))
    BY <1>1, SpendsConcat DEF S
  <2> QED BY <2>1, <2>2, <2>3, Zenon
<1>5. S(ad) = <<>> /\ S(sp) = <<>>
  BY <1>1, <1>2, SpendsNone DEF S
<1>6. /\ S(s1) \in Seq(Ops) /\ S(s2) \in Seq(Ops)
      /\ \A a : ValueOf(S(s1), a) + ValueOf(S(s2), a) = E(a)
  <2>1. CASE isBalanceModel
    <3>1. /\ S(s1) \in Seq(Ops) /\ S(s2) \in Seq(Ops)
          /\ \A a : ValueOf(S(s1), a) = CoinEntry(t, coins, a)
          /\ \A a : ValueOf(S(s2), a) = BidEntry(t, bids, a)
      BY <1>3, <2>1, SpentBalance DEF S, s1, s2, CoinEntry, BidEntry
    <3> QED BY <2>1, <3>1
  <2>2. CASE ~isBalanceModel
    <3>1. \A u \in ToSet(s1) : u.type # "SpendBalance"
      BY <1>3, <2>2, SpendOpsFacts DEF Paid, s1
    <3>2. \A u \in ToSet(s2) : u.type # "SpendBalance"
      BY <1>3, <2>2, SpendOpsFacts DEF Paid, s2
    <3>3. S(s1) = <<>> /\ S(s2) = <<>>
      BY <1>1, <3>1, <3>2, SpendsNone DEF S
    <3> QED BY <2>2, <3>3, NoOps
  <2> QED BY <2>1, <2>2
<1> HIDE DEF E
<1>7. Cat(S(s1), S(s2)) \in Seq(Ops) /\ \A a : ValueOf(Cat(S(s1), S(s2)), a) = E(a)
  BY <1>6, OpsConcat
<1>8. Cat(Cat(Cat(S(s1), S(s2)), S(ad)), S(sp)) = Cat(S(s1), S(s2))
  <2>1. IsSeq(Cat(S(s1), S(s2)))
    BY <1>7, SeqIsSeq
  <2> QED BY <1>5, <2>1, EmptyCat
<1>9. S(UtxoOps(t, coins, bids)) = Cat(S(s1), S(s2))
  BY <1>1, <1>4, <1>8, Zenon
<1> QED BY <1>7, <1>9 DEF S, E

\* What a sequence of credits adds to the accounts.
LEMMA CreditOps ==
  ASSUME NEW credits \in Seq(CreditSet), NEW ops,
         DOMAIN ops = DOMAIN credits,
         \A i \in DOMAIN credits :
           ops[i] = Output(Main(credits[i].publicKey), credits[i].amount)
  PROVE  \A a : ValueOf(ops, a) = ValueOf(CreditMoves(credits), a)
<1> DEFINE m == CreditMoves(credits)
<1>1. /\ DOMAIN m = DOMAIN credits
      /\ \A i \in DOMAIN credits :
           m[i].account = Main(credits[i].publicKey) /\ m[i].value = credits[i].amount
  BY DEF CreditMoves, Move
<1>2. \A i \in DOMAIN credits :
        ops[i].account = Main(credits[i].publicKey) /\ ops[i].value = credits[i].amount
  BY DEF Output, Operation
<1> HIDE DEF m
<1>3. \A a : ValueOf(ops, a) = ValueOf(m, a)
  BY <1>1, <1>2, ValueOfSame
<1> QED BY <1>3 DEF m

OutputOps(credits) ==
  [i \in DOMAIN credits |-> Output(Main(credits[i].publicKey), credits[i].amount)]

LEMMA OutputOpsFacts ==
  ASSUME NEW credits \in Seq(CreditSet)
  PROVE  /\ OutputOps(credits) \in Seq(Ops)
         /\ \A a : ValueOf(OutputOps(credits), a) = ValueOf(CreditMoves(credits), a)
<1>1. \A i \in DOMAIN credits :
        Output(Main(credits[i].publicKey), credits[i].amount) \in Ops
  <2>1. \A c \in CreditSet : Output(Main(c.publicKey), c.amount) \in Ops
    BY MainAccount DEF CreditSet, Output, Operation, Ops
  <2> HIDE DEF CreditSet, Ops
  <2> QED BY <2>1
<1>2. OutputOps(credits) \in Seq(Ops)
  <2>1. DOMAIN credits = 1..Len(credits) /\ Len(credits) \in Nat
    OBVIOUS
  <2> HIDE DEF Ops
  <2> QED BY <1>1, <2>1 DEF OutputOps
<1>3. \A a : ValueOf(OutputOps(credits), a) = ValueOf(CreditMoves(credits), a)
  BY CreditOps DEF OutputOps
<1> QED BY <1>2, <1>3

\* The added outputs that are numbered after those of the transaction.
LEMMA AddedOutputs ==
  ASSUME NEW outputs \in Seq(CreditSet), NEW implicit \in Seq(CreditSet),
         isBalanceModel \in BOOLEAN
  PROVE  getImplicitOutputs(Len(outputs), AddOps(Cat(outputs, implicit)))
           = OutputOps(IF isBalanceModel THEN Cat(outputs, implicit) ELSE implicit)
<1> DEFINE credits == Cat(outputs, implicit)
           ad == AddOps(credits)
           n == Len(outputs)
           m == Len(implicit)
           p == SubSeq(ad, 1, n)
           q == SubSeq(ad, n + 1, n + m)
<1>1. /\ credits \in Seq(CreditSet) /\ Len(credits) = n + m
      /\ n \in Nat /\ m \in Nat /\ DOMAIN credits = 1..n + m
      /\ DOMAIN implicit = 1..m
      /\ \A i \in 1..m : credits[n + i] = implicit[i]
  BY DEF Cat
<1>2. /\ IsSeq(ad) /\ DOMAIN ad = 1..n + m
      /\ \A u \in ToSet(ad) : u.type = IF isBalanceModel THEN "AddBalance" ELSE "AddUtxo"
      /\ \A i \in 1..n + m : /\ ad[i].key[2] = i - 1
                             /\ ad[i].publicKey = credits[i].publicKey
                             /\ ad[i].amount = credits[i].amount
  <2> HIDE DEF credits, n, m
  <2> QED BY <1>1, AddOpsFacts
<1> HIDE DEF credits, ad, n, m
<1>3. CASE isBalanceModel
  <2>1. \A u \in ToSet(ad) : IsImplicit(n, u)
    BY <1>2, <1>3 DEF IsImplicit
  <2>2. getImplicitOutputs(n, ad)
          = [i \in DOMAIN ad |-> Output(Main(ad[i].publicKey), ad[i].amount)]
    BY <1>2, <2>1, ImplicitAll
  <2>3. getImplicitOutputs(n, ad) = OutputOps(credits)
    BY <1>1, <1>2, <2>2 DEF OutputOps
  <2> QED BY <1>3, <2>3 DEF ad, credits, n
<1>4. CASE ~isBalanceModel
  <2>1. /\ ad \in Seq(ToSet(ad)) /\ Len(ad) = n + m
        /\ \A i \in 1..n + m : ad[i] \in ToSet(ad)
    BY <1>1, <1>2 DEF IsSeq, ToSet
  <2>2. /\ p \in Seq(ToSet(ad)) /\ Len(p) = n /\ \A i \in 1..n : p[i] = ad[i]
        /\ q \in Seq(ToSet(ad)) /\ Len(q) = m /\ \A i \in 1..m : q[i] = ad[n + i]
        /\ ad = Cat(p, q)
    <3> DEFINE A == ToSet(ad)
    <3>1. ad \in Seq(A) /\ Len(ad) = n + m /\ \A i \in 1..n + m : ad[i] \in A
      BY <2>1
    <3> HIDE DEF A
    <3>2. p \in Seq(A) /\ Len(p) = n /\ \A i \in 1..n : p[i] = ad[i]
      BY <1>1, <3>1
    <3>3. q \in Seq(A) /\ Len(q) = m /\ \A i \in 1..m : q[i] = ad[n + i]
      BY <1>1, <3>1
    <3>4. ad = Cat(p, q)
      <4> DEFINE h == Cat(p, q)
      <4> HIDE DEF p, q
      <4>1. /\ h \in Seq(A) /\ Len(h) = n + m
            /\ \A i \in 1..n : h[i] = p[i]
            /\ \A i \in 1..m : h[n + i] = q[i]
        <5>1. /\ h \in Seq(A) /\ Len(h) = Len(p) + Len(q)
              /\ \A i \in 1..Len(p) : h[i] = p[i]
              /\ \A i \in 1..Len(q) : h[Len(p) + i] = q[i]
          <6>1. p \in Seq(A) /\ q \in Seq(A)
            BY <3>2, <3>3
          <6> QED BY <6>1 DEF Cat
        <5> QED BY <3>2, <3>3, <5>1
      <4> HIDE DEF h
      <4>2. \A i \in 1..n + m : h[i] = ad[i]
        <5> TAKE i \in 1..n + m
        <5>1. CASE i \in 1..n
          BY <3>2, <4>1, <5>1
        <5>2. CASE i \notin 1..n
          <6>1. i - n \in 1..m /\ n + (i - n) = i
            BY <1>1, <5>2
          <6> DEFINE j == i - n
          <6>2. h[n + j] = q[j] /\ q[j] = ad[n + j]
            BY <3>3, <4>1, <6>1
          <6> HIDE DEF j
          <6> QED BY <6>1, <6>2 DEF j
        <5> QED BY <5>1, <5>2
      <4>3. ad = [i \in 1..n + m |-> ad[i]] /\ h = [i \in 1..n + m |-> h[i]]
        BY <3>1, <4>1
      <4> QED BY <4>2, <4>3 DEF h
    <3> QED BY <3>2, <3>3, <3>4 DEF A
  <2> HIDE DEF p, q
  <2>3. IsSeq(p) /\ IsSeq(q)
    BY <2>2, SeqIsSeq
  <2>4. \A u \in ToSet(p) : ~IsImplicit(n, u)
    <3> TAKE u \in ToSet(p)
    <3>1. PICK i \in 1..n : u = p[i]
      BY <2>2, <2>3, IsSeqFacts
    <3>2. i \in 1..n + m /\ u = ad[i] /\ u \in ToSet(ad)
      BY <1>1, <2>1, <2>2, <3>1
    <3>3. u.type = "AddUtxo" /\ u.key[2] = i - 1
      BY <1>2, <1>4, <3>2
    <3>4. ~(i - 1 >= n)
      BY <1>1, <3>1
    <3> QED BY <3>3, <3>4 DEF IsImplicit
  <2>5. \A u \in ToSet(q) : IsImplicit(n, u)
    <3> TAKE u \in ToSet(q)
    <3>1. PICK i \in 1..m : u = q[i]
      BY <2>2, <2>3, IsSeqFacts
    <3>2. n + i \in 1..n + m /\ u = ad[n + i] /\ u \in ToSet(ad)
      BY <1>1, <2>1, <2>2, <3>1
    <3>3. u.type = "AddUtxo" /\ u.key[2] = (n + i) - 1
      BY <1>2, <1>4, <3>2
    <3>4. (n + i) - 1 >= n
      BY <1>1, <3>1
    <3> QED BY <3>3, <3>4 DEF IsImplicit
  <2>6. getImplicitOutputs(n, p) = <<>>
    BY <2>3, <2>4, ImplicitNone
  <2>7. getImplicitOutputs(n, q)
          = [i \in DOMAIN q |-> Output(Main(q[i].publicKey), q[i].amount)]
    BY <2>3, <2>5, ImplicitAll
  <2>8. getImplicitOutputs(n, q) = OutputOps(implicit)
    <3>1. \A i \in 1..m : /\ q[i].publicKey = implicit[i].publicKey
                          /\ q[i].amount = implicit[i].amount
      <4> TAKE i \in 1..m
      <4>1. n + i \in 1..n + m
        BY <1>1
      <4> QED BY <1>1, <1>2, <2>2, <4>1
    <3>2. DOMAIN q = 1..m
      BY <2>2
    <3> QED BY <1>1, <2>7, <3>1, <3>2 DEF OutputOps
  <2>9. getImplicitOutputs(n, ad) = Cat(<<>>, OutputOps(implicit))
    <3>1. getImplicitOutputs(n, Cat(p, q))
            = Cat(getImplicitOutputs(n, p), getImplicitOutputs(n, q))
      BY <2>3, ImplicitConcat
    <3> QED BY <2>2, <2>6, <2>8, <3>1, Zenon
  <2>10. IsSeq(OutputOps(implicit))
    BY OutputOpsFacts, SeqIsSeq
  <2>11. getImplicitOutputs(n, ad) = OutputOps(implicit)
    BY <2>9, <2>10, EmptyCat
  <2> QED BY <1>4, <2>11 DEF ad, credits, n
<1> QED BY <1>3, <1>4

LEMMA Receiving ==
  ASSUME NEW t, NEW coins, NEW bids, Paying(t, coins, bids)
  PROVE  LET outputs  == TxOutputs(Txn(t, coins, bids), isBalanceModel)
             implicit == getImplicitOutputs(Len(Txn(t, coins, bids).outputs),
                                            UtxoOps(t, coins, bids))
         IN  /\ outputs \in Seq(Ops) /\ implicit \in Seq(Ops)
             /\ \A a : ValueOf(outputs, a) + ValueOf(implicit, a)
                         = ValueOf(CreditMoves(Credits(t, coins, bids)), a)
<1> DEFINE s1 == SpendOps(coins)
           s2 == SpendOps(bids)
           o  == Outputs(t, coins)
           im == Implicit(t, bids)
           cr == Credits(t, coins, bids)
           ad == AddOps(cr)
           sp == t.special
           n == Len(o)
           I(u) == getImplicitOutputs(n, u)
           outs == TxOutputs(Txn(t, coins, bids), isBalanceModel)
<1>1. /\ UtxoOps(t, coins, bids) = Cat(Cat(Cat(s1, s2), ad), sp)
      /\ cr = Cat(o, im) /\ cr \in Seq(CreditSet)
      /\ o \in Seq(CreditSet) /\ im \in Seq(CreditSet)
      /\ IsSeq(s1) /\ IsSeq(s2) /\ IsSeq(ad) /\ IsSeq(sp)
      /\ IsSeq(Cat(s1, s2)) /\ IsSeq(Cat(Cat(s1, s2), ad))
  BY UtxoOpsParts DEF Paying
<1>2. isBalanceModel \in BOOLEAN
  BY DEF Paying
<1>3. /\ \A u \in ToSet(s1) : ~IsImplicit(n, u)
      /\ \A u \in ToSet(s2) : ~IsImplicit(n, u)
      /\ \A u \in ToSet(sp) : ~IsImplicit(n, u)
  <2>1. /\ \A u \in ToSet(s1) : u.type \in {"SpendBalance", "SpendUtxo"}
        /\ \A u \in ToSet(s2) : u.type \in {"SpendBalance", "SpendUtxo"}
    BY SpendOpsFacts DEF Paying, Paid
  <2>2. \A u \in ToSet(sp) : u.type \notin Money
    BY DEF Paying
  <2> HIDE DEF s1, s2, sp, n
  <2> QED BY <2>1, <2>2 DEF IsImplicit, Money
<1>4. outs = IF isBalanceModel THEN <<>> ELSE OutputOps(o)
  BY DEF TxOutputs, OutputOps, Txn
<1>5. Len(Txn(t, coins, bids).outputs) = n
  BY DEF Txn
<1>6. I(ad) = OutputOps(IF isBalanceModel THEN cr ELSE im)
  BY <1>1, <1>2, AddedOutputs
<1> HIDE DEF s1, s2, ad, sp, I, o, im, cr, n, outs
<1>7. I(Cat(Cat(Cat(s1, s2), ad), sp)) = Cat(Cat(Cat(I(s1), I(s2)), I(ad)), I(sp))
  <2>1. I(Cat(s1, s2)) = Cat(I(s1), I(s2))
    BY <1>1, ImplicitConcat DEF I
  <2>2. I(Cat(Cat(s1, s2), ad)) = Cat(I(Cat(s1, s2)), I(ad))
    BY <1>1, ImplicitConcat DEF I
  <2>3. I(Cat(Cat(Cat(s1, s2), ad), sp)) = Cat(I(Cat(Cat(s1, s2), ad)), I(sp))
    BY <1>1, ImplicitConcat DEF I
  <2> QED BY <2>1, <2>2, <2>3, Zenon
<1>8. I(s1) = <<>> /\ I(s2) = <<>> /\ I(sp) = <<>>
  BY <1>1, <1>3, ImplicitNone DEF I
<1>9. I(ad) \in Seq(Ops)
      /\ \A a : ValueOf(I(ad), a)
                  = ValueOf(CreditMoves(IF isBalanceModel THEN cr ELSE im), a)
  BY <1>1, <1>6, OutputOpsFacts
<1>10. I(UtxoOps(t, coins, bids)) = I(ad)
  <2>1. IsSeq(I(ad))
    BY <1>9, SeqIsSeq
  <2>2. Cat(Cat(Cat(<<>>, <<>>), I(ad)), <<>>) = I(ad)
    BY <2>1, EmptyCat, EmptyIsSeq
  <2> QED BY <1>1, <1>7, <1>8, <2>2, Zenon
<1>11. /\ outs \in Seq(Ops)
       /\ \A a : ValueOf(outs, a) + ValueOf(I(ad), a) = ValueOf(CreditMoves(cr), a)
  <2>1. CASE isBalanceModel
    <3>1. outs = <<>> /\ \A a : ValueOf(I(ad), a) = ValueOf(CreditMoves(cr), a)
      BY <1>4, <1>9, <2>1
    <3>2. \A a : ValueOf(I(ad), a) \in Int
      BY <1>9, OpsValue
    <3> QED BY <3>1, <3>2, NoOps
  <2>2. CASE ~isBalanceModel
    <3>1. /\ outs \in Seq(Ops) /\ \A a : ValueOf(outs, a) = ValueOf(CreditMoves(o), a)
          /\ \A a : ValueOf(I(ad), a) = ValueOf(CreditMoves(im), a)
      BY <1>1, <1>4, <1>9, <2>2, OutputOpsFacts
    <3>2. /\ CreditMoves(o) \in Seq(Moves) /\ CreditMoves(im) \in Seq(Moves)
          /\ CreditMoves(cr) = Cat(CreditMoves(o), CreditMoves(im))
      BY <1>1, CreditMovesConcat
    <3>3. \A a : ValueOf(CreditMoves(cr), a)
                   = ValueOf(CreditMoves(o), a) + ValueOf(CreditMoves(im), a)
      BY <3>2, MovesConcat
    <3> QED BY <3>1, <3>3
  <2> QED BY <2>1, <2>2
<1> QED BY <1>5, <1>9, <1>10, <1>11 DEF I, outs, cr

-----------------------------------------------------------------------------
(* The coins that a transaction spends.                                     *)

LEMMA UtxoOpsElements ==
  ASSUME NEW t, NEW coins, NEW bids, Paying(t, coins, bids)
  PROVE  ToSet(UtxoOps(t, coins, bids))
           = ((ToSet(SpendOps(coins)) \cup ToSet(SpendOps(bids)))
              \cup ToSet(AddOps(Credits(t, coins, bids)))) \cup ToSet(t.special)
<1> DEFINE s1 == SpendOps(coins)
           s2 == SpendOps(bids)
           ad == AddOps(Credits(t, coins, bids))
           sp == t.special
<1>1. /\ UtxoOps(t, coins, bids) = Cat(Cat(Cat(s1, s2), ad), sp)
      /\ IsSeq(s1) /\ IsSeq(s2) /\ IsSeq(ad) /\ IsSeq(sp)
      /\ IsSeq(Cat(s1, s2)) /\ IsSeq(Cat(Cat(s1, s2), ad))
  BY UtxoOpsParts DEF Paying
<1> HIDE DEF s1, s2, ad, sp
<1>2. ToSet(Cat(s1, s2)) = ToSet(s1) \cup ToSet(s2)
  BY <1>1, ConcatIsSeq
<1>3. ToSet(Cat(Cat(s1, s2), ad)) = ToSet(Cat(s1, s2)) \cup ToSet(ad)
  BY <1>1, ConcatIsSeq
<1>4. ToSet(Cat(Cat(Cat(s1, s2), ad), sp)) = ToSet(Cat(Cat(s1, s2), ad)) \cup ToSet(sp)
  BY <1>1, ConcatIsSeq
<1>5. ToSet(UtxoOps(t, coins, bids))
        = ((ToSet(s1) \cup ToSet(s2)) \cup ToSet(ad)) \cup ToSet(sp)
  BY <1>1, <1>2, <1>3, <1>4, Zenon
<1> QED BY <1>5 DEF s1, s2, ad, sp

SpendOf(c) == [type |-> "SpendUtxo", key |-> c.key, amount |-> c.amount]

LEMMA OwnSpends ==
  ASSUME NEW t, NEW coins, NEW bids, Paying(t, coins, bids)
  PROVE  {u \in ToSet(UtxoOps(t, coins, bids)) : u.type = "SpendUtxo"}
           = IF isBalanceModel THEN {} ELSE {SpendOf(c) : c \in coins \cup bids}
<1> DEFINE s1 == ToSet(SpendOps(coins))
           s2 == ToSet(SpendOps(bids))
           ad == ToSet(AddOps(Credits(t, coins, bids)))
           sp == ToSet(t.special)
           all == ToSet(UtxoOps(t, coins, bids))
<1>1. all = ((s1 \cup s2) \cup ad) \cup sp
  BY UtxoOpsElements
<1>2. \A u \in ad : u.type # "SpendUtxo"
  <2>1. Credits(t, coins, bids) \in Seq(CreditSet)
    BY UtxoOpsParts
  <2> QED BY <2>1, AddOpsFacts
<1>3. \A u \in sp : u.type # "SpendUtxo"
  BY DEF Paying, Money
<1>4. IsFiniteSet(coins) /\ IsFiniteSet(bids) /\ isBalanceModel \in BOOLEAN
  BY DEF Paying, Paid
<1>5. CASE isBalanceModel
  <2>1. \A u \in s1 \cup s2 : u.type = "SpendBalance"
    BY <1>4, <1>5, SpendOpsFacts
  <2> HIDE DEF s1, s2, ad, sp, all
  <2>2. \A u \in all : u.type # "SpendUtxo"
    BY <1>1, <1>2, <1>3, <2>1
  <2> QED BY <1>5, <2>2 DEF all
<1>6. CASE ~isBalanceModel
  <2>1. s1 = {SpendOf(c) : c \in coins} /\ s2 = {SpendOf(c) : c \in bids}
    BY <1>4, <1>6, SpendOpsFacts DEF SpendOf
  <2> HIDE DEF s1, s2, ad, sp, all
  <2>2. \A c : SpendOf(c).type = "SpendUtxo"
    BY DEF SpendOf
  <2>3. {u \in all : u.type = "SpendUtxo"} = s1 \cup s2
    BY <1>1, <1>2, <1>3, <2>1, <2>2
  <2>4. s1 \cup s2 = {SpendOf(c) : c \in coins \cup bids}
    BY <2>1
  <2> QED BY <1>6, <2>3, <2>4 DEF all
<1> QED BY <1>4, <1>5, <1>6

\* The amount of a spent output is found by its key.
LEMMA SpentAmount ==
  ASSUME NEW block,
         \A u, w \in Spends(block) : u.key = w.key => u.amount = w.amount
  PROVE  \A u \in Spends(block) : /\ u.key \in DOMAIN SpentUtxos(block)
                                  /\ SpentUtxos(block)[u.key] = u.amount
<1> DEFINE S == Spends(block)
           K == {u.key : u \in S}
           The(k) == CHOOSE u \in S : u.key = k
<1>1. SpentUtxos(block) = [k \in K |-> The(k).amount]
  BY DEF SpentUtxos
<1>2. ASSUME NEW u \in S
      PROVE  u.key \in K /\ The(u.key).amount = u.amount
  <2>1. The(u.key) \in S /\ The(u.key).key = u.key
    BY <1>2
  <2> HIDE DEF S, The
  <2>2. u.key \in K
    BY <1>2
  <2> QED BY <1>2, <2>1, <2>2 DEF S
<1> HIDE DEF K, The
<1> QED BY <1>1, <1>2

\* A coin is known by its key, and one of the genesis transaction by its index.
Known ==
  \/ isBalanceModel
  \/ /\ \A c, d \in unspent : c.key = d.key => c.amount = d.amount
     /\ \A c \in unspent :
          c.key[1] = 0 => GenesisOutputs[c.key[2] + 1].amount = c.amount

\* Spent outputs that agree with those of a transaction.
Agrees(txn, ops, spent) ==
  \A i \in DOMAIN txn.inputs :
    /\ txn.inputs[i] \in DOMAIN spent
    /\ \A u \in ToSet(ops) : (u.type = "SpendUtxo" /\ u.key = txn.inputs[i])
                               => spent[txn.inputs[i]] = u.amount

LEMMA InputKeysFacts ==
  ASSUME NEW coins, IsFiniteSet(coins)
  PROVE  /\ isBalanceModel => InputKeys(coins) = <<>>
         /\ ~isBalanceModel =>
              /\ DOMAIN InputKeys(coins) = DOMAIN SetToSeq(coins)
              /\ \A i \in DOMAIN SetToSeq(coins) :
                   /\ InputKeys(coins)[i] = SetToSeq(coins)[i].key
                   /\ SetToSeq(coins)[i] \in coins
         /\ DOMAIN SetToSeq(coins) = 1..Len(SetToSeq(coins))
         /\ Len(SetToSeq(coins)) \in Nat
<1> DEFINE s == SetToSeq(coins)
<1>1. s \in Seq(coins)
  BY SetToSeqRenames
<1>2. InputKeys(coins) = IF isBalanceModel THEN <<>> ELSE [i \in DOMAIN s |-> s[i].key]
  BY DEF InputKeys
<1> HIDE DEF s
<1>3. DOMAIN s = 1..Len(s) /\ Len(s) \in Nat /\ \A i \in DOMAIN s : s[i] \in coins
  BY <1>1
<1> QED BY <1>2, <1>3 DEF s

\* One input for each coin.
LEMMA CoinInputs ==
  ASSUME NEW k, NEW coins, Paid(k, coins), NEW ops,
         DOMAIN ops = DOMAIN SetToSeq(coins), ops = [i \in DOMAIN ops |-> ops[i]],
         \A i \in DOMAIN ops : ops[i] = Input(Main(k), -SetToSeq(coins)[i].amount)
  PROVE  /\ ops \in Seq(Ops)
         /\ \A a : ValueOf(ops, a) = Entry(Move(Main(k), -AmountOf(coins)), a)
<1> DEFINE s == SetToSeq(coins)
<1>1. IsFiniteSet(coins) /\ k \in Keys /\ s \in Seq(coins)
      /\ \A c \in coins : c.publicKey = k /\ c.amount \in Int
  BY SetToSeqRenames DEF Paid
<1> HIDE DEF s
<1>2. DOMAIN s = 1..Len(s) /\ Len(s) \in Nat
      /\ \A i \in DOMAIN s : s[i] \in coins /\ s[i].amount \in Int
  BY <1>1
<1>3. \A i \in DOMAIN ops : /\ ops[i].account = Main(k) /\ ops[i].value = -s[i].amount
                            /\ ops[i] \in Ops
  BY <1>1, <1>2, MainAccount DEF s, Input, Operation, Ops
<1>4. ops \in Seq(Ops)
  <2>1. DOMAIN ops = 1..Len(s)
    BY <1>2 DEF s
  <2> QED BY <1>2, <1>3, <2>1
<1>5. \A a : ValueOf(ops, a) = Entry(Move(Main(k), -AmountOf(coins)), a)
  BY <1>1, <1>3, CoinsValue DEF s
<1> QED BY <1>4, <1>5

LEMMA OwnInputs ==
  ASSUME NEW t, NEW coins, NEW bids, Paying(t, coins, bids), NEW spent,
         Agrees(Txn(t, coins, bids), UtxoOps(t, coins, bids), spent)
  PROVE  LET ops == TxInputs(Txn(t, coins, bids), spent)
         IN  /\ ops \in Seq(Ops)
             /\ \A a : ValueOf(ops, a)
                         = IF isBalanceModel THEN 0 ELSE CoinEntry(t, coins, a)
<1> DEFINE s == SetToSeq(coins)
           keys == InputKeys(coins)
           k == t.publicKey
           ops == TxInputs(Txn(t, coins, bids), spent)
           all == UtxoOps(t, coins, bids)
<1>1. Paid(k, coins) /\ IsFiniteSet(coins) /\ isBalanceModel \in BOOLEAN
  BY DEF Paying, Paid
<1>2. /\ Txn(t, coins, bids).inputs = keys /\ Txn(t, coins, bids).publicKey = k
      /\ ops = [i \in DOMAIN keys |->
                  Input(Main(k), IF keys[i] \in DOMAIN spent
                                 THEN -spent[keys[i]] ELSE 0)]
  BY DEF Txn, TxInputs
<1>3. CASE isBalanceModel
  <2>1. keys = <<>>
    BY <1>1, <1>3, InputKeysFacts
  <2>2. ops = <<>>
    BY <1>2, <2>1
  <2> QED BY <1>3, <2>2, NoOps
<1>4. CASE ~isBalanceModel
  <2>1. DOMAIN keys = DOMAIN s /\ \A i \in DOMAIN s : keys[i] = s[i].key /\ s[i] \in coins
    BY <1>1, <1>4, InputKeysFacts
  <2>2. ASSUME NEW i \in DOMAIN s
        PROVE  keys[i] \in DOMAIN spent /\ spent[keys[i]] = s[i].amount
    <3>1. SpendOf(s[i]) \in ToSet(all)
      <4>1. s[i] \in coins \cup bids
        BY <2>1
      <4> HIDE DEF s, all
      <4>2. SpendOf(s[i]) \in {SpendOf(c) : c \in coins \cup bids}
        BY <4>1
      <4>3. {SpendOf(c) : c \in coins \cup bids} \subseteq ToSet(all)
        BY <1>4, OwnSpends DEF all
      <4> QED BY <4>2, <4>3
    <3>2. /\ SpendOf(s[i]).type = "SpendUtxo" /\ SpendOf(s[i]).key = s[i].key
          /\ SpendOf(s[i]).amount = s[i].amount
      BY DEF SpendOf
    <3>3. \A j \in DOMAIN keys :
            /\ keys[j] \in DOMAIN spent
            /\ \A u \in ToSet(all) : (u.type = "SpendUtxo" /\ u.key = keys[j])
                                       => spent[keys[j]] = u.amount
      BY <1>2 DEF Agrees
    <3> HIDE DEF s, keys, all
    <3> QED BY <2>1, <3>1, <3>2, <3>3
  <2> HIDE DEF s, keys, k, ops
  <2>3. /\ DOMAIN ops = DOMAIN s /\ ops = [i \in DOMAIN ops |-> ops[i]]
        /\ \A i \in DOMAIN ops : ops[i] = Input(Main(k), -s[i].amount)
    BY <1>2, <2>1, <2>2
  <2>4. ops \in Seq(Ops) /\ \A a : ValueOf(ops, a) = Entry(Move(Main(k), -AmountOf(coins)), a)
    BY <1>1, <2>3, CoinInputs DEF s
  <2> QED BY <1>4, <2>4 DEF ops, k, CoinEntry
<1> QED BY <1>1, <1>3, <1>4

\* The inputs of another key that the metadata lists.
LEMMA BidderOps ==
  ASSUME NEW t, NEW coins, NEW bids, Paying(t, coins, bids), Known
  PROVE  LET inputs == Txn(t, coins, bids).bidderInputs
             all    == UtxoOps(t, coins, bids)
             ops    == BidderInputs(t.bidder, inputs, all)
         IN  /\ InputsAreFound(inputs, all)
             /\ ops \in Seq(Ops)
             /\ \A a : ValueOf(ops, a)
                         = IF isBalanceModel THEN 0 ELSE BidEntry(t, bids, a)
<1> DEFINE s == SetToSeq(bids)
           keys == InputKeys(bids)
           k == t.bidder
           all == UtxoOps(t, coins, bids)
           spent == SpentUtxos(<< all >>)
           ops == BidderInputs(k, keys, all)
<1>1. Paid(k, bids) /\ IsFiniteSet(bids) /\ isBalanceModel \in BOOLEAN
  BY DEF Paying, Paid
<1>2. /\ Txn(t, coins, bids).bidderInputs = keys
      /\ ops = [i \in DOMAIN keys |-> Input(Main(k), getInputAmount(keys[i], all))]
  BY DEF Txn, BidderInputs
<1>3. CASE isBalanceModel
  <2>1. keys = <<>>
    BY <1>1, <1>3, InputKeysFacts
  <2>2. ops = <<>> /\ InputsAreFound(keys, all)
    BY <1>2, <2>1 DEF InputsAreFound
  <2> QED BY <1>2, <1>3, <2>2, NoOps
<1>4. CASE ~isBalanceModel
  <2>1. DOMAIN keys = DOMAIN s /\ \A i \in DOMAIN s : keys[i] = s[i].key /\ s[i] \in bids
    BY <1>1, <1>4, InputKeysFacts
  <2>2. \A c \in bids : c.key \in DOMAIN spent /\ spent[c.key] = c.amount
    <3> HIDE DEF all
    <3>1. Spends(<< all >>) = {SpendOf(c) : c \in coins \cup bids}
      <4>1. Spends(<< all >>) = {u \in ToSet(all) : u.type = "SpendUtxo"}
        BY DEF Spends
      <4>2. {u \in ToSet(all) : u.type = "SpendUtxo"} = {SpendOf(c) : c \in coins \cup bids}
        BY <1>4, OwnSpends DEF all
      <4> QED BY <4>1, <4>2
    <3>2. \A c : SpendOf(c).key = c.key /\ SpendOf(c).amount = c.amount
      BY DEF SpendOf
    <3>3. \A c \in coins \cup bids : c \in unspent
      BY <1>4 DEF Paying, Paid
    <3>4. \A c, d \in unspent : c.key = d.key => c.amount = d.amount
      BY <1>4 DEF Known
    <3>5. ASSUME NEW u \in Spends(<< all >>), NEW w \in Spends(<< all >>), u.key = w.key
          PROVE  u.amount = w.amount
      <4>1. PICK c \in coins \cup bids : u = SpendOf(c)
        BY <3>1
      <4>2. PICK d \in coins \cup bids : w = SpendOf(d)
        BY <3>1
      <4> QED BY <3>2, <3>3, <3>4, <3>5, <4>1, <4>2
    <3>6. \A u \in Spends(<< all >>) : u.key \in DOMAIN spent /\ spent[u.key] = u.amount
      BY <3>5, SpentAmount
    <3> HIDE DEF spent
    <3>7. \A c \in bids : SpendOf(c) \in Spends(<< all >>)
      BY <3>1
    <3> QED BY <3>2, <3>6, <3>7
  <2>3. \A c \in bids : getInputAmount(c.key, all) = -c.amount
    <3>1. \A c \in bids : c \in unspent
      BY <1>4 DEF Paying, Paid
    <3>2. \A c \in unspent : c.key[1] = 0 => GenesisOutputs[c.key[2] + 1].amount = c.amount
      BY <1>4 DEF Known
    <3> QED BY <2>2, <3>1, <3>2 DEF getInputAmount
  <2>4. InputsAreFound(keys, all)
    BY <2>1, <2>2 DEF InputsAreFound
  <2> HIDE DEF s, keys, k, ops, all
  <2>5. /\ DOMAIN ops = DOMAIN s /\ ops = [i \in DOMAIN ops |-> ops[i]]
        /\ \A i \in DOMAIN ops : ops[i] = Input(Main(k), -s[i].amount)
    <3>1. \A i \in DOMAIN s : getInputAmount(keys[i], all) = -s[i].amount
      BY <2>1, <2>3
    <3> QED BY <1>2, <2>1, <3>1
  <2>6. ops \in Seq(Ops) /\ \A a : ValueOf(ops, a) = Entry(Move(Main(k), -AmountOf(bids)), a)
    BY <1>1, <2>5, CoinInputs DEF s
  <2> QED BY <1>2, <1>4, <2>4, <2>6 DEF ops, k, keys, all, BidEntry
<1> QED BY <1>1, <1>3, <1>4

\* What is of another type than money is what the core library adds to it.
LEMMA OwnType ==
  ASSUME NEW t, NEW coins, NEW bids, Paying(t, coins, bids), NEW type, type \notin Money
  PROVE  OfType(UtxoOps(t, coins, bids), {type}) = OfType(t.special, {type})
<1> DEFINE s1 == SpendOps(coins)
           s2 == SpendOps(bids)
           ad == AddOps(Credits(t, coins, bids))
           sp == t.special
           T(u) == OfType(u, {type})
<1>1. /\ UtxoOps(t, coins, bids) = Cat(Cat(Cat(s1, s2), ad), sp)
      /\ Credits(t, coins, bids) \in Seq(CreditSet)
      /\ IsSeq(s1) /\ IsSeq(s2) /\ IsSeq(ad) /\ IsSeq(sp)
      /\ IsSeq(Cat(s1, s2)) /\ IsSeq(Cat(Cat(s1, s2), ad))
  BY UtxoOpsParts DEF Paying
<1>2. /\ \A u \in ToSet(s1) : u.type \notin {type}
      /\ \A u \in ToSet(s2) : u.type \notin {type}
      /\ \A u \in ToSet(ad) : u.type \notin {type}
  <2>1. /\ \A u \in ToSet(s1) : u.type \in Money
        /\ \A u \in ToSet(s2) : u.type \in Money
    BY SpendOpsFacts DEF Paying, Paid, Money
  <2>2. \A u \in ToSet(ad) : u.type \in Money
    BY <1>1, AddOpsFacts DEF Money
  <2> HIDE DEF s1, s2, ad
  <2> QED BY <2>1, <2>2
<1> HIDE DEF s1, s2, ad, sp, T
<1>3. T(s1) = <<>> /\ T(s2) = <<>> /\ T(ad) = <<>>
  BY <1>1, <1>2, OfTypeNone DEF T
<1>4. IsSeq(T(sp))
  BY <1>1, OfTypeConcat DEF T
<1>5. /\ T(Cat(s1, s2)) = Cat(T(s1), T(s2))
      /\ T(Cat(Cat(s1, s2), ad)) = Cat(T(Cat(s1, s2)), T(ad))
      /\ T(Cat(Cat(Cat(s1, s2), ad), sp)) = Cat(T(Cat(Cat(s1, s2), ad)), T(sp))
  BY <1>1, OfTypeConcat DEF T
<1>6. Cat(<<>>, <<>>) = <<>> /\ Cat(<<>>, T(sp)) = T(sp)
  BY <1>4, EmptyCat, EmptyIsSeq
<1>7. T(Cat(Cat(Cat(s1, s2), ad), sp)) = T(sp)
  BY <1>3, <1>5, <1>6, Zenon
<1> QED BY <1>1, <1>7, Zenon DEF T, sp

-----------------------------------------------------------------------------
(* The special operations of a transaction, kind by kind.                   *)

Nine(a, b, c, d, e, f, g, h, i) ==
  Cat(Cat(Cat(Cat(Cat(Cat(Cat(Cat(a, b), c), d), e), f), g), h), i)

LEMMA OneOfNine ==
  ASSUME NEW s, IsSeq(s)
  PROVE  /\ Nine(s, <<>>, <<>>, <<>>, <<>>, <<>>, <<>>, <<>>, <<>>) = s
         /\ Nine(<<>>, s, <<>>, <<>>, <<>>, <<>>, <<>>, <<>>, <<>>) = s
         /\ Nine(<<>>, <<>>, s, <<>>, <<>>, <<>>, <<>>, <<>>, <<>>) = s
         /\ Nine(<<>>, <<>>, <<>>, s, <<>>, <<>>, <<>>, <<>>, <<>>) = s
         /\ Nine(<<>>, <<>>, <<>>, <<>>, s, <<>>, <<>>, <<>>, <<>>) = s
         /\ Nine(<<>>, <<>>, <<>>, <<>>, <<>>, s, <<>>, <<>>, <<>>) = s
         /\ Nine(<<>>, <<>>, <<>>, <<>>, <<>>, <<>>, s, <<>>, <<>>) = s
         /\ Nine(<<>>, <<>>, <<>>, <<>>, <<>>, <<>>, <<>>, s, <<>>) = s
         /\ Nine(<<>>, <<>>, <<>>, <<>>, <<>>, <<>>, <<>>, <<>>, s) = s
<1>1. Cat(<<>>, <<>>) = <<>> /\ Cat(<<>>, s) = s /\ Cat(s, <<>>) = s
  BY EmptyCat, EmptyIsSeq
<1> QED BY <1>1 DEF Nine

SpecialTypes ==
  {"CreatorCoin", "SwapIdentity", "AcceptNFTBid", "NFTBid", "UpdateProfile",
   "DAOCoinLimitOrder", "Stake", "Unstake", "UnlockStake"}

\* A transaction has the special operations of its own type only.
LEMMA SpecialByType ==
  ASSUME NEW txn, NEW ops, NEW s, IsSeq(s)
  PROVE  /\ txn.type = "CreatorCoin" /\ s = getCreatorCoinOps(txn, ops)
              => SpecialOperations(txn, ops) = s
         /\ txn.type = "SwapIdentity" /\ s = getSwapIdentityOps(txn, ops)
              => SpecialOperations(txn, ops) = s
         /\ txn.type = "AcceptNFTBid" /\ s = getAcceptNFTOps(txn, ops)
              => SpecialOperations(txn, ops) = s
         /\ txn.type = "NFTBid" /\ s = getBuyNowNFTBidOps(txn, ops)
              => SpecialOperations(txn, ops) = s
         /\ txn.type = "UpdateProfile" /\ s = getUpdateProfileOps(txn, ops)
              => SpecialOperations(txn, ops) = s
         /\ txn.type = "DAOCoinLimitOrder" /\ s = getDAOCoinLimitOrderOps(txn, ops)
              => SpecialOperations(txn, ops) = s
         /\ txn.type = "Stake" /\ s = getStakeOps(txn, ops)
              => SpecialOperations(txn, ops) = s
         /\ txn.type = "Unstake" /\ s = getUnstakeOps(txn, ops)
              => SpecialOperations(txn, ops) = s
         /\ txn.type = "UnlockStake" /\ s = getUnlockStakeOps(txn, ops)
              => SpecialOperations(txn, ops) = s
         /\ txn.type \notin SpecialTypes => SpecialOperations(txn, ops) = <<>>
<1> DEFINE s1 == getCreatorCoinOps(txn, ops)
           s2 == getSwapIdentityOps(txn, ops)
           s3 == getAcceptNFTOps(txn, ops)
           s4 == getBuyNowNFTBidOps(txn, ops)
           s5 == getUpdateProfileOps(txn, ops)
           s6 == getDAOCoinLimitOrderOps(txn, ops)
           s7 == getStakeOps(txn, ops)
           s8 == getUnstakeOps(txn, ops)
           s9 == getUnlockStakeOps(txn, ops)
           all == SpecialOperations(txn, ops)
<1>1. all = Nine(s1, s2, s3, s4, s5, s6, s7, s8, s9)
  BY DEF SpecialOperations, Nine, Cat
<1>2. /\ txn.type # "CreatorCoin" => s1 = <<>>
      /\ txn.type # "SwapIdentity" => s2 = <<>>
      /\ txn.type # "AcceptNFTBid" => s3 = <<>>
      /\ txn.type # "NFTBid" => s4 = <<>>
      /\ txn.type # "UpdateProfile" => s5 = <<>>
      /\ txn.type # "DAOCoinLimitOrder" => s6 = <<>>
      /\ txn.type # "Stake" => s7 = <<>>
      /\ txn.type # "Unstake" => s8 = <<>>
      /\ txn.type # "UnlockStake" => s9 = <<>>
  BY DEF getCreatorCoinOps, getSwapIdentityOps, getAcceptNFTOps, getBuyNowNFTBidOps,
         getUpdateProfileOps, getDAOCoinLimitOrderOps, getStakeOps, getUnstakeOps,
         getUnlockStakeOps
<1> HIDE DEF s1, s2, s3, s4, s5, s6, s7, s8, s9, all
<1>3. txn.type = "CreatorCoin" /\ s = s1 => all = s
  BY <1>1, <1>2, OneOfNine
<1>4. txn.type = "SwapIdentity" /\ s = s2 => all = s
  BY <1>1, <1>2, OneOfNine
<1>5. txn.type = "AcceptNFTBid" /\ s = s3 => all = s
  BY <1>1, <1>2, OneOfNine
<1>6. txn.type = "NFTBid" /\ s = s4 => all = s
  BY <1>1, <1>2, OneOfNine
<1>7. txn.type = "UpdateProfile" /\ s = s5 => all = s
  BY <1>1, <1>2, OneOfNine
<1>8. txn.type = "DAOCoinLimitOrder" /\ s = s6 => all = s
  BY <1>1, <1>2, OneOfNine
<1>9. txn.type = "Stake" /\ s = s7 => all = s
  BY <1>1, <1>2, OneOfNine
<1>10. txn.type = "Unstake" /\ s = s8 => all = s
  BY <1>1, <1>2, OneOfNine
<1>11. txn.type = "UnlockStake" /\ s = s9 => all = s
  BY <1>1, <1>2, OneOfNine
<1>12. txn.type \notin SpecialTypes => all = <<>>
  BY <1>1, <1>2, OneOfNine, EmptyIsSeq DEF SpecialTypes
<1> QED BY <1>3, <1>4, <1>5, <1>6, <1>7, <1>8, <1>9, <1>10, <1>11, <1>12
        DEF s1, s2, s3, s4, s5, s6, s7, s8, s9, all

\* They are what the transaction moved beside DESO, some of it with the inverse
\* sign, and below the fork what its bidder paid.
SpecialRight(t, coins, bids) ==
  LET ops == SpecialOperations(Txn(t, coins, bids), UtxoOps(t, coins, bids))
  IN  /\ ops \in Seq(Ops)
      /\ \A a : ValueOf(ops, a)
                 = (ValueOf(t.moved, a) - 2 * ValueOf(t.inverse, a))
                   + (IF isBalanceModel THEN 0 ELSE BidEntry(t, bids, a))

LEMMA NoBids ==
  ASSUME NEW t
  PROVE  \A a : BidEntry(t, {}, a) = 0
<1>1. AmountOf({}) = 0
  BY SumEmpty DEF AmountOf, SumFunction
<1> QED BY <1>1 DEF BidEntry, Entry, Move

LEMMA InverseRight ==
  ASSUME NEW t, NEW coins, NEW ops \in Seq(Ops),
         SpecialOperations(Txn(t, coins, {}), UtxoOps(t, coins, {})) = ops,
         \A a : ValueOf(ops, a) = ValueOf(t.moved, a) - 2 * ValueOf(t.inverse, a)
  PROVE  SpecialRight(t, coins, {})
<1>1. ASSUME NEW a
      PROVE  ValueOf(ops, a) = (ValueOf(t.moved, a) - 2 * ValueOf(t.inverse, a))
                               + (IF isBalanceModel THEN 0 ELSE BidEntry(t, {}, a))
  <2> DEFINE r == ValueOf(t.moved, a) - 2 * ValueOf(t.inverse, a)
             b == IF isBalanceModel THEN 0 ELSE BidEntry(t, {}, a)
  <2>1. ValueOf(ops, a) \in Int /\ ValueOf(ops, a) = r
    BY OpsValue
  <2>2. b = 0
    BY NoBids
  <2> HIDE DEF r, b
  <2>3. ValueOf(ops, a) = r + b
    BY <2>1, <2>2
  <2> QED BY <2>3 DEF r, b
<1> QED BY <1>1 DEF SpecialRight

LEMMA NoInverse ==
  ASSUME NEW t, t.inverse = <<>>, \A a : ValueOf(t.moved, a) \in Int
  PROVE  \A a : ValueOf(t.moved, a) - 2 * ValueOf(t.inverse, a) = ValueOf(t.moved, a)
BY NoOps

LEMMA RightWithoutBids ==
  ASSUME NEW t, NEW coins, NEW ops \in Seq(Ops), t.inverse = <<>>,
         SpecialOperations(Txn(t, coins, {}), UtxoOps(t, coins, {})) = ops,
         \A a : ValueOf(ops, a) = ValueOf(t.moved, a)
  PROVE  SpecialRight(t, coins, {})
<1>1. ASSUME NEW a
      PROVE  ValueOf(ops, a) = ValueOf(t.moved, a) - 2 * ValueOf(t.inverse, a)
  <2>1. ValueOf(ops, a) \in Int /\ ValueOf(ops, a) = ValueOf(t.moved, a)
    BY OpsValue
  <2>2. ValueOf(t.inverse, a) = 0
    BY NoOps
  <2> QED BY <2>1, <2>2
<1> QED BY <1>1, InverseRight

LEMMA OneOp ==
  ASSUME NEW x \in Ops
  PROVE  << x >> \in Seq(Ops) /\ IsSeq(<< x >>) /\ \A a : ValueOf(<< x >>, a) = Entry(x, a)
<1>1. << x >> \in Seq(Ops) /\ x.value \in Int
  BY DEF Ops
<1> QED BY <1>1, SeqIsSeq, ValueOfOne

LEMMA OneMove ==
  ASSUME NEW b, NEW n \in Int
  PROVE  \A a : ValueOf(<< Move(b, n) >>, a) = IF b = a THEN n ELSE 0
<1> DEFINE m == Move(b, n)
<1>1. m.value \in Int /\ \A a : Entry(m, a) = IF b = a THEN n ELSE 0
  BY DEF Move, Entry
<1> HIDE DEF m
<1>2. \A a : ValueOf(<< m >>, a) = Entry(m, a)
  BY <1>1, ValueOfOne
<1> QED BY <1>1, <1>2 DEF m

\* A transaction without a bidder's payment and its one UTXO operation of its type.
LEMMA OneOfType ==
  ASSUME NEW t, NEW coins, NEW bids, Paying(t, coins, bids),
         NEW u, t.special = << u >>
  PROVE  OfType(UtxoOps(t, coins, bids), {u.type}) = << u >>
<1>1. IsSeq(<< u >>) /\ ToSet(<< u >>) = {u}
  BY DEF IsSeq, ToSet
<1>2. u.type \notin Money
  BY <1>1 DEF Paying
<1>3. OfType(<< u >>, {u.type}) = << u >>
  BY <1>1, OfTypeAll
<1> QED BY <1>2, <1>3, OwnType

LEMMA PlainRight ==
  ASSUME NEW t, NEW coins, Paying(t, coins, {}), t.type \notin SpecialTypes,
         t.moved = <<>>, t.inverse = <<>>
  PROVE  SpecialRight(t, coins, {})
<1>1. Txn(t, coins, {}).type = t.type
  BY DEF Txn
<1>2. SpecialOperations(Txn(t, coins, {}), UtxoOps(t, coins, {})) = <<>>
  BY <1>1, SpecialByType, EmptyIsSeq
<1> QED BY <1>2, NoOps, RightWithoutBids

LEMMA CreatorCoinRight ==
  ASSUME NEW t, NEW coins, Paying(t, coins, {}), t.type = "CreatorCoin",
         NEW y \in Keys, NEW n \in Int, t.meta.profile = y,
         t.meta.operation \in {"sell", "buy"},
         t.special = << [type |-> "CreatorCoin", lockedDiff |-> n] >>,
         t.moved = << Move(CreatorCoin(y), n) >>, t.inverse = <<>>
  PROVE  SpecialRight(t, coins, {})
<1> DEFINE u == [type |-> "CreatorCoin", lockedDiff |-> n]
           txn == Txn(t, coins, {})
           all == UtxoOps(t, coins, {})
           x == Operation(CreatorCoin(y),
                          IF txn.meta.operation = "sell" THEN "INPUT" ELSE "OUTPUT", n)
<1>1. /\ txn.type = "CreatorCoin" /\ txn.meta.profile = y
      /\ txn.meta.operation \in {"sell", "buy"}
  BY DEF Txn
<1>2. OfType(all, {"CreatorCoin"}) = << u >>
  <2>1. u.type = "CreatorCoin"
    OBVIOUS
  <2> HIDE DEF all, u
  <2> QED BY <2>1, OneOfType DEF all, u
<1>3. getCreatorCoinOps(txn, all) = << x >>
  <2> HIDE DEF txn, all
  <2> QED BY <1>1, <1>2 DEF getCreatorCoinOps
<1>4. x \in Ops /\ \A a : Entry(x, a) = IF CreatorCoin(y) = a THEN n ELSE 0
  BY MainAccount DEF Operation, Ops, Entry
<1> HIDE DEF x, txn, all
<1>5. << x >> \in Seq(Ops) /\ IsSeq(<< x >>) /\ \A a : ValueOf(<< x >>, a) = Entry(x, a)
  BY <1>4, OneOp
<1>6. SpecialOperations(txn, all) = << x >>
  BY <1>1, <1>3, <1>5, SpecialByType
<1>7. \A a : ValueOf(<< x >>, a) = ValueOf(t.moved, a)
  BY <1>4, <1>5, OneMove
<1> QED BY <1>5, <1>6, <1>7, RightWithoutBids DEF txn, all

LEMMA TwoOps ==
  ASSUME NEW x \in Ops, NEW y \in Ops
  PROVE  /\ << x, y >> \in Seq(Ops) /\ IsSeq(<< x, y >>)
         /\ \A a : ValueOf(<< x, y >>, a) = Entry(x, a) + Entry(y, a)
<1>1. << x, y >> \in Seq(Ops) /\ x.value \in Int /\ y.value \in Int
  BY DEF Ops
<1> QED BY <1>1, SeqIsSeq, ValueOfTwo

LEMMA TwoMoves ==
  ASSUME NEW b, NEW n \in Int, NEW c, NEW m \in Int
  PROVE  \A a : ValueOf(<< Move(b, n), Move(c, m) >>, a)
                  = (IF b = a THEN n ELSE 0) + (IF c = a THEN m ELSE 0)
<1> DEFINE x == Move(b, n)
           y == Move(c, m)
<1>1. /\ x.value \in Int /\ \A a : Entry(x, a) = IF b = a THEN n ELSE 0
      /\ y.value \in Int /\ \A a : Entry(y, a) = IF c = a THEN m ELSE 0
  BY DEF Move, Entry
<1> HIDE DEF x, y
<1>2. \A a : ValueOf(<< x, y >>, a) = Entry(x, a) + Entry(y, a)
  BY <1>1, ValueOfTwo
<1> QED BY <1>1, <1>2 DEF x, y

\* A SwapIdentity is right if it records what was locked before it, and wrong by
\* the sign if it records what is locked after it.
LEMMA SwapIdentityRight ==
  ASSUME NEW t, NEW coins, Paying(t, coins, {}), t.type = "SwapIdentity",
         NEW from \in Keys, NEW to \in Keys, NEW m \in Int, NEW n \in Int,
         t.meta.from = from, t.meta.to = to, t.special = << SwapRecord(m, n) >>,
         \/ /\ t.moved = << Move(CreatorCoin(from), n - m), Move(CreatorCoin(to), m - n) >>
            /\ t.inverse = <<>>
         \/ /\ t.moved = << Move(CreatorCoin(from), m - n), Move(CreatorCoin(to), n - m) >>
            /\ t.inverse = t.moved
  PROVE  SpecialRight(t, coins, {})
<1> DEFINE u == SwapRecord(m, n)
           txn == Txn(t, coins, {})
           all == UtxoOps(t, coins, {})
           b == CreatorCoin(from)
           c == CreatorCoin(to)
           p == << Input(b, -m), Input(c, -n) >>
           q == << Output(b, n), Output(c, m) >>
<1>1. txn.type = "SwapIdentity" /\ txn.meta.from = from /\ txn.meta.to = to
  BY DEF Txn
<1>2. OfType(all, {"SwapIdentity"}) = << u >>
  <2>1. u.type = "SwapIdentity"
    BY DEF SwapRecord
  <2> HIDE DEF all, u
  <2> QED BY <2>1, OneOfType DEF all, u
<1>3. getSwapIdentityOps(txn, all)
        = << Input(b, -m), Input(c, -n), Output(b, n), Output(c, m) >>
  <2>1. << u >>[1].fromLocked = m /\ << u >>[1].toLocked = n /\ << u >> # <<>>
    BY DEF SwapRecord
  <2> HIDE DEF txn, all, u
  <2> QED BY <1>1, <1>2, <2>1 DEF getSwapIdentityOps
<1>4. << Input(b, -m), Input(c, -n), Output(b, n), Output(c, m) >> = Cat(p, q)
  BY DEF Cat
<1>5. b \in Accounts /\ c \in Accounts
  BY MainAccount
<1> HIDE DEF txn, all, b, c
<1>6. /\ Input(b, -m) \in Ops /\ \A a : Entry(Input(b, -m), a) = IF b = a THEN -m ELSE 0
      /\ Input(c, -n) \in Ops /\ \A a : Entry(Input(c, -n), a) = IF c = a THEN -n ELSE 0
      /\ Output(b, n) \in Ops /\ \A a : Entry(Output(b, n), a) = IF b = a THEN n ELSE 0
      /\ Output(c, m) \in Ops /\ \A a : Entry(Output(c, m), a) = IF c = a THEN m ELSE 0
  BY <1>5 DEF Input, Output, Operation, Ops, Entry
<1>7. /\ p \in Seq(Ops) /\ q \in Seq(Ops)
      /\ \A a : ValueOf(p, a) = (IF b = a THEN -m ELSE 0) + (IF c = a THEN -n ELSE 0)
      /\ \A a : ValueOf(q, a) = (IF b = a THEN n ELSE 0) + (IF c = a THEN m ELSE 0)
  BY <1>6, TwoOps
<1> HIDE DEF p, q
<1>8. /\ Cat(p, q) \in Seq(Ops)
      /\ \A a : ValueOf(Cat(p, q), a) = ValueOf(p, a) + ValueOf(q, a)
  BY <1>7, OpsConcat
<1>9. SpecialOperations(txn, all) = Cat(p, q)
  <2>1. IsSeq(Cat(p, q))
    BY <1>8, SeqIsSeq
  <2>2. Cat(p, q) = getSwapIdentityOps(txn, all)
    BY <1>3, <1>4, Zenon
  <2> QED BY <1>1, <2>1, <2>2, SpecialByType
<1>10. ASSUME NEW a
       PROVE  ValueOf(Cat(p, q), a) = ValueOf(t.moved, a) - 2 * ValueOf(t.inverse, a)
  <2> DEFINE v(x, k) == IF x = a THEN k ELSE 0
             served == v(b, n - m) + v(c, m - n)
  <2>1. ValueOf(Cat(p, q), a) = (v(b, -m) + v(c, -n)) + (v(b, n) + v(c, m))
    BY <1>7, <1>8
  <2>2. (v(b, -m) + v(c, -n)) + (v(b, n) + v(c, m)) = served
    OBVIOUS
  <2>3. served \in Int
    OBVIOUS
  <2>4. CASE /\ t.moved = << Move(b, n - m), Move(c, m - n) >>
             /\ t.inverse = <<>>
    <3>1. ValueOf(t.moved, a) = served
      BY <2>4, TwoMoves
    <3>2. ValueOf(t.inverse, a) = 0
      BY <2>4, NoOps
    <3> HIDE DEF v, served
    <3> QED BY <2>1, <2>2, <2>3, <3>1, <3>2
  <2>5. CASE /\ t.moved = << Move(b, m - n), Move(c, n - m) >>
             /\ t.inverse = t.moved
    <3>1. ValueOf(t.moved, a) = v(b, m - n) + v(c, n - m)
      BY <2>5, TwoMoves
    <3>2. v(b, m - n) + v(c, n - m) = -served
      OBVIOUS
    <3> HIDE DEF v, served
    <3> QED BY <2>1, <2>2, <2>3, <2>5, <3>1, <3>2
  <2> HIDE DEF v, served
  <2> QED BY <2>4, <2>5 DEF b, c
<1> QED BY <1>8, <1>9, <1>10, InverseRight DEF txn, all

LEMMA UpdateProfileRight ==
  ASSUME NEW t, NEW coins, Paying(t, coins, {}), t.type = "UpdateProfile",
         NEW lost \in Int, t.publicKey \in Keys,
         t.special = << [type |-> "UpdateProfile", clobberedLocked |-> lost] >>,
         t.moved = << Move(CreatorCoin(t.publicKey), -lost) >>, t.inverse = <<>>
  PROVE  SpecialRight(t, coins, {})
<1> DEFINE u == [type |-> "UpdateProfile", clobberedLocked |-> lost]
           txn == Txn(t, coins, {})
           all == UtxoOps(t, coins, {})
           c == CreatorCoin(t.publicKey)
           x == Input(c, -lost)
<1>1. txn.type = "UpdateProfile" /\ txn.publicKey = t.publicKey
  BY DEF Txn
<1>2. OfType(all, {"UpdateProfile"}) = << u >>
  <2>1. u.type = "UpdateProfile"
    OBVIOUS
  <2> HIDE DEF all, u
  <2> QED BY <2>1, OneOfType DEF all, u
<1>3. getUpdateProfileOps(txn, all) = IF lost = 0 THEN <<>> ELSE << x >>
  <2>1. << u >>[1].clobberedLocked = lost /\ << u >> # <<>>
    OBVIOUS
  <2> HIDE DEF txn, all, u
  <2> QED BY <1>1, <1>2, <2>1 DEF getUpdateProfileOps
<1>4. x \in Ops /\ \A a : Entry(x, a) = IF c = a THEN -lost ELSE 0
  BY MainAccount DEF Input, Operation, Ops, Entry
<1>5. \A a : ValueOf(t.moved, a) = IF c = a THEN -lost ELSE 0
  BY OneMove
<1> HIDE DEF x, c, txn, all
<1>6. CASE lost = 0
  <2>1. SpecialOperations(txn, all) = <<>>
    BY <1>1, <1>3, <1>6, SpecialByType, EmptyIsSeq
  <2>2. \A a : ValueOf(<<>>, a) = ValueOf(t.moved, a)
    BY <1>5, <1>6, NoOps
  <2> QED BY <2>1, <2>2, NoOps, RightWithoutBids DEF txn, all
<1>7. CASE lost # 0
  <2>1. << x >> \in Seq(Ops) /\ IsSeq(<< x >>) /\ \A a : ValueOf(<< x >>, a) = Entry(x, a)
    BY <1>4, OneOp
  <2>2. SpecialOperations(txn, all) = << x >>
    BY <1>1, <1>3, <1>7, <2>1, SpecialByType
  <2>3. \A a : ValueOf(<< x >>, a) = ValueOf(t.moved, a)
    BY <1>4, <1>5, <2>1
  <2> QED BY <2>1, <2>2, <2>3, RightWithoutBids DEF txn, all
<1> QED BY <1>6, <1>7

LEMMA ValidatorAccount ==
  ASSUME NEW v \in Validators
  PROVE  /\ ValidatorEntry(v) \in Accounts
         /\ \A s \in Keys, e \in Epochs : LockedStake(s, v, e) \in Accounts
BY DEF Accounts

LEMMA StakeRight ==
  ASSUME NEW t, NEW coins, Paying(t, coins, {}), t.type = "Stake",
         NEW v \in Validators, NEW n \in Int, t.meta.amount = n,
         t.special = << [type |-> "Stake", validator |-> v] >>,
         t.moved = << Move(ValidatorEntry(v), n) >>, t.inverse = <<>>
  PROVE  SpecialRight(t, coins, {})
<1> DEFINE u == [type |-> "Stake", validator |-> v]
           txn == Txn(t, coins, {})
           all == UtxoOps(t, coins, {})
           c == ValidatorEntry(v)
           x == Output(c, n)
<1>1. txn.type = "Stake" /\ txn.meta.amount = n
  BY DEF Txn
<1>2. OfType(all, {"Stake"}) = << u >>
  <2>1. u.type = "Stake"
    OBVIOUS
  <2> HIDE DEF all, u
  <2> QED BY <2>1, OneOfType DEF all, u
<1>3. getStakeOps(txn, all) = << x >>
  <2>1. DOMAIN << u >> = {1} /\ << u >>[1].validator = v
    OBVIOUS
  <2>2. getStakeOps(txn, all) = [i \in DOMAIN << u >> |->
                                   Output(ValidatorEntry(<< u >>[i].validator), n)]
    <3> HIDE DEF txn, all, u
    <3> QED BY <1>1, <1>2 DEF getStakeOps
  <2>3. [i \in {1} |-> x] = << x >>
    <3> HIDE DEF x
    <3> QED OBVIOUS
  <2> HIDE DEF u, txn, all
  <2> QED BY <2>1, <2>2, <2>3
<1>4. x \in Ops /\ \A a : Entry(x, a) = IF c = a THEN n ELSE 0
  BY ValidatorAccount DEF Output, Operation, Ops, Entry
<1>5. \A a : ValueOf(t.moved, a) = IF c = a THEN n ELSE 0
  BY OneMove
<1> HIDE DEF x, c, txn, all
<1>6. << x >> \in Seq(Ops) /\ IsSeq(<< x >>) /\ \A a : ValueOf(<< x >>, a) = Entry(x, a)
  BY <1>4, OneOp
<1>7. SpecialOperations(txn, all) = << x >>
  BY <1>1, <1>3, <1>6, SpecialByType
<1>8. \A a : ValueOf(<< x >>, a) = ValueOf(t.moved, a)
  BY <1>4, <1>5, <1>6
<1> QED BY <1>6, <1>7, <1>8, RightWithoutBids DEF txn, all

\* Sequences of one or two sequences, one after the other.
LEMMA FlattenOne ==
  ASSUME NEW s
  PROVE  FlattenSeq(<< s >>) = s
<1> DEFINE Step(g) == [i \in 1..1 |-> IF i = 1 THEN << s >>[i] ELSE g[i - 1] \o << s >>[i]]
           f == [i \in 1..1 |-> s]
           h == CHOOSE g : g = Step(g)
<1>1. FlattenSeq(<< s >>) = h[1]
  BY DEF FlattenSeq
<1>2. f = Step(f)
  OBVIOUS
<1>3. \E g : g = Step(g)
  <2> HIDE DEF f, Step
  <2> QED BY <1>2
<1>4. h = Step(h)
  <2> HIDE DEF Step
  <2> QED BY <1>3
<1>5. Step(h)[1] = s
  <2> HIDE DEF h
  <2> QED OBVIOUS
<1> HIDE DEF h, Step
<1> QED BY <1>1, <1>4, <1>5, Zenon

LEMMA FlattenTwo ==
  ASSUME NEW s, NEW t
  PROVE  FlattenSeq(<< s, t >>) = Cat(s, t)
<1> DEFINE w == << s, t >>
           Step(g) == [i \in 1..2 |-> IF i = 1 THEN w[i] ELSE Cat(g[i - 1], w[i])]
           f == [i \in 1..2 |-> IF i = 1 THEN s ELSE Cat(s, t)]
           h == CHOOSE g : g = Step(g)
<1>1. FlattenSeq(w) = h[2]
  BY DEF FlattenSeq, Cat
<1>2. f = Step(f)
  OBVIOUS
<1>3. \E g : g = Step(g)
  <2> HIDE DEF f, Step
  <2> QED BY <1>2
<1>4. h = Step(h)
  <2> HIDE DEF Step
  <2> QED BY <1>3
<1> HIDE DEF h
<1>5. h[1] = s
  BY <1>4
<1>6. h[2] = Cat(h[1], t)
  BY <1>4
<1> QED BY <1>1, <1>5, <1>6, Zenon

\* An Unstake is right but for the sign of what it takes from the validator's entry.
LEMMA UnstakeRight ==
  ASSUME NEW t, NEW coins, Paying(t, coins, {}), t.type = "Unstake",
         NEW x \in Keys, NEW v \in Validators, NEW e \in Epochs, NEW n \in Int,
         t.meta.amount = n,
         t.special = << [type |-> "Unstake", staker |-> x, validator |-> v,
                         epoch |-> e] >>,
         t.moved = << Move(ValidatorEntry(v), -n), Move(LockedStake(x, v, e), n) >>,
         t.inverse = << Move(ValidatorEntry(v), -n) >>
  PROVE  SpecialRight(t, coins, {})
<1> DEFINE u == [type |-> "Unstake", staker |-> x, validator |-> v, epoch |-> e]
           txn == Txn(t, coins, {})
           all == UtxoOps(t, coins, {})
           b == ValidatorEntry(v)
           c == LockedStake(x, v, e)
           p == << Input(b, n), Output(c, n) >>
<1>1. txn.type = "Unstake" /\ txn.meta.amount = n
  BY DEF Txn
<1>2. OfType(all, {"Unstake"}) = << u >>
  <2>1. u.type = "Unstake"
    OBVIOUS
  <2> HIDE DEF all, u
  <2> QED BY <2>1, OneOfType DEF all, u
<1>3. getUnstakeOps(txn, all) = p
  <2>1. /\ DOMAIN << u >> = {1} /\ << u >>[1].validator = v
        /\ << u >>[1].staker = x /\ << u >>[1].epoch = e
    OBVIOUS
  <2> DEFINE w == << u >>
             pairs == [i \in DOMAIN w |->
                         << Input(ValidatorEntry(w[i].validator), n),
                            Output(LockedStake(w[i].staker, w[i].validator,
                                               w[i].epoch), n) >>]
  <2>2. getUnstakeOps(txn, all) = FlattenSeq(pairs)
    <3> HIDE DEF txn, all, u
    <3> QED BY <1>1, <1>2 DEF getUnstakeOps
  <2> HIDE DEF w
  <2>3. pairs = [i \in {1} |-> p]
    BY <2>1 DEF w
  <2>4. [i \in {1} |-> p] = << p >>
    <3> HIDE DEF p
    <3> QED OBVIOUS
  <2> HIDE DEF pairs, p
  <2>5. FlattenSeq(<< p >>) = p
    BY FlattenOne
  <2> QED BY <2>2, <2>3, <2>4, <2>5, Zenon
<1>4. /\ Input(b, n) \in Ops /\ \A a : Entry(Input(b, n), a) = IF b = a THEN n ELSE 0
      /\ Output(c, n) \in Ops /\ \A a : Entry(Output(c, n), a) = IF c = a THEN n ELSE 0
  <2>1. b \in Accounts /\ c \in Accounts
    BY ValidatorAccount
  <2> HIDE DEF b, c
  <2> QED BY <2>1 DEF Input, Output, Operation, Ops, Entry
<1>5. \A a : /\ ValueOf(t.moved, a) = (IF b = a THEN -n ELSE 0) + (IF c = a THEN n ELSE 0)
             /\ ValueOf(t.inverse, a) = IF b = a THEN -n ELSE 0
  BY OneMove, TwoMoves
<1> HIDE DEF b, c, txn, all
<1>6. /\ p \in Seq(Ops) /\ IsSeq(p)
      /\ \A a : ValueOf(p, a) = (IF b = a THEN n ELSE 0) + (IF c = a THEN n ELSE 0)
  BY <1>4, TwoOps
<1> HIDE DEF p
<1>7. SpecialOperations(txn, all) = p
  BY <1>1, <1>3, <1>6, SpecialByType
<1>8. \A a : ValueOf(p, a) = ValueOf(t.moved, a) - 2 * ValueOf(t.inverse, a)
  BY <1>5, <1>6
<1> QED BY <1>6, <1>7, <1>8, InverseRight DEF txn, all

\* An UnlockStake is right but for the sign of the locked stakes that it pays out.
LEMMA UnlockStakeRight ==
  ASSUME NEW t, NEW coins, Paying(t, coins, {}), t.type = "UnlockStake",
         NEW entries, IsFiniteSet(entries), entries \subseteq Accounts,
         NEW f, \A a \in entries : f[a] \in Int,
         t.special = << [type |-> "UnlockStake", entries |->
              [i \in DOMAIN SetToSeq(entries) |->
                 [account |-> SetToSeq(entries)[i], amount |-> f[SetToSeq(entries)[i]]]]] >>,
         t.moved = [i \in DOMAIN SetToSeq(entries) |->
                      Move(SetToSeq(entries)[i], -f[SetToSeq(entries)[i]])],
         t.inverse = t.moved
  PROVE  SpecialRight(t, coins, {})
<1> DEFINE s == SetToSeq(entries)
           r == [i \in DOMAIN s |-> [account |-> s[i], amount |-> f[s[i]]]]
           u == [type |-> "UnlockStake", entries |-> r]
           txn == Txn(t, coins, {})
           all == UtxoOps(t, coins, {})
           p == [j \in DOMAIN r |-> Input(r[j].account, r[j].amount)]
<1>1. txn.type = "UnlockStake"
  BY DEF Txn
<1>2. /\ s \in Seq(entries) /\ DOMAIN s = 1..Len(s) /\ Len(s) \in Nat
      /\ \A i \in DOMAIN s : s[i] \in entries
  BY SetToSeqRenames
<1>3. OfType(all, {"UnlockStake"}) = << u >>
  <2>1. u.type = "UnlockStake" /\ t.special = << u >>
    OBVIOUS
  <2> HIDE DEF all, u
  <2> QED BY <2>1, OneOfType DEF all
<1> HIDE DEF s
<1>4. getUnlockStakeOps(txn, all) = p
  <2>1. DOMAIN << u >> = {1} /\ << u >>[1].entries = r
    <3> HIDE DEF r
    <3> QED OBVIOUS
  <2> DEFINE w == << u >>
             parts == [i \in DOMAIN w |->
                         [j \in DOMAIN w[i].entries |->
                            Input(w[i].entries[j].account, w[i].entries[j].amount)]]
  <2>2. getUnlockStakeOps(txn, all) = FlattenSeq(parts)
    <3> HIDE DEF txn, all, u
    <3> QED BY <1>1, <1>3 DEF getUnlockStakeOps
  <2> HIDE DEF w
  <2>3. parts = [i \in {1} |-> p]
    <3> HIDE DEF r, u
    <3> QED BY <2>1 DEF w
  <2>4. [i \in {1} |-> p] = << p >>
    <3> HIDE DEF p
    <3> QED OBVIOUS
  <2> HIDE DEF parts, p
  <2>5. FlattenSeq(<< p >>) = p
    BY FlattenOne
  <2> QED BY <2>2, <2>3, <2>4, <2>5, Zenon
<1>5. /\ DOMAIN p = DOMAIN s /\ p = [i \in DOMAIN s |-> p[i]]
      /\ \A i \in DOMAIN s : p[i] \in Ops /\ p[i].account = s[i] /\ p[i].value = f[s[i]]
  BY <1>2 DEF Input, Operation, Ops
<1>6. /\ DOMAIN t.moved = DOMAIN s
      /\ \A i \in DOMAIN s : t.moved[i].account = s[i] /\ t.moved[i].value = -f[s[i]]
  BY DEF s, Move
<1> HIDE DEF p, txn, all, r
<1>7. p \in Seq(Ops) /\ IsSeq(p)
  <2>1. p \in Seq(Ops)
    BY <1>2, <1>5
  <2> QED BY <2>1, SeqIsSeq
<1>8. SpecialOperations(txn, all) = p
  BY <1>1, <1>4, <1>7, SpecialByType
<1>9. ASSUME NEW a
      PROVE  ValueOf(p, a) = ValueOf(t.moved, a) - 2 * ValueOf(t.inverse, a)
  <2> DEFINE e == Entries(p, a)
             g == Entries(t.moved, a)
             N == DOMAIN s
  <2>1. IsFiniteSet(N)
    BY <1>2, FS_Interval
  <2>2. \A i \in N : e[i] \in Int /\ g[i] = -e[i]
    <3> TAKE i \in N
    <3>1. f[s[i]] \in Int
      BY <1>2
    <3>2. e[i] = IF s[i] = a THEN f[s[i]] ELSE 0
      BY <1>5 DEF Entries, Entry
    <3>3. g[i] = IF s[i] = a THEN -f[s[i]] ELSE 0
      BY <1>6 DEF Entries, Entry
    <3> HIDE DEF e, g
    <3> QED BY <3>1, <3>2, <3>3
  <2>3. ValueOf(p, a) = SumFunctionOnSet(e, N) /\ ValueOf(t.moved, a) = SumFunctionOnSet(g, N)
    BY <1>5, <1>6, ValueOfEntries DEF SumFunction, Entries
  <2> HIDE DEF e, g, N
  <2>4. SumFunctionOnSet(g, N) = -SumFunctionOnSet(e, N)
    BY <2>1, <2>2, SumNegative
  <2>5. ValueOf(p, a) \in Int
    BY <1>7, OpsValue
  <2>6. ValueOf(t.moved, a) = -ValueOf(p, a) /\ ValueOf(t.inverse, a) = ValueOf(t.moved, a)
    BY <2>3, <2>4
  <2> QED BY <2>5, <2>6
<1> QED BY <1>7, <1>8, <1>9, InverseRight DEF txn, all

\* The royalties of an NFT: what is shown is what is paid.
LEMMA CreatorRoyaltyRight ==
  ASSUME NEW u, u.royalty \in Nat, u.creator \in Keys
  PROVE  /\ CreatorRoyalty(u) \in Seq(Ops)
         /\ \A a : ValueOf(CreatorRoyalty(u), a)
                     = IF CreatorCoin(u.creator) = a
                       THEN (IF u.circulation >= Threshold
                             THEN u.royalty ELSE 0) ELSE 0
<1> DEFINE c == CreatorCoin(u.creator)
           n == u.royalty
           x == Output(c, n)
           paid == u.circulation >= Threshold
<1>1. CreatorRoyalty(u) = IF paid /\ n > 0 THEN << x >> ELSE <<>>
  BY DEF CreatorRoyalty
<1>2. x \in Ops /\ \A a : Entry(x, a) = IF c = a THEN n ELSE 0
  BY MainAccount DEF Output, Operation, Ops, Entry
<1>3. n \in Nat
  OBVIOUS
<1> HIDE DEF x, c, n, paid
<1>4. << x >> \in Seq(Ops) /\ \A a : ValueOf(<< x >>, a) = Entry(x, a)
  BY <1>2, OneOp
<1>5. CASE paid /\ n > 0
  BY <1>1, <1>2, <1>4, <1>5 DEF c, n, paid
<1>6. CASE ~(paid /\ n > 0)
  <2>1. (IF paid THEN n ELSE 0) = 0
    BY <1>3, <1>6
  <2> QED BY <1>1, <1>6, <2>1, NoOps DEF c, n, paid
<1> QED BY <1>5, <1>6

LEMMA CoinRoyaltiesRight ==
  ASSUME NEW d \in Keys, NEW q \in Nat
  PROVE  LET ops == addNFTRoyalties(<< Credit(d, q) >>)
         IN  /\ ops \in Seq(Ops)
             /\ \A a : ValueOf(ops, a) = IF CreatorCoin(d) = a THEN q ELSE 0
<1> DEFINE r == Credit(d, q)
           s == << r >>
           S == {z \in ToSet(s) : z.amount # 0}
           paid == Selection(s, S)
           c == CreatorCoin(d)
           x == Output(c, q)
           ops == addNFTRoyalties(s)
<1>1. /\ ops = [i \in DOMAIN paid |-> Output(CreatorCoin(paid[i].publicKey), paid[i].amount)]
      /\ r.publicKey = d /\ r.amount = q
  BY DEF addNFTRoyalties, Credit
<1>2. x \in Ops /\ \A a : Entry(x, a) = IF c = a THEN q ELSE 0
  BY MainAccount DEF Output, Operation, Ops, Entry
<1> HIDE DEF r
<1>3. IsSeq(s) /\ ToSet(s) = {r}
  BY DEF IsSeq, ToSet
<1> HIDE DEF s, ops
<1>4. CASE q = 0
  <2>1. ToSet(s) \cap S = {}
    BY <1>1, <1>3, <1>4
  <2>2. paid = <<>>
    BY <1>3, <2>1, SelectedNone
  <2>3. ops = <<>>
    BY <1>1, <2>2
  <2> QED BY <1>4, <2>3, NoOps DEF ops, s, r
<1>5. CASE q # 0
  <2>1. ToSet(s) \subseteq S
    BY <1>1, <1>3, <1>5
  <2>2. paid = s
    BY <1>3, <2>1, SelectedAll
  <2>3. ops = << x >>
    <3>1. DOMAIN s = {1} /\ s[1] = r
      BY DEF s
    <3> HIDE DEF paid
    <3>2. ops = [i \in {1} |-> x]
      BY <1>1, <2>2, <3>1
    <3>3. [i \in {1} |-> x] = << x >>
      <4> HIDE DEF x
      <4> QED OBVIOUS
    <3> QED BY <3>2, <3>3
  <2> HIDE DEF x, c
  <2>4. << x >> \in Seq(Ops) /\ \A a : ValueOf(<< x >>, a) = Entry(x, a)
    BY <1>2, OneOp
  <2> QED BY <1>2, <2>3, <2>4 DEF ops, s, r, c
<1> QED BY <1>4, <1>5

RoyaltyOps(u) == Cat(CreatorRoyalty(u), addNFTRoyalties(u.royalties))

LEMMA RoyaltiesRight ==
  ASSUME NEW type, NEW y, NEW s \in Royalties, NEW c \in Keys, NEW d \in Keys
  PROVE  /\ RoyaltyOps(NFTSold(type, y, s, c, d)) \in Seq(Ops)
         /\ RoyaltiesMoved(s, c, d) \in Seq(Moves)
         /\ CreatorRoyalty(NFTSold(type, y, s, c, d)) \in Seq(Ops)
         /\ addNFTRoyalties(<< Credit(d, s.q) >>) \in Seq(Ops)
         /\ \A a : ValueOf(RoyaltyOps(NFTSold(type, y, s, c, d)), a)
                     = ValueOf(RoyaltiesMoved(s, c, d), a)
<1> DEFINE u == NFTSold(type, y, s, c, d)
           p == CreatorRoyalty(u)
           q == addNFTRoyalties(u.royalties)
           n == IF s.circulation >= Threshold THEN s.r ELSE 0
<1>1. s.r \in Nat /\ s.q \in Nat /\ n \in Int
  BY RoyaltiesAssumption
<1>2. /\ u.prevCoinEntry = TRUE /\ u.royalty = s.r /\ u.creator = c
      /\ u.circulation = s.circulation /\ u.royalties = << Credit(d, s.q) >>
  BY DEF NFTSold
<1> HIDE DEF u
<1>3. /\ p \in Seq(Ops)
      /\ \A a : ValueOf(p, a) = IF CreatorCoin(c) = a THEN n ELSE 0
  <2>1. /\ p \in Seq(Ops)
        /\ \A a : ValueOf(p, a)
                    = IF CreatorCoin(u.creator) = a
                      THEN (IF u.circulation >= Threshold
                            THEN u.royalty ELSE 0) ELSE 0
    <3>1. u.royalty \in Nat /\ u.creator \in Keys
      BY <1>1, <1>2
    <3> QED BY <3>1, CreatorRoyaltyRight
  <2>2. n = IF u.circulation >= Threshold THEN u.royalty ELSE 0
    BY <1>2
  <2> HIDE DEF n, p
  <2> QED BY <1>2, <2>1, <2>2
<1>4. /\ q \in Seq(Ops)
      /\ \A a : ValueOf(q, a) = IF CreatorCoin(d) = a THEN s.q ELSE 0
  BY <1>1, <1>2, CoinRoyaltiesRight
<1>5. /\ \A a : ValueOf(RoyaltiesMoved(s, c, d), a)
                  = (IF CreatorCoin(c) = a THEN n ELSE 0)
                    + (IF CreatorCoin(d) = a THEN s.q ELSE 0)
      /\ RoyaltiesMoved(s, c, d) \in Seq(Moves)
  <2>1. RoyaltiesMoved(s, c, d) = << Move(CreatorCoin(c), n), Move(CreatorCoin(d), s.q) >>
    BY DEF RoyaltiesMoved
  <2>2. Move(CreatorCoin(c), n) \in Moves /\ Move(CreatorCoin(d), s.q) \in Moves
    BY <1>1, MainAccount DEF Move, Moves
  <2>3. s.q \in Int
    BY <1>1
  <2> HIDE DEF n
  <2>4. \A a : ValueOf(<< Move(CreatorCoin(c), n), Move(CreatorCoin(d), s.q) >>, a)
                 = (IF CreatorCoin(c) = a THEN n ELSE 0)
                   + (IF CreatorCoin(d) = a THEN s.q ELSE 0)
    BY <1>1, <2>3, TwoMoves
  <2> QED BY <2>1, <2>2, <2>4
<1> HIDE DEF p, q, n
<1>6. /\ Cat(p, q) \in Seq(Ops)
      /\ \A a : ValueOf(Cat(p, q), a) = ValueOf(p, a) + ValueOf(q, a)
  BY <1>3, <1>4, OpsConcat
<1>7. \A a : ValueOf(Cat(p, q), a) = ValueOf(RoyaltiesMoved(s, c, d), a)
  BY <1>3, <1>4, <1>5, <1>6
<1> QED BY <1>2, <1>3, <1>4, <1>5, <1>6, <1>7 DEF RoyaltyOps, p, q, u

LEMMA BuyNowRight ==
  ASSUME NEW t, NEW coins, Paying(t, coins, {}), t.type = "NFTBid",
         NEW y, NEW s \in Royalties, NEW c \in Keys, NEW d \in Keys,
         t.special = << NFTSold("NFTBid", y, s, c, d) >>,
         t.moved = RoyaltiesMoved(s, c, d), t.inverse = <<>>
  PROVE  SpecialRight(t, coins, {})
<1> DEFINE u == NFTSold("NFTBid", y, s, c, d)
           txn == Txn(t, coins, {})
           all == UtxoOps(t, coins, {})
           ops == RoyaltyOps(u)
<1>1. txn.type = "NFTBid"
  BY DEF Txn
<1>2. OfType(all, {"NFTBid"}) = << u >>
  <2>1. u.type = "NFTBid"
    BY DEF NFTSold
  <2> HIDE DEF all, u
  <2> QED BY <2>1, OneOfType DEF all, u
<1>9. u.prevCoinEntry = TRUE
  BY DEF NFTSold
<1>3. ops \in Seq(Ops) /\ \A a : ValueOf(ops, a) = ValueOf(t.moved, a)
  <2>1. RoyaltyOps(u) \in Seq(Ops)
    BY RoyaltiesRight
  <2>2. \A a : ValueOf(RoyaltyOps(u), a) = ValueOf(RoyaltiesMoved(s, c, d), a)
    <3> DEFINE p == CreatorRoyalty(u)
    <3>1. /\ p \in Seq(Ops) /\ addNFTRoyalties(<< Credit(d, s.q) >>) \in Seq(Ops)
          /\ \A a : ValueOf(RoyaltyOps(u), a) = ValueOf(RoyaltiesMoved(s, c, d), a)
      BY RoyaltiesRight
    <3> QED BY <3>1
  <2> QED BY <2>1, <2>2, Zenon
<1> HIDE DEF u, txn, all
<1>4. getBuyNowNFTBidOps(txn, all) = ops
  <2>1. << u >> # <<>> /\ << u >>[1] = u
    OBVIOUS
  <2>2. getBuyNowNFTBidOps(txn, all)
          = Cat(CreatorRoyalty(<< u >>[1]), addNFTRoyalties(<< u >>[1].royalties))
    BY <1>1, <1>2, <1>9, <2>1, Zenon DEF getBuyNowNFTBidOps, Cat
  <2> QED BY <2>1, <2>2 DEF RoyaltyOps
<1> HIDE DEF ops
<1>5. SpecialOperations(txn, all) = ops
  <2>1. IsSeq(ops)
    BY <1>3, SeqIsSeq
  <2> QED BY <1>1, <1>4, <2>1, SpecialByType
<1> QED BY <1>3, <1>5, RightWithoutBids DEF txn, all

\* A bid that waits has no coin entry, and shows no royalty.
LEMMA WaitingBidRight ==
  ASSUME NEW t, NEW coins, Paying(t, coins, {}), t.type = "NFTBid",
         NEW x \in Keys,
         t.special = << [type |-> "NFTBid", bidder |-> x, creator |-> x, royalty |-> 0,
                         prevCoinEntry |-> FALSE, circulation |-> 0,
                         royalties |-> <<>>] >>,
         t.moved = <<>>, t.inverse = <<>>
  PROVE  SpecialRight(t, coins, {})
<1> DEFINE u == [type |-> "NFTBid", bidder |-> x, creator |-> x, royalty |-> 0,
                 prevCoinEntry |-> FALSE, circulation |-> 0, royalties |-> <<>>]
           txn == Txn(t, coins, {})
           all == UtxoOps(t, coins, {})
<1>1. txn.type = "NFTBid"
  BY DEF Txn
<1>2. OfType(all, {"NFTBid"}) = << u >>
  <2>1. u.type = "NFTBid"
    OBVIOUS
  <2> HIDE DEF all, u
  <2> QED BY <2>1, OneOfType DEF all, u
<1>3. u.prevCoinEntry = FALSE
  OBVIOUS
<1>4. u.royalties = <<>>
  OBVIOUS
<1>5. addNFTRoyalties(<<>>) = <<>>
  <2>1. Selection(<<>>, {r \in ToSet(<<>>) : r.amount # 0}) = <<>>
    <3>1. ToSet(<<>>) \cap {r \in ToSet(<<>>) : r.amount # 0} = {}
      BY DEF ToSet
    <3> QED BY <3>1, EmptyIsSeq, SelectedNone
  <2> DEFINE paid == Selection(<<>>, {r \in ToSet(<<>>) : r.amount # 0})
  <2>2. addNFTRoyalties(<<>>)
          = [i \in DOMAIN paid |-> Output(CreatorCoin(paid[i].publicKey), paid[i].amount)]
    BY DEF addNFTRoyalties
  <2>3. paid = <<>>
    BY <2>1
  <2> HIDE DEF paid
  <2> QED BY <2>2, <2>3
<1> HIDE DEF u, txn, all
<1>6. getBuyNowNFTBidOps(txn, all) = <<>>
  <2>1. << u >> # <<>> /\ << u >>[1] = u
    OBVIOUS
  <2>2. getBuyNowNFTBidOps(txn, all)
          = Cat(<<>>, addNFTRoyalties(<< u >>[1].royalties))
    BY <1>1, <1>2, <1>3, <2>1, Zenon DEF getBuyNowNFTBidOps, Cat
  <2> QED BY <1>4, <1>5, <2>1, <2>2, EmptyIsSeq
<1>7. SpecialOperations(txn, all) = <<>>
  BY <1>1, <1>6, EmptyIsSeq, SpecialByType
<1> QED BY <1>7, NoOps, RightWithoutBids DEF txn, all

\* The bidder of an accepted bid pays for the NFT and its royalties.
LEMMA AcceptBidRight ==
  ASSUME NEW t, NEW coins, NEW bids, Paying(t, coins, bids), Known,
         t.type = "AcceptNFTBid",
         NEW s \in Royalties, NEW c \in Keys, NEW d \in Keys,
         t.special = << NFTSold("AcceptNFTBid", t.bidder, s, c, d) >>,
         t.moved = RoyaltiesMoved(s, c, d), t.inverse = <<>>
  PROVE  SpecialRight(t, coins, bids)
<1> DEFINE u == NFTSold("AcceptNFTBid", t.bidder, s, c, d)
           txn == Txn(t, coins, bids)
           all == UtxoOps(t, coins, bids)
           inputs == txn.bidderInputs
           b == BidderInputs(t.bidder, inputs, all)
           p == CreatorRoyalty(u)
           q == addNFTRoyalties(u.royalties)
           bid(a) == IF isBalanceModel THEN 0 ELSE BidEntry(t, bids, a)
<1>1. txn.type = "AcceptNFTBid"
  BY DEF Txn
<1>2. OfType(all, {"AcceptNFTBid"}) = << u >>
  <2>1. u.type = "AcceptNFTBid"
    BY DEF NFTSold
  <2> HIDE DEF all, u
  <2> QED BY <2>1, OneOfType DEF all, u
<1>3. u.bidder = t.bidder /\ u.royalties = << Credit(d, s.q) >>
  BY DEF NFTSold
<1>4. /\ p \in Seq(Ops) /\ q \in Seq(Ops)
      /\ \A a : ValueOf(Cat(p, q), a) = ValueOf(t.moved, a)
  <2>1. /\ p \in Seq(Ops) /\ addNFTRoyalties(<< Credit(d, s.q) >>) \in Seq(Ops)
        /\ \A a : ValueOf(RoyaltyOps(u), a) = ValueOf(RoyaltiesMoved(s, c, d), a)
    BY RoyaltiesRight
  <2>2. RoyaltyOps(u) = Cat(p, q)
    BY DEF RoyaltyOps
  <2> HIDE DEF p, u
  <2> QED BY <1>3, <2>1, <2>2, Zenon
<1>5. /\ InputsAreFound(inputs, all) /\ b \in Seq(Ops)
      /\ \A a : ValueOf(b, a) = bid(a)
  BY BidderOps
<1> HIDE DEF u, txn, all, bid
<1>6. getAcceptNFTOps(txn, all) = Cat(Cat(b, p), q)
  <2>1. << u >> # <<>> /\ << u >>[1] = u
    OBVIOUS
  <2>2. getAcceptNFTOps(txn, all)
          = Cat(Cat(BidderInputs(<< u >>[1].bidder, inputs, all),
                    CreatorRoyalty(<< u >>[1])), addNFTRoyalties(<< u >>[1].royalties))
    BY <1>1, <1>2, <1>5, <2>1, Zenon DEF getAcceptNFTOps, Cat
  <2> QED BY <1>3, <2>1, <2>2
<1> HIDE DEF b, p, q, inputs
<1>7. /\ Cat(b, p) \in Seq(Ops) /\ Cat(Cat(b, p), q) \in Seq(Ops)
      /\ \A a : ValueOf(Cat(Cat(b, p), q), a) = ValueOf(t.moved, a) + bid(a)
  <2>1. /\ Cat(b, p) \in Seq(Ops)
        /\ \A a : ValueOf(Cat(b, p), a) = ValueOf(b, a) + ValueOf(p, a)
    BY <1>4, <1>5, OpsConcat
  <2>2. /\ Cat(Cat(b, p), q) \in Seq(Ops)
        /\ \A a : ValueOf(Cat(Cat(b, p), q), a) = ValueOf(Cat(b, p), a) + ValueOf(q, a)
    BY <1>4, <2>1, OpsConcat
  <2>3. \A a : ValueOf(Cat(p, q), a) = ValueOf(p, a) + ValueOf(q, a)
    BY <1>4, OpsConcat
  <2>4. \A a : ValueOf(b, a) \in Int /\ ValueOf(p, a) \in Int /\ ValueOf(q, a) \in Int
    BY <1>4, <1>5, OpsValue
  <2>5. \A a : ValueOf(Cat(Cat(b, p), q), a) = ValueOf(t.moved, a) + bid(a)
    <3> TAKE a
    <3>1. ValueOf(Cat(Cat(b, p), q), a) = (ValueOf(b, a) + ValueOf(p, a)) + ValueOf(q, a)
      BY <2>1, <2>2
    <3>2. /\ ValueOf(t.moved, a) = ValueOf(p, a) + ValueOf(q, a)
          /\ bid(a) = ValueOf(b, a)
      BY <1>4, <1>5, <2>3
    <3> QED BY <2>4, <3>1, <3>2
  <2> QED BY <2>1, <2>2, <2>5
<1>8. SpecialOperations(txn, all) = Cat(Cat(b, p), q)
  <2>1. IsSeq(Cat(Cat(b, p), q))
    BY <1>7, SeqIsSeq
  <2> QED BY <1>1, <1>6, <2>1, SpecialByType
<1>9. \A a : ValueOf(Cat(Cat(b, p), q), a)
               = (ValueOf(t.moved, a) - 2 * ValueOf(t.inverse, a)) + bid(a)
  <2>1. Cat(p, q) \in Seq(Ops)
    BY <1>4, OpsConcat
  <2>2. \A a : ValueOf(t.moved, a) \in Int
    BY <1>4, <2>1, OpsValue
  <2> QED BY <1>7, <2>2, NoInverse
<1> QED BY <1>7, <1>8, <1>9 DEF SpecialRight, txn, all, bid

LEMMA LimitOrderRight ==
  ASSUME NEW t, NEW coins, NEW bids, Paying(t, coins, bids), Known,
         t.type = "DAOCoinLimitOrder", t.meta.bidder = t.bidder \/ bids = {},
         t.moved = <<>>, t.inverse = <<>>
  PROVE  SpecialRight(t, coins, bids)
<1> DEFINE txn == Txn(t, coins, bids)
           all == UtxoOps(t, coins, bids)
           inputs == txn.bidderInputs
           b == BidderInputs(t.bidder, inputs, all)
           bid(a) == IF isBalanceModel THEN 0 ELSE BidEntry(t, bids, a)
<1>1. txn.type = "DAOCoinLimitOrder" /\ txn.meta = t.meta /\ inputs = InputKeys(bids)
  BY DEF Txn
<1>2. /\ InputsAreFound(inputs, all) /\ b \in Seq(Ops)
      /\ \A a : ValueOf(b, a) = bid(a)
  BY BidderOps
<1>3. BidderInputs(t.meta.bidder, inputs, all) = b
  <2>1. CASE t.meta.bidder = t.bidder
    BY <2>1
  <2>2. CASE bids = {}
    <3>1. DOMAIN inputs = {}
      <4>1. IsFiniteSet({}) /\ isBalanceModel \in BOOLEAN
        BY FS_EmptySet DEF Paying
      <4>2. Len(SetToSeq({})) = 0
        BY <4>1, SetToSeqRenames, FS_EmptySet
      <4>3. DOMAIN InputKeys({}) = {}
        BY <4>1, <4>2, InputKeysFacts
      <4> QED BY <1>1, <2>2, <4>3
    <3> HIDE DEF inputs, all
    <3> QED BY <3>1 DEF BidderInputs
  <2> QED BY <2>1, <2>2
<1> HIDE DEF txn, all, bid, inputs
<1>4. getDAOCoinLimitOrderOps(txn, all) = b
  BY <1>1, <1>2, <1>3 DEF getDAOCoinLimitOrderOps, inputs
<1> HIDE DEF b
<1>5. SpecialOperations(txn, all) = b
  <2>1. IsSeq(b)
    BY <1>2, SeqIsSeq
  <2> QED BY <1>1, <1>4, <2>1, SpecialByType
<1>6. \A a : ValueOf(b, a) = (ValueOf(t.moved, a) - 2 * ValueOf(t.inverse, a)) + bid(a)
  BY <1>2, NoOps, OpsValue
<1> QED BY <1>2, <1>5, <1>6 DEF SpecialRight, txn, all, bid

-----------------------------------------------------------------------------
(* All operations of a transaction.                                         *)

LEMMA MovedValue ==
  ASSUME NEW t, NEW coins, NEW bids, Paying(t, coins, bids), t.moved \in Seq(Moves)
  PROVE  \A a : /\ CoinEntry(t, coins, a) \in Int /\ BidEntry(t, bids, a) \in Int
                /\ ValueOf(CreditMoves(Credits(t, coins, bids)), a) \in Int
                /\ ValueOf(t.moved, a) \in Int
                /\ ValueOf(Moved(t, coins, bids), a)
                     = ((CoinEntry(t, coins, a) + BidEntry(t, bids, a))
                        + ValueOf(CreditMoves(Credits(t, coins, bids)), a))
                       + ValueOf(t.moved, a)
<1> DEFINE x == Move(Main(t.publicKey), -AmountOf(coins))
           y == Move(Main(t.bidder), -AmountOf(bids))
           p == << x, y >>
           q == CreditMoves(Credits(t, coins, bids))
           r == t.moved
<1>1. /\ Paid(t.publicKey, coins) /\ Paid(t.bidder, bids)
      /\ t.publicKey \in Keys /\ t.bidder \in Keys
      /\ Credits(t, coins, bids) \in Seq(CreditSet)
  BY UtxoOpsParts DEF Paying, Paid
<1>2. /\ AmountOf(coins) \in Int /\ AmountOf(bids) \in Int
      /\ \A a : CoinEntry(t, coins, a) \in Int
      /\ \A a : BidEntry(t, bids, a) \in Int
  BY <1>1, EntryType DEF CoinEntry, BidEntry
<1>3. x \in Moves /\ y \in Moves /\ x.value \in Int /\ y.value \in Int
  BY <1>1, <1>2, MainAccount DEF Move, Moves
<1>4. q \in Seq(Moves)
  BY <1>1, CreditMovesConcat
<1>5. Moved(t, coins, bids) = Cat(Cat(p, q), r)
  BY DEF Moved, Cat
<1>6. /\ \A a : Entry(x, a) = CoinEntry(t, coins, a)
      /\ \A a : Entry(y, a) = BidEntry(t, bids, a)
  BY DEF CoinEntry, BidEntry
<1> HIDE DEF x, y, q, r
<1>7. /\ p \in Seq(Moves)
      /\ \A a : ValueOf(p, a) = CoinEntry(t, coins, a) + BidEntry(t, bids, a)
  BY <1>3, <1>6, ValueOfTwo
<1> HIDE DEF p
<1>8. /\ Cat(p, q) \in Seq(Moves)
      /\ \A a : /\ ValueOf(q, a) \in Int
                /\ ValueOf(Cat(p, q), a) = ValueOf(p, a) + ValueOf(q, a)
  BY <1>4, <1>7, MovesConcat
<1>9. \A a : /\ ValueOf(r, a) \in Int
             /\ ValueOf(Cat(Cat(p, q), r), a) = ValueOf(Cat(p, q), a) + ValueOf(r, a)
  BY <1>8, MovesConcat DEF r
<1> QED BY <1>2, <1>5, <1>7, <1>8, <1>9 DEF q, r

LEMMA PlainOperationsRight ==
  ASSUME NEW t, NEW coins, NEW bids, Paying(t, coins, bids), t.moved \in Seq(Moves),
         t.inverse \in Seq(Moves), UtxoOps(t, coins, bids) # <<>>,
         SpecialRight(t, coins, bids), NEW spent,
         Agrees(Txn(t, coins, bids), UtxoOps(t, coins, bids), spent)
  PROVE  LET ops == PlainOperations(Txn(t, coins, bids), isBalanceModel, spent,
                                    UtxoOps(t, coins, bids))
         IN  /\ ops \in Seq(Ops)
             /\ \A a : ValueOf(ops, a) = ValueOf(Moved(t, coins, bids), a)
                                          - 2 * ValueOf(t.inverse, a)
<1> DEFINE txn == Txn(t, coins, bids)
           all == UtxoOps(t, coins, bids)
           p == TxInputs(txn, spent)
           q == TxOutputs(txn, isBalanceModel)
           r == getBalanceModelSpends(all)
           s == getImplicitOutputs(Len(txn.outputs), all)
           w == SpecialOperations(txn, all)
           cr == CreditMoves(Credits(t, coins, bids))
           coin(a) == CoinEntry(t, coins, a)
           bid(a) == BidEntry(t, bids, a)
           ops == PlainOperations(txn, isBalanceModel, spent, all)
<1>1. ops = Cat(Cat(p, q), Cat(Cat(r, s), w))
  <2>1. all # <<>>
    OBVIOUS
  <2> HIDE DEF txn, all
  <2> QED BY <2>1 DEF PlainOperations, Cat
<1>2. p \in Seq(Ops) /\ \A a : ValueOf(p, a) = IF isBalanceModel THEN 0 ELSE coin(a)
  BY OwnInputs
<1>3. /\ q \in Seq(Ops) /\ s \in Seq(Ops)
      /\ \A a : ValueOf(q, a) + ValueOf(s, a) = ValueOf(cr, a)
  BY Receiving
<1>4. r \in Seq(Ops) /\ \A a : ValueOf(r, a) = IF isBalanceModel THEN coin(a) + bid(a) ELSE 0
  BY Spending
<1>5. /\ w \in Seq(Ops)
      /\ \A a : ValueOf(w, a) = (ValueOf(t.moved, a) - 2 * ValueOf(t.inverse, a))
                                + (IF isBalanceModel THEN 0 ELSE bid(a))
  BY DEF SpecialRight
<1>6. \A a : /\ coin(a) \in Int /\ bid(a) \in Int /\ ValueOf(cr, a) \in Int
             /\ ValueOf(t.moved, a) \in Int /\ ValueOf(t.inverse, a) \in Int
             /\ ValueOf(Moved(t, coins, bids), a)
                  = ((coin(a) + bid(a)) + ValueOf(cr, a)) + ValueOf(t.moved, a)
  <2>1. \A a : ValueOf(t.inverse, a) \in Int
    BY MovesConcat
  <2>2. \A a : /\ coin(a) \in Int /\ bid(a) \in Int /\ ValueOf(cr, a) \in Int
               /\ ValueOf(t.moved, a) \in Int
               /\ ValueOf(Moved(t, coins, bids), a)
                    = ((coin(a) + bid(a)) + ValueOf(cr, a)) + ValueOf(t.moved, a)
    BY MovedValue
  <2> QED BY <2>1, <2>2, Zenon
<1> HIDE DEF txn, all, p, q, r, s, w, cr, coin, bid, ops
<1>7. /\ Cat(p, q) \in Seq(Ops) /\ Cat(r, s) \in Seq(Ops)
      /\ Cat(Cat(r, s), w) \in Seq(Ops)
      /\ Cat(Cat(p, q), Cat(Cat(r, s), w)) \in Seq(Ops)
  BY <1>2, <1>3, <1>4, <1>5, CatType
<1>8. \A a : /\ ValueOf(p, a) \in Int /\ ValueOf(q, a) \in Int /\ ValueOf(r, a) \in Int
             /\ ValueOf(s, a) \in Int /\ ValueOf(w, a) \in Int
             /\ ValueOf(Cat(p, q), a) = ValueOf(p, a) + ValueOf(q, a)
             /\ ValueOf(Cat(r, s), a) = ValueOf(r, a) + ValueOf(s, a)
             /\ ValueOf(Cat(Cat(r, s), w), a) = ValueOf(Cat(r, s), a) + ValueOf(w, a)
             /\ ValueOf(Cat(Cat(p, q), Cat(Cat(r, s), w)), a)
                  = ValueOf(Cat(p, q), a) + ValueOf(Cat(Cat(r, s), w), a)
  <2>1. \A a : ValueOf(Cat(p, q), a) = ValueOf(p, a) + ValueOf(q, a)
    BY <1>2, <1>3, OpsConcat
  <2>2. \A a : ValueOf(Cat(r, s), a) = ValueOf(r, a) + ValueOf(s, a)
    BY <1>3, <1>4, OpsConcat
  <2>3. \A a : ValueOf(Cat(Cat(r, s), w), a) = ValueOf(Cat(r, s), a) + ValueOf(w, a)
    BY <1>5, <1>7, OpsConcat
  <2>4. \A a : ValueOf(Cat(Cat(p, q), Cat(Cat(r, s), w)), a)
                 = ValueOf(Cat(p, q), a) + ValueOf(Cat(Cat(r, s), w), a)
    BY <1>7, OpsConcat
  <2>5. \A a : /\ ValueOf(p, a) \in Int /\ ValueOf(q, a) \in Int /\ ValueOf(r, a) \in Int
               /\ ValueOf(s, a) \in Int /\ ValueOf(w, a) \in Int
    BY <1>2, <1>3, <1>4, <1>5, OpsValue
  <2> QED BY <2>1, <2>2, <2>3, <2>4, <2>5
<1>9. ASSUME NEW a
      PROVE  ValueOf(ops, a) = ValueOf(Moved(t, coins, bids), a) - 2 * ValueOf(t.inverse, a)
  <2> DEFINE vp == ValueOf(p, a)
             vq == ValueOf(q, a)
             vr == ValueOf(r, a)
             vs == ValueOf(s, a)
             vw == ValueOf(w, a)
             vc == ValueOf(cr, a)
             vm == ValueOf(t.moved, a)
             vi == ValueOf(t.inverse, a)
             total == ValueOf(ops, a)
             wanted == ValueOf(Moved(t, coins, bids), a)
             c == coin(a)
             b == bid(a)
  <2>1. total = (vp + vq) + ((vr + vs) + vw)
    <3>1. total = ValueOf(Cat(Cat(p, q), Cat(Cat(r, s), w)), a)
      BY <1>1
    <3> HIDE DEF total
    <3> QED BY <1>8, <3>1
  <2>2. /\ vp \in Int /\ vq \in Int /\ vr \in Int /\ vs \in Int /\ vw \in Int
        /\ c \in Int /\ b \in Int /\ vc \in Int /\ vm \in Int
        /\ vi \in Int
        /\ wanted = ((c + b) + vc) + vm
    BY <1>6, <1>8
  <2>3. /\ vp = IF isBalanceModel THEN 0 ELSE c
        /\ vq + vs = vc
        /\ vr = IF isBalanceModel THEN c + b ELSE 0
        /\ vw = (vm - 2 * vi) + (IF isBalanceModel THEN 0 ELSE b)
    BY <1>2, <1>3, <1>4, <1>5
  <2> HIDE DEF vp, vq, vr, vs, vw, vc, vm, vi, total, wanted, c, b
  <2>4. ASSUME isBalanceModel
        PROVE  total = wanted - 2 * vi
    <3>1. vp = 0 /\ vr = c + b /\ vw = vm - 2 * vi
      BY <2>2, <2>3, <2>4
    <3> QED BY <2>1, <2>2, <2>3, <3>1
  <2>5. ASSUME ~isBalanceModel
        PROVE  total = wanted - 2 * vi
    <3>1. vp = c /\ vr = 0 /\ vw = (vm - 2 * vi) + b
      BY <2>3, <2>5
    <3> QED BY <2>1, <2>2, <2>3, <3>1
  <2>6. total = wanted - 2 * vi
    BY <2>4, <2>5
  <2> QED BY <2>6 DEF total, wanted, vi
<1> QED BY <1>1, <1>7, <1>9 DEF ops, txn, all

-----------------------------------------------------------------------------
(* The invariant.                                                           *)

\* Operations that change each account as the ledger changed, but for movements
\* they take with the inverse sign.
Converts(ops, inverse, before, after) ==
  /\ ops \in Seq(Ops)
  /\ inverse \in Seq(Moves)
  /\ \A a \in Accounts :
       ValueOf(ops, a) = (after[a] - before[a]) - 2 * ValueOf(inverse, a)

\* A transaction and its UTXO operations, whatever else the block spends.
Right(above, txn, ops, inverse, before, after) ==
  /\ \A i \in DOMAIN txn.inputs :
       \E u \in ToSet(ops) : u.type = "SpendUtxo" /\ u.key = txn.inputs[i]
  /\ above => txn.inputs = <<>>
  /\ \A spent : Agrees(txn, ops, spent) =>
       Converts(getOperationsForTransaction(txn, above, spent, ops),
                inverse, before, after)

Shape ==
  /\ isBalanceModel \in BOOLEAN /\ closed \in BOOLEAN
  /\ IsSeq(txns) /\ IsSeq(utxoOps) /\ IsSeq(ledgers) /\ IsSeq(inverted)
  /\ Len(inverted) = Len(txns)
  /\ \/ Len(utxoOps) = Len(txns) /\ Len(ledgers) = Len(txns) + 1
     \/ closed /\ Len(utxoOps) = Len(txns) + 1 /\ Len(ledgers) = Len(txns) + 2
  /\ \A i \in 1..Len(ledgers) : ledgers[i] \in [Accounts -> 0..MaxBalance]

\* Outputs of the block and of before, spent and unspent, are known by their keys.
CoinsRight ==
  /\ IsFiniteSet(unspent)
  /\ unspent \subseteq [key : Nat \X Nat, publicKey : Keys, amount : Int]
  /\ \/ isBalanceModel
     \/ /\ \A c, d \in unspent \cup Spends(utxoOps) : c.key = d.key => c.amount = d.amount
        /\ \A c \in unspent \cup Spends(utxoOps) : c.key[1] \in 0..Len(txns)
        /\ \A c \in unspent :
             c.key[1] = 0 => GenesisOutputs[c.key[2] + 1].amount = c.amount

\* Every transaction so far is converted right, and will be whatever follows.
TxnsRight ==
  \A i \in 1..Len(txns) :
    Right(isBalanceModel, txns[i], utxoOps[i], inverted[i], ledgers[i], ledgers[i + 1])

\* The operations of the block itself, which spend nothing.
BlockRight ==
  Len(utxoOps) = Len(txns) + 1 =>
    /\ isBalanceModel
    /\ Converts(BlockLevelOperations(utxoOps[Len(utxoOps)]), <<>>,
                ledgers[Len(txns) + 1], ledgers[Len(txns) + 2])

Inv == Shape /\ CoinsRight /\ TxnsRight /\ BlockRight

LEMMA AppendFacts ==
  ASSUME NEW s, IsSeq(s), NEW x
  PROVE  /\ IsSeq(Append(s, x)) /\ Len(Append(s, x)) = Len(s) + 1 /\ Len(s) \in Nat
         /\ \A i \in 1..Len(s) : Append(s, x)[i] = s[i]
         /\ Append(s, x)[Len(s) + 1] = x
<1> DEFINE A == ToSet(s) \cup {x}
<1>1. s \in Seq(A)
  BY IsSeqFacts
<1> HIDE DEF A
<1>2. x \in A
  BY DEF A
<1>3. Append(s, x) \in Seq(A)
  BY <1>1, <1>2
<1>4. IsSeq(Append(s, x))
  BY <1>3, SeqIsSeq
<1> QED BY <1>1, <1>2, <1>4

LEMMA SubSeqFacts ==
  ASSUME NEW s, IsSeq(s), NEW n \in 0..Len(s)
  PROVE  /\ IsSeq(SubSeq(s, 1, n)) /\ Len(SubSeq(s, 1, n)) = n
         /\ \A i \in 1..n : SubSeq(s, 1, n)[i] = s[i]
<1> DEFINE A == ToSet(s)
<1>1. s \in Seq(A)
  BY DEF IsSeq
<1> HIDE DEF A
<1>2. /\ SubSeq(s, 1, n) \in Seq(A) /\ Len(SubSeq(s, 1, n)) = n
      /\ \A i \in 1..n : SubSeq(s, 1, n)[i] = s[i]
  BY <1>1
<1>3. IsSeq(SubSeq(s, 1, n))
  BY <1>2, SeqIsSeq
<1> QED BY <1>2, <1>3

\* A transaction leaves operations behind, whoever pays.
Recorded(t) == t.special # <<>> \/ t.outputs # <<>> \/ t.implicit # <<>>

\* What a transaction is to be, whoever pays.
Plan(t) ==
  /\ t.type # "AtomicTxnsWrapper"
  /\ t.publicKey \in Keys /\ t.bidder \in Keys /\ t.price \in Int /\ t.bid \in Int
  /\ t.outputs \in Seq(CreditSet) /\ t.implicit \in Seq(CreditSet)
  /\ IsSeq(t.special) /\ \A u \in ToSet(t.special) : u.type \notin Money
  /\ t.moved \in Seq(Moves) /\ t.inverse \in Seq(Moves)
  /\ \A i \in DOMAIN t.moved : t.moved[i].account \notin {Main(k) : k \in Keys}
  /\ Recorded(t)

LEMMA PaymentFacts ==
  ASSUME CoinsRight, isBalanceModel \in BOOLEAN, NEW k \in Keys, NEW n \in Int,
         NEW coins \in Payments(k, n)
  PROVE  Paid(k, coins) /\ (n = 0 => coins = {})
<1>1. CASE n = 0
  <2>1. coins = {}
    BY <1>1 DEF Payments
  <2> QED BY <2>1, FS_EmptySet DEF Paid
<1>2. CASE n # 0 /\ isBalanceModel
  <2>1. coins = {[publicKey |-> k, amount |-> n]}
    BY <1>2 DEF Payments
  <2>2. IsFiniteSet(coins)
    BY <2>1, FS_Singleton
  <2> QED BY <1>2, <2>1, <2>2 DEF Paid
<1>3. CASE n # 0 /\ ~isBalanceModel
  <2>1. coins \subseteq unspent /\ \A c \in coins : c.publicKey = k
    BY <1>3 DEF Payments, OwnedBy
  <2>2. IsFiniteSet(coins)
    BY <2>1, FS_Subset DEF CoinsRight
  <2>3. \A c \in coins : c.amount \in Int
    BY <2>1 DEF CoinsRight
  <2> QED BY <1>3, <2>1, <2>2, <2>3 DEF Paid
<1> QED BY <1>1, <1>2, <1>3

LEMMA PlanPays ==
  ASSUME CoinsRight, isBalanceModel \in BOOLEAN, NEW t, Plan(t),
         NEW coins \in Payments(t.publicKey, t.price),
         NEW bids \in Payments(t.bidder, t.bid)
  PROVE  Paying(t, coins, bids) /\ (t.bid = 0 => bids = {})
<1>1. Paid(t.publicKey, coins) /\ Paid(t.bidder, bids) /\ (t.bid = 0 => bids = {})
  BY PaymentFacts DEF Plan
<1>2. AmountOf(coins) \in Int /\ AmountOf(bids) \in Int
  BY <1>1, EntryType DEF Plan
<1>3. ASSUME NEW k \in Keys, NEW c, AmountOf(c) \in Int, NEW n \in Int
      PROVE  Change(k, c, n) \in Seq(CreditSet)
  <2>1. Credit(k, AmountOf(c) - n) \in CreditSet
    BY <1>3 DEF Credit, CreditSet
  <2> HIDE DEF CreditSet
  <2> QED BY <2>1 DEF Change
<1>4. /\ Change(t.publicKey, coins, t.price) \in Seq(CreditSet)
      /\ Change(t.bidder, bids, t.bid) \in Seq(CreditSet)
  BY <1>2, <1>3 DEF Plan
<1>5. Outputs(t, coins) \in Seq(CreditSet) /\ Implicit(t, bids) \in Seq(CreditSet)
  <2>1. t.outputs \in Seq(CreditSet) /\ t.implicit \in Seq(CreditSet)
    BY DEF Plan
  <2>2. /\ Outputs(t, coins) = Cat(t.outputs, Change(t.publicKey, coins, t.price))
        /\ Implicit(t, bids) = Cat(t.implicit, Change(t.bidder, bids, t.bid))
    BY DEF Outputs, Implicit, Cat
  <2> QED BY <1>4, <2>1, <2>2, CatType
<1> QED BY <1>1, <1>5 DEF Paying, Plan

LEMMA SomeUtxoOps ==
  ASSUME NEW t, NEW coins, NEW bids, Paying(t, coins, bids), Plan(t)
  PROVE  UtxoOps(t, coins, bids) # <<>>
<1> DEFINE first == SpendOps(coins)
           second == SpendOps(bids)
           added == AddOps(Credits(t, coins, bids))
           p == Cat(first, second)
           q == Cat(p, added)
           credits == Credits(t, coins, bids)
<1>1. /\ UtxoOps(t, coins, bids) = Cat(q, t.special) /\ credits \in Seq(CreditSet)
      /\ credits = Cat(Outputs(t, coins), Implicit(t, bids))
      /\ IsSeq(first) /\ IsSeq(second) /\ IsSeq(added) /\ IsSeq(p) /\ IsSeq(q)
  BY UtxoOpsParts
<1>2. IsSeq(t.special)
  BY DEF Plan
<1>3. Len(added) = Len(credits)
  <2>1. DOMAIN added = DOMAIN credits
    BY <1>1, AddOpsFacts
  <2>2. DOMAIN added = 1..Len(added) /\ Len(added) \in Nat
    <3> HIDE DEF added
    <3> QED BY <1>1, IsSeqFacts
  <2>3. DOMAIN credits = 1..Len(credits) /\ Len(credits) \in Nat
    <3> HIDE DEF credits, CreditSet
    <3> QED BY <1>1
  <2> DEFINE x == Len(added)
             y == Len(credits)
  <2>4. x \in Nat /\ y \in Nat /\ 1..x = 1..y
    BY <2>1, <2>2, <2>3
  <2> HIDE DEF x, y
  <2>5. x = y
    BY <2>4
  <2> QED BY <2>5 DEF x, y
<1>4. /\ Len(Cat(q, t.special)) = Len(q) + Len(t.special)
      /\ Len(q) = Len(p) + Len(added)
      /\ Len(p) \in Nat /\ Len(q) \in Nat /\ Len(added) \in Nat /\ Len(t.special) \in Nat
  <2>1. Len(Cat(q, t.special)) = Len(q) + Len(t.special)
    <3> HIDE DEF q
    <3> QED BY <1>1, <1>2, ConcatIsSeq
  <2>2. Len(q) = Len(p) + Len(added)
    <3> HIDE DEF p, added
    <3> QED BY <1>1, ConcatIsSeq
  <2>3. Len(p) \in Nat /\ Len(q) \in Nat /\ Len(added) \in Nat /\ Len(t.special) \in Nat
    <3> HIDE DEF p, q, added
    <3> QED BY <1>1, <1>2, IsSeqFacts
  <2> QED BY <2>1, <2>2, <2>3
<1> DEFINE length == Len(Cat(q, t.special))
<1>5. length # 0 => UtxoOps(t, coins, bids) # <<>>
  <2> HIDE DEF first, second, added, p, q
  <2> QED BY <1>1
<1>6. \A k, m \in Nat : (k # 0 \/ m # 0) => k + m # 0
  OBVIOUS
<1>7. (Len(added) # 0 \/ Len(t.special) # 0) => length # 0
  <2> DEFINE a == Len(added)
             b == Len(p)
             x == Len(t.special)
             y == Len(q)
  <2>1. /\ a \in Nat /\ b \in Nat /\ x \in Nat /\ y \in Nat
        /\ length = y + x /\ y = b + a
    <3> HIDE DEF first, second, added, p, q
    <3> QED BY <1>4
  <2> HIDE DEF a, b, x, y, length
  <2>2. a # 0 => y # 0
    BY <1>6, <2>1
  <2>3. (a # 0 \/ x # 0) => length # 0
    BY <1>6, <2>1, <2>2
  <2> QED BY <2>3 DEF a, x
<1> HIDE DEF first, second, added, p, q, length
<1>8. CASE t.special # <<>>
  <2>1. Len(t.special) # 0
    BY <1>2, <1>8 DEF IsSeq
  <2> QED BY <1>5, <1>7, <2>1
<1>9. CASE t.outputs # <<>> \/ t.implicit # <<>>
  <2> DEFINE o == Outputs(t, coins)
             i == Implicit(t, bids)
             c == Change(t.publicKey, coins, t.price)
             d == Change(t.bidder, bids, t.bid)
  <2>1. o = Cat(t.outputs, c) /\ i = Cat(t.implicit, d)
    BY DEF Outputs, Implicit, Cat
  <2>2. IsSeq(c) /\ IsSeq(d)
    <3>1. \A x : IsSeq(<< x >>)
      <4> TAKE x
      <4>1. << x >> \in Seq({x})
        OBVIOUS
      <4> QED BY <4>1, SeqIsSeq
    <3> QED BY <3>1, EmptyIsSeq DEF Change
  <2>3. /\ t.outputs \in Seq(CreditSet) /\ t.implicit \in Seq(CreditSet)
        /\ o \in Seq(CreditSet) /\ i \in Seq(CreditSet)
    BY DEF Plan, Paying
  <2> HIDE DEF o, i, c, d, credits, CreditSet
  <2>4. IsSeq(t.outputs) /\ IsSeq(t.implicit) /\ IsSeq(o) /\ IsSeq(i)
    BY <2>3, SeqIsSeq
  <2>5. /\ Len(o) = Len(t.outputs) + Len(c) /\ Len(i) = Len(t.implicit) + Len(d)
    BY <2>1, <2>2, <2>4, ConcatIsSeq
  <2>6. Len(Cat(o, i)) = Len(o) + Len(i)
    BY <2>4, ConcatIsSeq
  <2>7. /\ Len(t.outputs) \in Nat /\ Len(t.implicit) \in Nat /\ Len(c) \in Nat
        /\ Len(d) \in Nat
    BY <2>2, <2>4, IsSeqFacts
  <2>8. Len(t.outputs) # 0 \/ Len(t.implicit) # 0
    BY <1>9, <2>3
  <2>9. Len(credits) = Len(o) + Len(i)
    BY <1>1, <2>6 DEF o, i
  <2>10. Len(credits) # 0
    <3> DEFINE lo == Len(t.outputs)
               li == Len(t.implicit)
               lc == Len(c)
               ld == Len(d)
               x == Len(o)
               y == Len(i)
               z == Len(credits)
    <3>1. /\ lo \in Nat /\ li \in Nat /\ lc \in Nat /\ ld \in Nat /\ z = x + y
          /\ x = lo + lc /\ y = li + ld /\ (lo # 0 \/ li # 0)
      BY <2>5, <2>7, <2>8, <2>9
    <3> HIDE DEF lo, li, lc, ld, x, y, z
    <3>2. z # 0
      BY <3>1
    <3> QED BY <3>2 DEF z
  <2> QED BY <1>3, <1>5, <1>7, <2>10
<1> QED BY <1>8, <1>9 DEF Plan, Recorded

LEMMA CoinsKnown ==
  ASSUME CoinsRight
  PROVE  Known
BY DEF CoinsRight, Known

\* A connected transaction is right.
LEMMA ConnectedRight ==
  ASSUME NEW t, NEW coins, NEW bids, Paying(t, coins, bids), Plan(t),
         SpecialRight(t, coins, bids), NEW before, DOMAIN before = Accounts,
         \A a \in Accounts : before[a] \in Int
  PROVE  /\ Right(isBalanceModel, Txn(t, coins, bids), UtxoOps(t, coins, bids), t.inverse,
                  before, After(before, Moved(t, coins, bids)))
         /\ After(before, Moved(t, coins, bids)) \in [Accounts -> Int]
<1> DEFINE txn == Txn(t, coins, bids)
           all == UtxoOps(t, coins, bids)
           moved == Moved(t, coins, bids)
           after == After(before, moved)
<1>1. after = [a \in Accounts |-> before[a] + ValueOf(moved, a)]
  BY DEF After
<1>2. \A a : ValueOf(moved, a) \in Int
  <2>1. t.moved \in Seq(Moves)
    BY DEF Plan
  <2> QED BY <2>1, MovedValue
<1> HIDE DEF after, moved
<1>3. /\ after \in [Accounts -> Int]
      /\ \A a \in Accounts : ValueOf(moved, a) = after[a] - before[a]
  BY <1>1, <1>2
<1>4. txn.inputs = InputKeys(coins) /\ txn.type = t.type
  BY DEF Txn
<1>5. /\ IsFiniteSet(coins) /\ isBalanceModel \in BOOLEAN
  BY DEF Paying, Paid
<1>6. isBalanceModel => txn.inputs = <<>>
  BY <1>4, <1>5, InputKeysFacts
<1>7. \A i \in DOMAIN txn.inputs :
        \E u \in ToSet(all) : u.type = "SpendUtxo" /\ u.key = txn.inputs[i]
  <2>1. CASE isBalanceModel
    BY <1>6, <2>1
  <2>2. CASE ~isBalanceModel
    <3> SUFFICES ASSUME NEW i \in DOMAIN txn.inputs
                 PROVE  \E u \in ToSet(all) : u.type = "SpendUtxo" /\ u.key = txn.inputs[i]
      OBVIOUS
    <3> DEFINE c == SetToSeq(coins)[i]
    <3>1. c \in coins /\ txn.inputs[i] = c.key
      BY <1>4, <1>5, <2>2, InputKeysFacts
    <3> HIDE DEF c, txn, all
    <3>2. SpendOf(c) \in {SpendOf(d) : d \in coins \cup bids}
      BY <3>1
    <3>3. {SpendOf(d) : d \in coins \cup bids} \subseteq ToSet(all)
      BY <2>2, OwnSpends DEF all
    <3>4. SpendOf(c).type = "SpendUtxo" /\ SpendOf(c).key = c.key
      BY DEF SpendOf
    <3> QED BY <3>1, <3>2, <3>3, <3>4
  <2> QED BY <1>5, <2>1, <2>2
<1>8. ASSUME NEW spent, Agrees(txn, all, spent)
      PROVE  Converts(getOperationsForTransaction(txn, isBalanceModel, spent, all),
                      t.inverse, before, after)
  <2> DEFINE ops == PlainOperations(txn, isBalanceModel, spent, all)
  <2>1. getOperationsForTransaction(txn, isBalanceModel, spent, all) = ops
    <3>1. txn.type # "AtomicTxnsWrapper"
      BY <1>4 DEF Plan
    <3> HIDE DEF txn, all
    <3> QED BY <3>1 DEF getOperationsForTransaction
  <2>2. /\ ops \in Seq(Ops)
        /\ \A a : ValueOf(ops, a) = ValueOf(moved, a) - 2 * ValueOf(t.inverse, a)
    <3>1. t.moved \in Seq(Moves) /\ t.inverse \in Seq(Moves)
      BY DEF Plan
    <3>2. all # <<>>
      BY SomeUtxoOps
    <3> QED BY <1>8, <3>1, <3>2, PlainOperationsRight DEF moved
  <2> HIDE DEF ops
  <2>3. \A a \in Accounts :
          ValueOf(ops, a) = (after[a] - before[a]) - 2 * ValueOf(t.inverse, a)
    BY <1>3, <2>2
  <2>4. t.inverse \in Seq(Moves)
    BY DEF Plan
  <2> QED BY <2>1, <2>2, <2>3, <2>4 DEF Converts
<1> HIDE DEF txn, all
<1>9. Right(isBalanceModel, txn, all, t.inverse, before, after)
  BY <1>6, <1>7, <1>8 DEF Right
<1> QED BY <1>3, <1>9 DEF txn, all, after, moved

-----------------------------------------------------------------------------
(* A transaction keeps the invariant.                                       *)

NewCoins(credits) == {NewCoin(credits, i) : i \in DOMAIN credits}

LEMMA NewCoinsFacts ==
  ASSUME NEW credits \in Seq(CreditSet), Len(txns) \in Nat
  PROVE  /\ IsFiniteSet(NewCoins(credits))
         /\ NewCoins(credits) \subseteq [key : Nat \X Nat, publicKey : Keys, amount : Int]
         /\ \A i \in DOMAIN credits :
              /\ NewCoin(credits, i).key = << Len(txns) + 1, i - 1 >>
              /\ NewCoin(credits, i).publicKey = credits[i].publicKey
              /\ NewCoin(credits, i).amount = credits[i].amount
         /\ Renames([i \in DOMAIN credits |-> NewCoin(credits, i)],
                    DOMAIN credits, NewCoins(credits))
         /\ \A c, d \in NewCoins(credits) : c.key = d.key => c = d
         /\ \A c \in NewCoins(credits) : c.key[1] = Len(txns) + 1
<1> DEFINE n == Len(credits)
           T == NewCoins(credits)
           f == [i \in DOMAIN credits |-> NewCoin(credits, i)]
           l == Len(txns) + 1
<1>1. /\ n \in Nat /\ DOMAIN credits = 1..n /\ l \in Nat
      /\ \A i \in 1..n : credits[i].publicKey \in Keys /\ credits[i].amount \in Int
  <2>1. n \in Nat /\ DOMAIN credits = 1..n /\ \A i \in 1..n : credits[i] \in CreditSet
    <3> HIDE DEF CreditSet
    <3> QED OBVIOUS
  <2>2. l \in Nat
    OBVIOUS
  <2> HIDE DEF n, l
  <2> QED BY <2>1, <2>2 DEF CreditSet
<1>2. \A i : NewCoin(credits, i) = [key |-> << l, i - 1 >>,
                publicKey |-> credits[i].publicKey, amount |-> credits[i].amount]
  BY DEF NewCoin
<1> HIDE DEF l, n
<1>3. \A i \in 1..n : /\ NewCoin(credits, i).key = << l, i - 1 >>
                      /\ NewCoin(credits, i).publicKey = credits[i].publicKey
                      /\ NewCoin(credits, i).amount = credits[i].amount
                      /\ NewCoin(credits, i) \in T
  BY <1>1, <1>2 DEF NewCoins
<1>4. \A c \in T : \E i \in 1..n : c = NewCoin(credits, i)
  BY <1>1 DEF NewCoins
<1>5. \A i, j \in 1..n : NewCoin(credits, i).key = NewCoin(credits, j).key => i = j
  <2> TAKE i, j \in 1..n
  <2>1. << l, i - 1 >> = << l, j - 1 >> => i = j
    BY <1>1
  <2> QED BY <1>3, <2>1
<1>6. T \subseteq [key : Nat \X Nat, publicKey : Keys, amount : Int]
  <2> SUFFICES ASSUME NEW i \in 1..n
               PROVE  NewCoin(credits, i) \in [key : Nat \X Nat, publicKey : Keys, amount : Int]
    BY <1>4
  <2> DEFINE key == << l, i - 1 >>
             x == [key |-> key, publicKey |-> credits[i].publicKey,
                   amount |-> credits[i].amount]
  <2>1. key \in Nat \X Nat
    BY <1>1
  <2>2. NewCoin(credits, i) = x
    BY <1>2
  <2>3. credits[i].publicKey \in Keys /\ credits[i].amount \in Int
    BY <1>1
  <2> HIDE DEF key
  <2>4. x \in [key : Nat \X Nat, publicKey : Keys, amount : Int]
    BY <2>1, <2>3
  <2> QED BY <2>2, <2>4
<1>7. f \in Surjection(DOMAIN credits, T)
  <2>1. f \in [DOMAIN credits -> T]
    BY <1>1, <1>3
  <2>2. \A c \in T : \E i \in DOMAIN credits : f[i] = c
    BY <1>1, <1>4
  <2> HIDE DEF f, T
  <2> QED BY <2>1, <2>2 DEF Surjection
<1>8. IsFiniteSet(T)
  <2>1. IsFiniteSet(DOMAIN credits)
    <3>1. IsFiniteSet(1..n)
      BY <1>1, FS_Interval
    <3> QED BY <1>1, <3>1
  <2> HIDE DEF T, f
  <2> QED BY <1>7, <2>1, FS_Surjection
<1>9. Renames(f, DOMAIN credits, T)
  <2>1. \A i \in DOMAIN credits : f[i] = NewCoin(credits, i)
    OBVIOUS
  <2> HIDE DEF f, T
  <2>2. \A c \in T : \E i \in DOMAIN credits : f[i] = c
    BY <1>1, <1>4, <2>1
  <2>3. \A i \in DOMAIN credits : f[i] \in T
    BY <1>1, <1>3, <2>1
  <2>4. \A i, j \in DOMAIN credits : f[i] = f[j] => i = j
    BY <1>1, <1>5, <2>1
  <2> QED BY <2>2, <2>3, <2>4 DEF Renames
<1>10. \A c, d \in T : c.key = d.key => c = d
  <2> HIDE DEF T
  <2> QED BY <1>4, <1>5
<1>11. \A c \in T : c.key[1] = l
  <2> TAKE c \in T
  <2>1. PICK i \in 1..n : c = NewCoin(credits, i)
    BY <1>4
  <2>2. c.key = << l, i - 1 >>
    BY <1>3, <2>1
  <2> QED BY <2>2
<1> QED BY <1>1, <1>3, <1>6, <1>8, <1>9, <1>10, <1>11 DEF T, l

LEMMA SpendsAppend ==
  ASSUME NEW s, IsSeq(s), NEW x
  PROVE  Spends(Append(s, x)) = Spends(s) \cup {u \in ToSet(x) : u.type = "SpendUtxo"}
<1> DEFINE r == Append(s, x)
           n == Len(s)
           S == UNION {ToSet(s[i]) : i \in DOMAIN s}
           R == UNION {ToSet(r[i]) : i \in DOMAIN r}
<1>1. /\ DOMAIN r = 1..n + 1 /\ DOMAIN s = 1..n /\ n \in Nat
      /\ \A i \in 1..n : r[i] = s[i]
      /\ r[n + 1] = x
  <2>1. IsSeq(r) /\ Len(r) = n + 1
    BY AppendFacts
  <2>2. DOMAIN r = 1..Len(r)
    <3> HIDE DEF r
    <3> QED BY <2>1, IsSeqFacts
  <2>3. DOMAIN s = 1..n
    BY IsSeqFacts
  <2> QED BY <2>1, <2>2, <2>3, AppendFacts
<1> HIDE DEF r, n
<1>2. R = S \cup ToSet(x)
  <2>1. ASSUME NEW u \in R
        PROVE  u \in S \cup ToSet(x)
    <3>1. PICK i \in 1..n + 1 : u \in ToSet(r[i])
      BY <1>1
    <3>2. CASE i \in 1..n
      BY <1>1, <3>1, <3>2
    <3>3. CASE i \notin 1..n
      <4>1. i = n + 1
        BY <1>1, <3>3
      <4> QED BY <1>1, <3>1, <4>1
    <3> QED BY <3>2, <3>3
  <2>2. ASSUME NEW u \in S
        PROVE  u \in R
    <3>1. PICK i \in 1..n : u \in ToSet(s[i])
      BY <1>1
    <3>2. i \in 1..n + 1 /\ r[i] = s[i]
      BY <1>1
    <3> QED BY <1>1, <3>1, <3>2
  <2>3. ASSUME NEW u \in ToSet(x)
        PROVE  u \in R
    <3>1. n + 1 \in 1..n + 1
      BY <1>1
    <3> QED BY <1>1, <2>3, <3>1
  <2> HIDE DEF R, S
  <2> QED BY <2>1, <2>2, <2>3
<1>3. /\ Spends(r) = {u \in R : u.type = "SpendUtxo"}
      /\ Spends(s) = {u \in S : u.type = "SpendUtxo"}
  BY DEF Spends
<1> HIDE DEF R, S
<1> QED BY <1>2, <1>3 DEF r

\* What the block spends and what is unspent after a transaction: the coins
\* it has made, with a first key of their own, and coins of before.
LEMMA ConnectCoins ==
  ASSUME Shape, CoinsRight, NEW t, NEW coins, NEW bids, Paying(t, coins, bids),
         NEW U, U = IF isBalanceModel THEN {}
                    ELSE (unspent \ (coins \cup bids))
                         \cup NewCoins(Credits(t, coins, bids)),
         NEW S, S = Spends(Append(utxoOps, UtxoOps(t, coins, bids)))
  PROVE  /\ IsFiniteSet(U)
         /\ U \subseteq [key : Nat \X Nat, publicKey : Keys, amount : Int]
         /\ \/ isBalanceModel
            \/ /\ \A c, d \in U \cup S : c.key = d.key => c.amount = d.amount
               /\ \A c \in U \cup S : c.key[1] \in 0..Len(txns) + 1
               /\ \A c \in U :
                    c.key[1] = 0 => GenesisOutputs[c.key[2] + 1].amount = c.amount
<1> DEFINE credits == Credits(t, coins, bids)
           T == NewCoins(credits)
           R == Spends(utxoOps)
           O == unspent \cup R
           n == Len(txns)
<1>1. n \in Nat /\ isBalanceModel \in BOOLEAN
  BY IsSeqFacts DEF Shape
<1>2. CASE isBalanceModel
  <2>1. U = {}
    BY <1>2
  <2> QED BY <1>2, <2>1, FS_EmptySet
<1>3. CASE ~isBalanceModel
  <2>1. /\ IsFiniteSet(T)
        /\ T \subseteq [key : Nat \X Nat, publicKey : Keys, amount : Int]
        /\ \A c, d \in T : c.key = d.key => c = d
        /\ \A c \in T : c.key[1] = n + 1
    BY <1>1, UtxoOpsParts, NewCoinsFacts
  <2>2. /\ IsFiniteSet(unspent)
        /\ unspent \subseteq [key : Nat \X Nat, publicKey : Keys, amount : Int]
        /\ \A c, d \in O : c.key = d.key => c.amount = d.amount
        /\ \A c \in O : c.key[1] \in 0..n
        /\ \A c \in unspent :
             c.key[1] = 0 => GenesisOutputs[c.key[2] + 1].amount = c.amount
    BY <1>3 DEF CoinsRight
  <2>3. /\ coins \subseteq unspent /\ bids \subseteq unspent
    BY <1>3 DEF Paying, Paid
  <2>4. S = R \cup {SpendOf(c) : c \in coins \cup bids}
    <3>1. IsSeq(utxoOps)
      BY DEF Shape
    <3>2. S = R \cup {u \in ToSet(UtxoOps(t, coins, bids)) : u.type = "SpendUtxo"}
      BY <3>1, SpendsAppend
    <3> QED BY <1>3, <3>2, OwnSpends
  <2>5. U = (unspent \ (coins \cup bids)) \cup T
    BY <1>3
  <2>6. \A c : SpendOf(c).key = c.key /\ SpendOf(c).amount = c.amount
    BY DEF SpendOf
  <2> HIDE DEF T, R, n
  <2>7. ASSUME NEW c \in U \cup S
        PROVE  c \in T \/ \E d \in O : d.key = c.key /\ d.amount = c.amount
    <3>1. CASE c \in T
      BY <3>1
    <3>2. CASE c \in O
      BY <3>2
    <3>3. CASE \E d \in coins \cup bids : c = SpendOf(d)
      <4>1. PICK d \in coins \cup bids : c = SpendOf(d)
        BY <3>3
      <4>2. d \in O
        BY <2>3
      <4> QED BY <2>6, <4>1, <4>2
    <3> QED BY <2>4, <2>5, <2>7, <3>1, <3>2, <3>3
  <2>8. IsFiniteSet(U)
    <3> DEFINE old == unspent \ (coins \cup bids)
    <3>1. IsFiniteSet(old)
      BY <2>2, FS_Subset
    <3> HIDE DEF old
    <3>2. IsFiniteSet(old \cup T)
      BY <2>1, <3>1, FS_Union, Zenon
    <3> QED BY <2>5, <3>2 DEF old
  <2>9. U \subseteq [key : Nat \X Nat, publicKey : Keys, amount : Int]
    BY <2>1, <2>2, <2>5
  <2>10. ASSUME NEW c \in U \cup S, NEW d \in U \cup S, c.key = d.key
         PROVE  c.amount = d.amount
    <3>1. \A e \in O : e.key[1] # n + 1
      BY <1>1, <2>2
    <3>2. CASE c \in T /\ d \in T
      BY <2>1, <2>10, <3>2
    <3>3. CASE c \notin T /\ d \notin T
      <4>1. PICK e \in O : e.key = c.key /\ e.amount = c.amount
        BY <2>7, <3>3
      <4>2. PICK f \in O : f.key = d.key /\ f.amount = d.amount
        BY <2>7, <3>3
      <4> QED BY <2>2, <2>10, <4>1, <4>2
    <3>4. CASE c \in T /\ d \notin T
      <4>1. PICK f \in O : f.key = d.key /\ f.amount = d.amount
        BY <2>7, <3>4
      <4> QED BY <2>1, <2>10, <3>1, <3>4, <4>1
    <3>5. CASE c \notin T /\ d \in T
      <4>1. PICK e \in O : e.key = c.key /\ e.amount = c.amount
        BY <2>7, <3>5
      <4> QED BY <2>1, <2>10, <3>1, <3>5, <4>1
    <3> QED BY <3>2, <3>3, <3>4, <3>5
  <2>11. ASSUME NEW c \in U \cup S
         PROVE  c.key[1] \in 0..n + 1
    <3>1. \A e \in O : e.key[1] \in 0..n + 1
      BY <1>1, <2>2
    <3>2. n + 1 \in 0..n + 1
      BY <1>1
    <3>3. CASE c \in T
      BY <2>1, <3>2, <3>3
    <3>4. CASE \E d \in O : d.key = c.key /\ d.amount = c.amount
      BY <3>1, <3>4
    <3> QED BY <2>7, <3>3, <3>4
  <2>12. ASSUME NEW c \in U, c.key[1] = 0
         PROVE  GenesisOutputs[c.key[2] + 1].amount = c.amount
    <3>1. c \notin T
      BY <1>1, <2>1, <2>12
    <3>2. c \in unspent
      BY <2>5, <3>1
    <3> QED BY <2>2, <2>12, <3>2
  <2> HIDE DEF O
  <2> QED BY <2>8, <2>9, <2>10, <2>11, <2>12 DEF n
<1> QED BY <1>1, <1>2, <1>3

LEMMA ConnectInv ==
  ASSUME Inv, NEW t, Plan(t), Connect(t),
         \A coins, bids : (Paying(t, coins, bids) /\ (t.bid = 0 => bids = {}))
                            => SpecialRight(t, coins, bids)
  PROVE  Inv'
<1>1. PICK coins \in Payments(t.publicKey, t.price), bids \in Payments(t.bidder, t.bid) :
        /\ \A a \in Accounts : After(ledger, Moved(t, coins, bids))[a] \in 0..MaxBalance
        /\ ledgers' = Append(ledgers, After(ledger, Moved(t, coins, bids)))
        /\ txns' = Append(txns, Txn(t, coins, bids))
        /\ utxoOps' = Append(utxoOps, UtxoOps(t, coins, bids))
        /\ unspent' = IF isBalanceModel THEN {}
                      ELSE (unspent \ (coins \cup bids))
                           \cup NewCoins(Credits(t, coins, bids))
  BY DEF Connect, NewCoins
<1> DEFINE n == Len(txns)
           before == ledger
           txn == Txn(t, coins, bids)
           all == UtxoOps(t, coins, bids)
           after == After(ledger, Moved(t, coins, bids))
<1>2. /\ ~closed /\ inverted' = Append(inverted, t.inverse)
      /\ isBalanceModel' = isBalanceModel /\ closed' = closed
  BY DEF Connect
<1>3. /\ IsSeq(txns) /\ IsSeq(utxoOps) /\ IsSeq(ledgers) /\ IsSeq(inverted)
      /\ isBalanceModel \in BOOLEAN /\ closed \in BOOLEAN
      /\ n \in Nat /\ Len(utxoOps) = n /\ Len(inverted) = n /\ Len(ledgers) = n + 1
      /\ \A i \in 1..n + 1 : ledgers[i] \in [Accounts -> 0..MaxBalance]
  <2>1. n \in Nat
    BY IsSeqFacts DEF Inv, Shape
  <2> QED BY <1>2, <2>1 DEF Inv, Shape
<1>4. before = ledgers[n + 1] /\ before \in [Accounts -> 0..MaxBalance]
  <2>1. before = ledgers[n + 1]
    BY <1>3 DEF ledger, Last
  <2> QED BY <1>3, <2>1
<1>5. Paying(t, coins, bids) /\ (t.bid = 0 => bids = {})
  BY <1>3, PlanPays DEF Inv
<1>6. /\ Right(isBalanceModel, txn, all, t.inverse, before, after)
      /\ after \in [Accounts -> 0..MaxBalance]
  <2>1. DOMAIN before = Accounts /\ \A a \in Accounts : before[a] \in Int
    BY <1>4
  <2>2. SpecialRight(t, coins, bids)
    BY <1>5
  <2> HIDE DEF before
  <2>3. /\ Right(isBalanceModel, txn, all, t.inverse, before,
                 After(before, Moved(t, coins, bids)))
        /\ After(before, Moved(t, coins, bids)) \in [Accounts -> Int]
    BY <1>5, <2>1, <2>2, ConnectedRight
  <2> HIDE DEF txn, all
  <2> QED BY <1>1, <2>3 DEF before
<1> HIDE DEF before, txn, all, after
<1>7. /\ IsSeq(txns') /\ Len(txns') = n + 1 /\ txns'[n + 1] = txn
      /\ \A i \in 1..n : txns'[i] = txns[i]
  BY <1>1, <1>3, AppendFacts DEF txn
<1>8. /\ IsSeq(utxoOps') /\ Len(utxoOps') = n + 1 /\ utxoOps'[n + 1] = all
      /\ \A i \in 1..n : utxoOps'[i] = utxoOps[i]
  BY <1>1, <1>3, AppendFacts DEF all
<1>9. /\ IsSeq(inverted') /\ Len(inverted') = n + 1 /\ inverted'[n + 1] = t.inverse
      /\ \A i \in 1..n : inverted'[i] = inverted[i]
  BY <1>2, <1>3, AppendFacts
<1>10. /\ IsSeq(ledgers') /\ Len(ledgers') = n + 2 /\ ledgers'[n + 2] = after
       /\ \A i \in 1..n + 1 : ledgers'[i] = ledgers[i]
  <2>1. /\ IsSeq(ledgers') /\ Len(ledgers') = (n + 1) + 1 /\ ledgers'[(n + 1) + 1] = after
        /\ \A i \in 1..n + 1 : ledgers'[i] = ledgers[i]
    BY <1>1, <1>3, AppendFacts DEF after
  <2>2. (n + 1) + 1 = n + 2
    BY <1>3
  <2> QED BY <2>1, <2>2
<1>11. Shape'
  <2>1. \A i \in 1..n + 2 : ledgers'[i] \in [Accounts -> 0..MaxBalance]
    <3> TAKE i \in 1..n + 2
    <3>1. CASE i = n + 2
      BY <1>6, <1>10, <3>1
    <3>2. CASE i # n + 2
      <4>1. i \in 1..n + 1
        BY <1>3, <3>2
      <4> QED BY <1>3, <1>10, <4>1
    <3> QED BY <3>1, <3>2
  <2>2. Len(ledgers') = Len(txns') + 1
    BY <1>3, <1>7, <1>10
  <2> HIDE DEF n
  <2> QED BY <1>2, <1>3, <1>7, <1>8, <1>9, <1>10, <2>1, <2>2 DEF Shape
<1>12. CoinsRight'
  <2>1. /\ IsFiniteSet(unspent')
        /\ unspent' \subseteq [key : Nat \X Nat, publicKey : Keys, amount : Int]
        /\ \/ isBalanceModel
           \/ /\ \A c, d \in unspent' \cup Spends(utxoOps') :
                   c.key = d.key => c.amount = d.amount
              /\ \A c \in unspent' \cup Spends(utxoOps') : c.key[1] \in 0..Len(txns) + 1
              /\ \A c \in unspent' :
                   c.key[1] = 0 => GenesisOutputs[c.key[2] + 1].amount = c.amount
    <3>1. Shape /\ CoinsRight
      BY DEF Inv
    <3> DEFINE U == IF isBalanceModel THEN {}
                    ELSE (unspent \ (coins \cup bids))
                         \cup NewCoins(Credits(t, coins, bids))
               S == Spends(Append(utxoOps, UtxoOps(t, coins, bids)))
    <3>2. unspent' = U /\ Spends(utxoOps') = S
      BY <1>1
    <3>3. /\ U = IF isBalanceModel THEN {}
                 ELSE (unspent \ (coins \cup bids))
                      \cup NewCoins(Credits(t, coins, bids))
          /\ S = Spends(Append(utxoOps, UtxoOps(t, coins, bids)))
      OBVIOUS
    <3> HIDE DEF U, S
    <3>4. /\ IsFiniteSet(U)
          /\ U \subseteq [key : Nat \X Nat, publicKey : Keys, amount : Int]
          /\ \/ isBalanceModel
             \/ /\ \A c, d \in U \cup S : c.key = d.key => c.amount = d.amount
                /\ \A c \in U \cup S : c.key[1] \in 0..Len(txns) + 1
                /\ \A c \in U :
                     c.key[1] = 0 => GenesisOutputs[c.key[2] + 1].amount = c.amount
      BY <1>5, <3>1, <3>3, ConnectCoins
    <3> QED BY <3>2, <3>4
  <2> QED BY <1>2, <1>7, <2>1 DEF CoinsRight
<1>13. TxnsRight'
  <2>1. ASSUME NEW i \in 1..n + 1
        PROVE  Right(isBalanceModel', txns'[i], utxoOps'[i], inverted'[i],
                     ledgers'[i], ledgers'[i + 1])
    <3>1. CASE i = n + 1
      <4>1. i + 1 = n + 2 /\ i \in 1..n + 1
        BY <1>3, <3>1
      <4>2. ledgers'[i] = before /\ ledgers'[i + 1] = after
        BY <1>4, <1>10, <3>1, <4>1
      <4> QED BY <1>2, <1>6, <1>7, <1>8, <1>9, <3>1, <4>2
    <3>2. CASE i # n + 1
      <4>1. i \in 1..n /\ i \in 1..n + 1 /\ i + 1 \in 1..n + 1
        BY <1>3, <3>2
      <4>2. Right(isBalanceModel, txns[i], utxoOps[i], inverted[i], ledgers[i], ledgers[i + 1])
        BY <4>1 DEF Inv, TxnsRight
      <4> QED BY <1>2, <1>7, <1>8, <1>9, <1>10, <4>1, <4>2
    <3> QED BY <3>1, <3>2
  <2> QED BY <1>7, <2>1 DEF TxnsRight
<1>14. BlockRight'
  <2>1. Len(utxoOps') # Len(txns') + 1
    BY <1>3, <1>7, <1>8
  <2> QED BY <2>1 DEF BlockRight
<1> QED BY <1>11, <1>12, <1>13, <1>14 DEF Inv

-----------------------------------------------------------------------------
(* The invariant holds when the block begins.                               *)

LEMMA GenesisFacts ==
  /\ IsFiniteSet(GenesisUnspent)
  /\ GenesisUnspent \subseteq [key : Nat \X Nat, publicKey : Keys, amount : Nat]
  /\ \A c \in GenesisUnspent : /\ c.key[1] = 0
                               /\ GenesisOutputs[c.key[2] + 1].amount = c.amount
  /\ \A c, d \in GenesisUnspent : c.key = d.key => c = d
<1> DEFINE n == Len(GenesisOutputs)
           g(i) == GenesisOutputs[i]
           coin(i) == [key |-> << 0, i - 1 >>, publicKey |-> g(i).publicKey,
                       amount |-> g(i).amount]
           f == [i \in 1..n |-> coin(i)]
           T == GenesisUnspent
<1>1. /\ n \in Nat /\ DOMAIN GenesisOutputs = 1..n
      /\ \A i \in 1..n : g(i).publicKey \in Keys /\ g(i).amount \in Nat
  <2> DEFINE R == [publicKey : Keys, amount : Nat]
  <2>1. GenesisOutputs \in Seq(R)
    BY OutputsAssumption
  <2>2. \A x \in R : x.publicKey \in Keys /\ x.amount \in Nat
    OBVIOUS
  <2> HIDE DEF R
  <2>3. n \in Nat /\ DOMAIN GenesisOutputs = 1..n /\ \A i \in 1..n : g(i) \in R
    BY <2>1
  <2> QED BY <2>2, <2>3
<1>2. T = {coin(i) : i \in 1..n}
  BY <1>1 DEF GenesisUnspent
<1>3. \A i : /\ coin(i).key = << 0, i - 1 >> /\ coin(i).key[1] = 0
             /\ coin(i).key[2] = i - 1 /\ coin(i).amount = g(i).amount
  OBVIOUS
<1>4. \A i \in 1..n : coin(i) \in [key : Nat \X Nat, publicKey : Keys, amount : Nat]
  <2> TAKE i \in 1..n
  <2> DEFINE key == << 0, i - 1 >>
  <2>1. key \in Nat \X Nat
    BY <1>1
  <2> HIDE DEF key
  <2>2. g(i).publicKey \in Keys /\ g(i).amount \in Nat
    BY <1>1
  <2>3. [key |-> key, publicKey |-> g(i).publicKey, amount |-> g(i).amount]
          \in [key : Nat \X Nat, publicKey : Keys, amount : Nat]
    BY <2>1, <2>2
  <2> QED BY <2>3 DEF key
<1>5. IsFiniteSet(T)
  <2>1. f \in Surjection(1..n, T)
    BY <1>2 DEF Surjection
  <2>2. IsFiniteSet(1..n)
    <3> HIDE DEF n
    <3> QED BY <1>1, FS_Interval
  <2> HIDE DEF f, T
  <2> QED BY <2>1, <2>2, FS_Surjection
<1> HIDE DEF coin
<1>6. T \subseteq [key : Nat \X Nat, publicKey : Keys, amount : Nat]
  BY <1>2, <1>4
<1>7. \A c \in T : c.key[1] = 0 /\ g(c.key[2] + 1).amount = c.amount
  <2> TAKE c \in T
  <2>1. PICK i \in 1..n : c = coin(i)
    BY <1>2
  <2>2. c.key[2] + 1 = i
    BY <1>1, <1>3, <2>1
  <2> QED BY <1>3, <2>1, <2>2
<1>8. \A c, d \in T : c.key = d.key => c = d
  <2> SUFFICES ASSUME NEW i \in 1..n, NEW j \in 1..n, coin(i).key = coin(j).key
               PROVE  i = j
    BY <1>2
  <2>1. i - 1 = j - 1
    BY <1>3
  <2> QED BY <1>1, <2>1
<1> QED BY <1>5, <1>6, <1>7, <1>8

LEMMA AmountNat ==
  ASSUME NEW coins, IsFiniteSet(coins), \A c \in coins : c.amount \in Nat
  PROVE  AmountOf(coins) \in Nat
<1> DEFINE f == [c \in coins |-> c.amount]
           z == [c \in coins |-> 0]
<1>1. /\ \A c \in coins : /\ f[c] \in Int /\ z[c] \in Int /\ z[c] =< f[c]
                          /\ z[c] = 0
      /\ DOMAIN f = coins
  OBVIOUS
<1>2. AmountOf(coins) = SumFunctionOnSet(f, coins)
  BY DEF AmountOf, SumFunction
<1> HIDE DEF f, z
<1>3. SumFunctionOnSet(f, coins) \in Int
  BY <1>1, SumType
<1>4. SumFunctionOnSet(z, coins) = 0
  BY <1>1, SumZero
<1>5. SumFunctionOnSet(z, coins) =< SumFunctionOnSet(f, coins)
  BY <1>1, SumMonotone
<1> QED BY <1>2, <1>3, <1>4, <1>5

\* What an account has when the block begins.
LEMMA GenesisAmount ==
  ASSUME NEW a \in Accounts
  PROVE  /\ AmountOf({c \in GenesisUnspent : Main(c.publicKey) = a}) \in 0..MaxBalance
         /\ \A k \in Keys : a = Main(k) =>
              {c \in GenesisUnspent : Main(c.publicKey) = a} = OwnedBy(k, GenesisUnspent)
<1> DEFINE C == {c \in GenesisUnspent : Main(c.publicKey) = a}
<1>1. \A x, y : Main(x) = Main(y) => x = y
  BY DEF Main
<1>2. \A k \in Keys : a = Main(k) => C = OwnedBy(k, GenesisUnspent)
  BY <1>1 DEF OwnedBy
<1>3. AmountOf(C) \in Nat
  <2>1. IsFiniteSet(C)
    BY GenesisFacts, FS_Subset
  <2>2. \A c \in C : c.amount \in Nat
    BY GenesisFacts
  <2> HIDE DEF C
  <2> QED BY <2>1, <2>2, AmountNat
<1>4. AmountOf(C) =< MaxBalance
  <2>1. CASE \E k \in Keys : a = Main(k)
    <3>1. PICK k \in Keys : a = Main(k)
      BY <2>1
    <3> HIDE DEF C
    <3> QED BY <1>2, <3>1, StartAssumption
  <2>2. CASE ~\E k \in Keys : a = Main(k)
    <3>1. C = {}
      BY <2>2, GenesisFacts
    <3> HIDE DEF C
    <3>2. AmountOf(C) = 0
      BY <3>1, SumEmpty DEF AmountOf, SumFunction
    <3> QED BY <3>2, BoundsAssumption
  <2> QED BY <2>1, <2>2
<1> HIDE DEF C
<1>5. AmountOf(C) \in 0..MaxBalance
  BY <1>3, <1>4, BoundsAssumption
<1> QED BY <1>2, <1>5 DEF C

LEMMA InitInv ==
  ASSUME Init
  PROVE  Inv
<1>1. /\ isBalanceModel \in BOOLEAN /\ closed = FALSE
      /\ txns = <<>> /\ utxoOps = <<>> /\ inverted = <<>>
      /\ unspent = IF isBalanceModel THEN {} ELSE GenesisUnspent
  BY DEF Init
<1>2. PICK s \in Start :
        ledgers = << [a \in Accounts |->
                        IF a \in DOMAIN s THEN s[a]
                        ELSE AmountOf({c \in GenesisUnspent : Main(c.publicKey) = a})] >>
  BY DEF Init
<1>3. Shape
  <2> DEFINE l == [a \in Accounts |->
                     IF a \in DOMAIN s THEN s[a]
                     ELSE AmountOf({c \in GenesisUnspent : Main(c.publicKey) = a})]
  <2>1. l \in [Accounts -> 0..MaxBalance]
    <3>1. \A a \in DOMAIN s : s[a] \in 0..MaxBalance
      BY StartAssumption
    <3> QED BY <3>1, GenesisAmount
  <2>2. ledgers = << l >>
    BY <1>2
  <2> HIDE DEF l
  <2>3. IsSeq(ledgers) /\ Len(ledgers) = 1 /\ \A i \in 1..1 : ledgers[i] = l
    BY <2>2 DEF IsSeq, ToSet
  <2>4. IsSeq(<<>>) /\ Len(<<>>) = 0
    BY EmptyIsSeq
  <2>5. IsSeq(txns) /\ IsSeq(utxoOps) /\ IsSeq(inverted)
    BY <1>1, <2>4
  <2>6. Len(txns) = 0 /\ Len(utxoOps) = 0 /\ Len(inverted) = 0
    BY <1>1, <2>4
  <2>7. Len(ledgers) = Len(txns) + 1 /\ closed \in BOOLEAN
    <3>1. Len(ledgers) = Len(txns) + 1
      BY <2>3, <2>6
    <3>2. closed \in BOOLEAN
      BY <1>1, Zenon
    <3> QED BY <3>1, <3>2
  <2>8. \A i \in 1..Len(ledgers) : ledgers[i] \in [Accounts -> 0..MaxBalance]
    BY <2>1, <2>3
  <2> QED BY <1>1, <2>3, <2>5, <2>6, <2>7, <2>8 DEF Shape
<1>4. CoinsRight
  <2>1. Spends(utxoOps) = {}
    BY <1>1 DEF Spends
  <2>2. CASE isBalanceModel
    <3>1. unspent = {}
      BY <1>1, <2>2
    <3> QED BY <2>2, <3>1, FS_EmptySet DEF CoinsRight
  <2>3. CASE ~isBalanceModel
    <3>1. unspent \cup Spends(utxoOps) = GenesisUnspent /\ unspent = GenesisUnspent
      BY <1>1, <2>1, <2>3
    <3>2. /\ GenesisUnspent \subseteq [key : Nat \X Nat, publicKey : Keys, amount : Int]
          /\ \A c, d \in GenesisUnspent : c.key = d.key => c.amount = d.amount
      BY GenesisFacts
    <3>3. \A c \in GenesisUnspent : c.key[1] \in 0..Len(txns)
      <4>1. Len(txns) = 0 /\ 0 \in 0..0
        BY <1>1
      <4> QED BY <4>1, GenesisFacts
    <3> QED BY <3>1, <3>2, <3>3, GenesisFacts DEF CoinsRight
  <2> QED BY <1>1, <2>2, <2>3
<1>5. TxnsRight
  BY <1>1 DEF TxnsRight
<1>6. BlockRight
  BY <1>1 DEF BlockRight
<1> QED BY <1>3, <1>4, <1>5, <1>6 DEF Inv

-----------------------------------------------------------------------------
(* Every action but the wrapper and the end connects a planned transaction. *)

SubMoves(s) ==
  /\ s \in Seq(Moves)
  /\ \A i \in DOMAIN s : s[i].account \notin {Main(k) : k \in Keys}

Planned ==
  \E t : /\ Plan(t) /\ Connect(t)
         /\ \A coins, bids : (Paying(t, coins, bids) /\ (t.bid = 0 => bids = {}))
                               => SpecialRight(t, coins, bids)

LEMMA SubAccounts ==
  /\ \A k \in Keys : CreatorCoin(k) \in Accounts \ {Main(j) : j \in Keys}
  /\ \A v \in Validators : ValidatorEntry(v) \in Accounts \ {Main(j) : j \in Keys}
  /\ \A s \in Keys, v \in Validators, e \in Epochs :
       LockedStake(s, v, e) \in Accounts \ {Main(j) : j \in Keys}
<1>1. \A k \in Keys : \A j : CreatorCoin(k) \in Accounts /\ CreatorCoin(k) # Main(j)
  BY DEF Accounts, CreatorCoin, Main
<1>2. \A v \in Validators : \A j : ValidatorEntry(v) \in Accounts /\ ValidatorEntry(v) # Main(j)
  BY DEF Accounts, ValidatorEntry, Main
<1>3. \A s \in Keys, v \in Validators, e \in Epochs : \A j :
        LockedStake(s, v, e) \in Accounts /\ LockedStake(s, v, e) # Main(j)
  BY ValidatorAccount DEF LockedStake, Main
<1> QED BY <1>1, <1>2, <1>3

LEMMA OneSubMove ==
  ASSUME NEW a \in Accounts \ {Main(k) : k \in Keys}, NEW n \in Int
  PROVE  SubMoves(<< Move(a, n) >>)
<1> DEFINE m == Move(a, n)
<1>1. m \in Moves /\ m.account = a
  BY DEF Move, Moves
<1> HIDE DEF m
<1>2. << m >> \in Seq(Moves) /\ \A i \in DOMAIN << m >> : << m >>[i] = m
  BY <1>1
<1>3. SubMoves(<< m >>)
  BY <1>1, <1>2 DEF SubMoves
<1> QED BY <1>3 DEF m

LEMMA TwoSubMoves ==
  ASSUME NEW a \in Accounts \ {Main(k) : k \in Keys}, NEW n \in Int,
         NEW b \in Accounts \ {Main(k) : k \in Keys}, NEW m \in Int
  PROVE  SubMoves(<< Move(a, n), Move(b, m) >>)
<1> DEFINE x == Move(a, n)
           y == Move(b, m)
           s == << x, y >>
<1>1. x \in Moves /\ x.account = a /\ y \in Moves /\ y.account = b
  BY DEF Move, Moves
<1> HIDE DEF x, y
<1>2. s \in Seq(Moves) /\ \A i \in DOMAIN s : s[i] = x \/ s[i] = y
  BY <1>1
<1> HIDE DEF s
<1>3. SubMoves(s)
  BY <1>1, <1>2 DEF SubMoves
<1> QED BY <1>3 DEF s, x, y

LEMMA NoSubMoves == SubMoves(<<>>)
BY DEF SubMoves

LEMMA OneCredit ==
  ASSUME NEW k \in Keys, NEW n \in Int
  PROVE  <<>> \in Seq(CreditSet) /\ << Credit(k, n) >> \in Seq(CreditSet)
<1>1. Credit(k, n) \in CreditSet
  BY DEF Credit, CreditSet
<1> QED BY <1>1

LEMMA NoCredit == <<>> \in Seq(CreditSet)
OBVIOUS

LEMMA OneSpecial ==
  ASSUME NEW u, u.type \notin Money
  PROVE  IsSeq(<< u >>) /\ \A w \in ToSet(<< u >>) : w.type \notin Money
<1>1. ToSet(<< u >>) = {u}
  BY DEF ToSet
<1>2. << u >> \in Seq({u})
  OBVIOUS
<1> QED BY <1>1, <1>2, SeqIsSeq

LEMMA NoSpecial == IsSeq(<<>>) /\ \A w \in ToSet(<<>>) : w.type \notin Money
BY EmptyIsSeq DEF ToSet

\* A transaction that is served with the sign of its movements.
LEMMA NothingInverse ==
  ASSUME NEW t, t.inverse = <<>>,
         \E x : t.special = << x >> \/ t.outputs = << x >> \/ t.implicit = << x >>
  PROVE  t.inverse \in Seq(Moves) /\ Recorded(t)
<1>1. \A x : << x >> # <<>>
  OBVIOUS
<1>2. t.inverse \in Seq(Moves)
  BY NoOps
<1> QED BY <1>1, <1>2 DEF Recorded

LEMMA PlannedWithoutBids ==
  ASSUME NEW t, t.type # "AtomicTxnsWrapper", t.publicKey \in Keys,
         t.bidder = t.publicKey, t.price \in Int, t.bid = 0,
         t.outputs \in Seq(CreditSet), t.implicit \in Seq(CreditSet),
         IsSeq(t.special), \A u \in ToSet(t.special) : u.type \notin Money,
         SubMoves(t.moved), t.inverse \in Seq(Moves), Recorded(t), Connect(t),
         \A coins : Paying(t, coins, {}) => SpecialRight(t, coins, {})
  PROVE  Planned
<1>1. Plan(t)
  BY DEF Plan, SubMoves
<1>2. \A coins, bids : (Paying(t, coins, bids) /\ (t.bid = 0 => bids = {}))
                         => SpecialRight(t, coins, bids)
  OBVIOUS
<1> QED BY <1>1, <1>2, Zenon DEF Planned

\* What the ledger holds is a number.
LEMMA LedgerType ==
  ASSUME Inv
  PROVE  \A a \in Accounts : ledger[a] \in Int
<1>1. IsSeq(ledgers) /\ \A i \in 1..Len(ledgers) : ledgers[i] \in [Accounts -> 0..MaxBalance]
  BY DEF Inv, Shape
<1>2. Len(ledgers) \in Nat /\ Len(txns) \in Nat
  BY <1>1, IsSeqFacts DEF Inv, Shape
<1>3. Len(ledgers) \in 1..Len(ledgers)
  BY <1>2 DEF Inv, Shape
<1>4. ledger \in [Accounts -> 0..MaxBalance]
  BY <1>1, <1>3 DEF ledger, Last
<1> QED BY <1>4

LEMMA BlockRewardPlanned ==
  ASSUME BlockReward
  PROVE  Planned
<1>1. PICK k \in Keys, n \in Amounts :
        Connect(Plain("BlockReward", k, 0, << Credit(k, n) >>))
  BY DEF BlockReward
<1> DEFINE t == Plain("BlockReward", k, 0, << Credit(k, n) >>)
<1>2. /\ t.type = "BlockReward" /\ t.publicKey = k /\ t.bidder = k /\ t.price = 0
      /\ t.bid = 0 /\ t.outputs = << Credit(k, n) >> /\ t.implicit = <<>>
      /\ t.special = <<>> /\ t.moved = <<>>
      /\ t.inverse = <<>>
  BY DEF Plain
<1> HIDE DEF t
<1>3. n \in Int
  BY AmountsAssumption
<1>4. \A coins : Paying(t, coins, {}) => SpecialRight(t, coins, {})
  BY <1>2, PlainRight DEF SpecialTypes
<1>5. Connect(t)
  BY <1>1 DEF t
<1>6. t.outputs \in Seq(CreditSet) /\ t.implicit \in Seq(CreditSet)
  BY <1>2, <1>3, OneCredit
<1>7. /\ IsSeq(t.special) /\ \A u \in ToSet(t.special) : u.type \notin Money
      /\ SubMoves(t.moved)
  BY <1>2, NoSpecial, NoSubMoves
<1>8. /\ t.type # "AtomicTxnsWrapper" /\ t.publicKey \in Keys /\ t.bidder = t.publicKey
      /\ t.price \in Int /\ t.bid = 0
  BY <1>2, <1>3
<1>11. t.inverse \in Seq(Moves) /\ Recorded(t)
  BY <1>2, NothingInverse
<1> QED BY <1>4, <1>5, <1>6, <1>7, <1>8, <1>11, PlannedWithoutBids, Zenon

LEMMA BasicTransferPlanned ==
  ASSUME BasicTransfer
  PROVE  Planned
<1>1. PICK x \in Keys, y \in Keys, n \in Amounts :
        Connect(Plain("BasicTransfer", x, n + Fee, << Credit(y, n) >>))
  BY DEF BasicTransfer
<1> DEFINE t == Plain("BasicTransfer", x, n + Fee, << Credit(y, n) >>)
<1>2. /\ t.type = "BasicTransfer" /\ t.publicKey = x /\ t.bidder = x /\ t.price = n + Fee
      /\ t.bid = 0 /\ t.outputs = << Credit(y, n) >> /\ t.implicit = <<>>
      /\ t.special = <<>> /\ t.moved = <<>>
      /\ t.inverse = <<>>
  BY DEF Plain
<1> HIDE DEF t
<1>3. n \in Int /\ n + Fee \in Int
  BY AmountsAssumption, FeeAssumption
<1>4. \A coins : Paying(t, coins, {}) => SpecialRight(t, coins, {})
  BY <1>2, PlainRight DEF SpecialTypes
<1>5. Connect(t)
  BY <1>1 DEF t
<1>6. t.outputs \in Seq(CreditSet) /\ t.implicit \in Seq(CreditSet)
  BY <1>2, <1>3, OneCredit
<1>7. /\ IsSeq(t.special) /\ \A u \in ToSet(t.special) : u.type \notin Money
      /\ SubMoves(t.moved)
  BY <1>2, NoSpecial, NoSubMoves
<1>8. /\ t.type # "AtomicTxnsWrapper" /\ t.publicKey \in Keys /\ t.bidder = t.publicKey
      /\ t.price \in Int /\ t.bid = 0
  BY <1>2, <1>3
<1>11. t.inverse \in Seq(Moves) /\ Recorded(t)
  BY <1>2, NothingInverse
<1> QED BY <1>4, <1>5, <1>6, <1>7, <1>8, <1>11, PlannedWithoutBids, Zenon

LEMMA BuyCreatorCoinPlanned ==
  ASSUME BuyCreatorCoin
  PROVE  Planned
<1>1. PICK x \in Keys, y \in Keys, n \in Amounts :
        Connect([Plain("CreatorCoin", x, n + Fee, <<>>) EXCEPT
          !.meta = [profile |-> y, operation |-> "buy"],
          !.special = << [type |-> "CreatorCoin", lockedDiff |-> n] >>,
          !.moved = << Move(CreatorCoin(y), n) >>])
  BY DEF BuyCreatorCoin
<1> DEFINE t == [Plain("CreatorCoin", x, n + Fee, <<>>) EXCEPT
                    !.meta = [profile |-> y, operation |-> "buy"],
                    !.special = << [type |-> "CreatorCoin", lockedDiff |-> n] >>,
                    !.moved = << Move(CreatorCoin(y), n) >>]
<1>2. /\ t.type = "CreatorCoin" /\ t.publicKey = x /\ t.bidder = x
      /\ t.price = n + Fee /\ t.bid = 0 /\ t.outputs = <<>>
      /\ t.implicit = <<>>
      /\ t.special = << [type |-> "CreatorCoin", lockedDiff |-> n] >>
      /\ t.moved = << Move(CreatorCoin(y), n) >> /\ t.meta.profile = y
      /\ t.inverse = <<>> /\ t.meta.operation = "buy"
  BY DEF Plain
<1>5. Connect(t)
  BY <1>1
<1> HIDE DEF t
<1>3. n \in Int /\ n + Fee \in Int
  BY AmountsAssumption, FeeAssumption
<1>4. \A coins : Paying(t, coins, {}) => SpecialRight(t, coins, {})
  BY <1>2, <1>3, CreatorCoinRight
<1>6. t.outputs \in Seq(CreditSet) /\ t.implicit \in Seq(CreditSet)
  BY <1>2, <1>3, NoCredit, OneCredit
<1>7. /\ IsSeq(t.special) /\ \A u \in ToSet(t.special) : u.type \notin Money
      /\ SubMoves(t.moved)
  <2> DEFINE u == [type |-> "CreatorCoin", lockedDiff |-> n]
  <2>1. u.type \notin Money
    BY DEF Money
  <2> HIDE DEF u
  <2>2. IsSeq(<< u >>) /\ \A w \in ToSet(<< u >>) : w.type \notin Money
    BY <2>1, OneSpecial
  <2>3. SubMoves(t.moved)
    BY <1>2, <1>3, SubAccounts, OneSubMove
  <2>4. t.special = << u >>
    BY <1>2 DEF u
  <2> QED BY <2>2, <2>3, <2>4
<1>8. /\ t.type # "AtomicTxnsWrapper" /\ t.publicKey \in Keys /\ t.bidder = t.publicKey
      /\ t.price \in Int /\ t.bid = 0
  BY <1>2, <1>3
<1>11. t.inverse \in Seq(Moves) /\ Recorded(t)
  BY <1>2, NothingInverse
<1> QED BY <1>4, <1>5, <1>6, <1>7, <1>8, <1>11, PlannedWithoutBids, Zenon

LEMMA SellCreatorCoinPlanned ==
  ASSUME SellCreatorCoin
  PROVE  Planned
<1>1. PICK x \in Keys, y \in Keys, n \in Amounts :
        Connect([Plain("CreatorCoin", x, Fee, <<>>) EXCEPT
          !.implicit = << Credit(x, n) >>,
          !.meta = [profile |-> y, operation |-> "sell"],
          !.special = << [type |-> "CreatorCoin", lockedDiff |-> -n] >>,
          !.moved = << Move(CreatorCoin(y), -n) >>])
  BY DEF SellCreatorCoin
<1> DEFINE t == [Plain("CreatorCoin", x, Fee, <<>>) EXCEPT
                    !.implicit = << Credit(x, n) >>,
                    !.meta = [profile |-> y, operation |-> "sell"],
                    !.special = << [type |-> "CreatorCoin", lockedDiff |-> -n] >>,
                    !.moved = << Move(CreatorCoin(y), -n) >>]
<1>2. /\ t.type = "CreatorCoin" /\ t.publicKey = x /\ t.bidder = x
      /\ t.price = Fee /\ t.bid = 0 /\ t.outputs = <<>>
      /\ t.implicit = << Credit(x, n) >>
      /\ t.special = << [type |-> "CreatorCoin", lockedDiff |-> -n] >>
      /\ t.moved = << Move(CreatorCoin(y), -n) >> /\ t.meta.profile = y
      /\ t.inverse = <<>> /\ t.meta.operation = "sell"
  BY DEF Plain
<1>5. Connect(t)
  BY <1>1
<1> HIDE DEF t
<1>3. n \in Int /\ -n \in Int /\ Fee \in Int
  BY AmountsAssumption, FeeAssumption
<1>4. \A coins : Paying(t, coins, {}) => SpecialRight(t, coins, {})
  BY <1>2, <1>3, CreatorCoinRight
<1>6. t.outputs \in Seq(CreditSet) /\ t.implicit \in Seq(CreditSet)
  BY <1>2, <1>3, NoCredit, OneCredit
<1>7. /\ IsSeq(t.special) /\ \A u \in ToSet(t.special) : u.type \notin Money
      /\ SubMoves(t.moved)
  <2> DEFINE u == [type |-> "CreatorCoin", lockedDiff |-> -n]
  <2>1. u.type \notin Money
    BY DEF Money
  <2> HIDE DEF u
  <2>2. IsSeq(<< u >>) /\ \A w \in ToSet(<< u >>) : w.type \notin Money
    BY <2>1, OneSpecial
  <2>3. SubMoves(t.moved)
    BY <1>2, <1>3, SubAccounts, OneSubMove
  <2>4. t.special = << u >>
    BY <1>2 DEF u
  <2> QED BY <2>2, <2>3, <2>4
<1>8. /\ t.type # "AtomicTxnsWrapper" /\ t.publicKey \in Keys /\ t.bidder = t.publicKey
      /\ t.price \in Int /\ t.bid = 0
  BY <1>2, <1>3
<1>11. t.inverse \in Seq(Moves) /\ Recorded(t)
  BY <1>2, NothingInverse
<1> QED BY <1>4, <1>5, <1>6, <1>7, <1>8, <1>11, PlannedWithoutBids, Zenon

LEMMA SwapIdentityPlanned ==
  ASSUME Inv, SwapIdentity
  PROVE  Planned
<1>1. PICK x \in Keys, from \in Keys, to \in Keys, record \in SwapRecords :
        LET f == ledger[CreatorCoin(from)]
            g == ledger[CreatorCoin(to)]
            moves == << Move(CreatorCoin(from), g - f), Move(CreatorCoin(to), f - g) >>
        IN  Connect([Plain("SwapIdentity", x, Fee, <<>>) EXCEPT
              !.meta = [from |-> from, to |-> to],
              !.special = << IF record = "before" THEN SwapRecord(f, g)
                             ELSE SwapRecord(g, f) >>,
              !.moved = moves,
              !.inverse = IF record = "before" THEN <<>> ELSE moves])
  BY DEF SwapIdentity
<1> DEFINE f == ledger[CreatorCoin(from)]
           g == ledger[CreatorCoin(to)]
           moves == << Move(CreatorCoin(from), g - f), Move(CreatorCoin(to), f - g) >>
           u == IF record = "before" THEN SwapRecord(f, g) ELSE SwapRecord(g, f)
           t == [Plain("SwapIdentity", x, Fee, <<>>) EXCEPT
                    !.meta = [from |-> from, to |-> to],
                    !.special = << u >>,
                    !.moved = moves,
                    !.inverse = IF record = "before" THEN <<>> ELSE moves]
<1>5. Connect(t)
  BY <1>1
<1> HIDE DEF f, g
<1>10. /\ u.type \notin Money
       /\ record = "before" => u = SwapRecord(f, g)
       /\ record # "before" => u = SwapRecord(g, f)
  <2>1. u.type = "SwapIdentity"
    BY DEF SwapRecord
  <2> QED BY <2>1 DEF Money
<1> HIDE DEF u
<1>2. /\ t.type = "SwapIdentity" /\ t.publicKey = x /\ t.bidder = x
      /\ t.price = Fee /\ t.bid = 0 /\ t.outputs = <<>>
      /\ t.implicit = <<>> /\ t.special = << u >>
      /\ t.moved = << Move(CreatorCoin(from), g - f), Move(CreatorCoin(to), f - g) >>
      /\ t.inverse = IF record = "before" THEN <<>> ELSE t.moved
      /\ t.meta.from = from /\ t.meta.to = to
  BY DEF Plain
<1> HIDE DEF t
<1>3. f \in Int /\ g \in Int /\ f - g \in Int /\ g - f \in Int /\ Fee \in Int
  <2>1. f \in Int /\ g \in Int
    BY MainAccount, LedgerType DEF f, g
  <2> QED BY <2>1, FeeAssumption
<1>4. \A coins : Paying(t, coins, {}) => SpecialRight(t, coins, {})
  <2>1. CASE record = "before"
    <3>1. t.special = << SwapRecord(f, g) >> /\ t.inverse = <<>>
      BY <1>2, <1>10, <2>1
    <3> QED BY <1>2, <1>3, <3>1, SwapIdentityRight
  <2>2. CASE record # "before"
    <3>1. t.special = << SwapRecord(g, f) >> /\ t.inverse = t.moved
      BY <1>2, <1>10, <2>2
    <3> QED BY <1>2, <1>3, <3>1, SwapIdentityRight
  <2> QED BY <2>1, <2>2
<1>6. t.outputs \in Seq(CreditSet) /\ t.implicit \in Seq(CreditSet)
  BY <1>2, <1>3, NoCredit, OneCredit
<1>7. /\ IsSeq(t.special) /\ \A w \in ToSet(t.special) : w.type \notin Money
      /\ SubMoves(t.moved)
  <2>1. IsSeq(<< u >>) /\ \A w \in ToSet(<< u >>) : w.type \notin Money
    BY <1>10, OneSpecial
  <2>2. SubMoves(t.moved)
    BY <1>2, <1>3, SubAccounts, TwoSubMoves
  <2> QED BY <1>2, <2>1, <2>2
<1>8. /\ t.type # "AtomicTxnsWrapper" /\ t.publicKey \in Keys /\ t.bidder = t.publicKey
      /\ t.price \in Int /\ t.bid = 0
  BY <1>2, <1>3
<1>9. t.inverse \in Seq(Moves) /\ Recorded(t)
  <2>1. Recorded(t)
    BY <1>2 DEF Recorded
  <2>2. t.inverse \in Seq(Moves)
    BY <1>2, <1>7, NoOps DEF SubMoves
  <2> QED BY <2>1, <2>2
<1> QED BY <1>4, <1>5, <1>6, <1>7, <1>8, <1>9, PlannedWithoutBids, Zenon

LEMMA UpdateProfilePlanned ==
  ASSUME Inv, UpdateProfile
  PROVE  Planned
<1>1. PICK x \in Keys : \E lost \in {0, ledger[CreatorCoin(x)]} :
        Connect([Plain("UpdateProfile", x, Fee, <<>>) EXCEPT
          !.special = << [type |-> "UpdateProfile", clobberedLocked |-> lost] >>,
          !.moved = << Move(CreatorCoin(x), -lost) >>])
  BY DEF UpdateProfile
<1>9. PICK lost \in {0, ledger[CreatorCoin(x)]} :
        Connect([Plain("UpdateProfile", x, Fee, <<>>) EXCEPT
          !.special = << [type |-> "UpdateProfile", clobberedLocked |-> lost] >>,
          !.moved = << Move(CreatorCoin(x), -lost) >>])
  BY <1>1
<1> DEFINE t == [Plain("UpdateProfile", x, Fee, <<>>) EXCEPT
                    !.special = << [type |-> "UpdateProfile", clobberedLocked |-> lost] >>,
                    !.moved = << Move(CreatorCoin(x), -lost) >>]
<1>2. /\ t.type = "UpdateProfile" /\ t.publicKey = x /\ t.bidder = x
      /\ t.price = Fee /\ t.bid = 0 /\ t.outputs = <<>>
      /\ t.implicit = <<>>
      /\ t.special = << [type |-> "UpdateProfile", clobberedLocked |-> lost] >>
      /\ t.moved = << Move(CreatorCoin(x), -lost) >>
      /\ t.inverse = <<>>
  BY DEF Plain
<1>5. Connect(t)
  BY <1>9
<1> HIDE DEF t
<1>3. lost \in Int /\ -lost \in Int /\ Fee \in Int
  <2>1. lost \in Int
    BY MainAccount, LedgerType
  <2> QED BY <2>1, FeeAssumption
<1>4. \A coins : Paying(t, coins, {}) => SpecialRight(t, coins, {})
  BY <1>2, <1>3, UpdateProfileRight
<1>6. t.outputs \in Seq(CreditSet) /\ t.implicit \in Seq(CreditSet)
  BY <1>2, <1>3, NoCredit, OneCredit
<1>7. /\ IsSeq(t.special) /\ \A u \in ToSet(t.special) : u.type \notin Money
      /\ SubMoves(t.moved)
  <2> DEFINE u == [type |-> "UpdateProfile", clobberedLocked |-> lost]
  <2>1. u.type \notin Money
    BY DEF Money
  <2> HIDE DEF u
  <2>2. IsSeq(<< u >>) /\ \A w \in ToSet(<< u >>) : w.type \notin Money
    BY <2>1, OneSpecial
  <2>3. SubMoves(t.moved)
    BY <1>2, <1>3, SubAccounts, OneSubMove
  <2>4. t.special = << u >>
    BY <1>2 DEF u
  <2> QED BY <2>2, <2>3, <2>4
<1>8. /\ t.type # "AtomicTxnsWrapper" /\ t.publicKey \in Keys /\ t.bidder = t.publicKey
      /\ t.price \in Int /\ t.bid = 0
  BY <1>2, <1>3
<1>11. t.inverse \in Seq(Moves) /\ Recorded(t)
  BY <1>2, NothingInverse
<1> QED BY <1>4, <1>5, <1>6, <1>7, <1>8, <1>11, PlannedWithoutBids, Zenon

\* The royalties of an NFT move nothing but creator coins.
LEMMA RoyaltiesPlan ==
  ASSUME NEW type, type \in {"AcceptNFTBid", "NFTBid"}, NEW y, NEW s \in Royalties,
         NEW c \in Keys, NEW d \in Keys
  PROVE  /\ NFTSold(type, y, s, c, d).type \notin Money
         /\ SubMoves(RoyaltiesMoved(s, c, d))
<1>1. NFTSold(type, y, s, c, d).type = type
  BY DEF NFTSold
<1>2. type \notin Money
  BY DEF Money
<1> DEFINE n == IF s.circulation >= Threshold THEN s.r ELSE 0
<1>3. n \in Int /\ s.q \in Int
  BY RoyaltiesAssumption
<1>4. RoyaltiesMoved(s, c, d) = << Move(CreatorCoin(c), n), Move(CreatorCoin(d), s.q) >>
  BY DEF RoyaltiesMoved
<1> HIDE DEF n
<1>5. SubMoves(<< Move(CreatorCoin(c), n), Move(CreatorCoin(d), s.q) >>)
  BY <1>3, SubAccounts, TwoSubMoves
<1> QED BY <1>1, <1>2, <1>4, <1>5

LEMMA BuyNowNFTBidPlanned ==
  ASSUME BuyNowNFTBid
  PROVE  Planned
<1>1. PICK x \in Keys, y \in Keys, c \in Keys, d \in Keys, n \in Amounts, s \in Royalties :
        Connect([Plain("NFTBid", x, n + Fee, <<>>) EXCEPT
          !.implicit = << Credit(y, n - s.r - s.q) >>,
          !.special = << NFTSold("NFTBid", x, s, c, d) >>,
          !.moved = RoyaltiesMoved(s, c, d)])
  BY DEF BuyNowNFTBid
<1> DEFINE t == [Plain("NFTBid", x, n + Fee, <<>>) EXCEPT
                    !.implicit = << Credit(y, n - s.r - s.q) >>,
                    !.special = << NFTSold("NFTBid", x, s, c, d) >>,
                    !.moved = RoyaltiesMoved(s, c, d)]
           u == NFTSold("NFTBid", x, s, c, d)
           rest == n - s.r - s.q
<1>2. /\ t.type = "NFTBid" /\ t.publicKey = x /\ t.bidder = x
      /\ t.price = n + Fee /\ t.bid = 0 /\ t.outputs = <<>>
      /\ t.implicit = << Credit(y, rest) >>
      /\ t.special = << u >>
      /\ t.moved = RoyaltiesMoved(s, c, d)
      /\ t.inverse = <<>>
  BY DEF Plain
<1>5. Connect(t)
  BY <1>1
<1> HIDE DEF t
<1>3. n + Fee \in Int /\ rest \in Int
  BY AmountsAssumption, FeeAssumption, RoyaltiesAssumption
<1>4. \A coins : Paying(t, coins, {}) => SpecialRight(t, coins, {})
  BY <1>2, BuyNowRight
<1> HIDE DEF rest, u
<1>6. t.outputs \in Seq(CreditSet) /\ t.implicit \in Seq(CreditSet)
  BY <1>2, <1>3, NoCredit, OneCredit
<1>7. /\ IsSeq(t.special) /\ \A w \in ToSet(t.special) : w.type \notin Money
      /\ SubMoves(t.moved)
  <2>1. u.type \notin Money /\ SubMoves(RoyaltiesMoved(s, c, d))
    BY RoyaltiesPlan DEF u
  <2>2. IsSeq(<< u >>) /\ \A w \in ToSet(<< u >>) : w.type \notin Money
    BY <2>1, OneSpecial
  <2> QED BY <1>2, <2>1, <2>2
<1>8. /\ t.type # "AtomicTxnsWrapper" /\ t.publicKey \in Keys /\ t.bidder = t.publicKey
      /\ t.price \in Int /\ t.bid = 0
  BY <1>2, <1>3
<1>11. t.inverse \in Seq(Moves) /\ Recorded(t)
  BY <1>2, NothingInverse
<1> QED BY <1>4, <1>5, <1>6, <1>7, <1>8, <1>11, PlannedWithoutBids, Zenon

LEMMA NFTBidPlanned ==
  ASSUME NFTBid
  PROVE  Planned
<1>1. PICK x \in Keys :
        Connect([Plain("NFTBid", x, Fee, <<>>) EXCEPT
          !.special = << [type |-> "NFTBid", bidder |-> x, creator |-> x, royalty |-> 0,
                          prevCoinEntry |-> FALSE, circulation |-> 0,
                          royalties |-> <<>>] >>])
  BY DEF NFTBid
<1> DEFINE u == [type |-> "NFTBid", bidder |-> x, creator |-> x, royalty |-> 0,
                 prevCoinEntry |-> FALSE, circulation |-> 0, royalties |-> <<>>]
           t == [Plain("NFTBid", x, Fee, <<>>) EXCEPT !.special = << u >>]
<1>5. Connect(t)
  BY <1>1
<1>9. u.type \notin Money
  BY DEF Money
<1>10. \A p, coins : (/\ Paying(p, coins, {}) /\ p.type = "NFTBid" /\ p.special = << u >>
                      /\ p.moved = <<>> /\ p.inverse = <<>>) => SpecialRight(p, coins, {})
  BY WaitingBidRight
<1> HIDE DEF u
<1>2. /\ t.type = "NFTBid" /\ t.publicKey = x /\ t.bidder = x
      /\ t.price = Fee /\ t.bid = 0 /\ t.outputs = <<>>
      /\ t.implicit = <<>>
      /\ t.special = << u >>
      /\ t.moved = <<>>
      /\ t.inverse = <<>>
  BY DEF Plain
<1> HIDE DEF t
<1>3. Fee \in Int
  BY FeeAssumption
<1>4. \A coins : Paying(t, coins, {}) => SpecialRight(t, coins, {})
  BY <1>2, <1>10
<1>6. t.outputs \in Seq(CreditSet) /\ t.implicit \in Seq(CreditSet)
  BY <1>2, NoCredit
<1>7. /\ IsSeq(t.special) /\ \A w \in ToSet(t.special) : w.type \notin Money
      /\ SubMoves(t.moved)
  BY <1>2, <1>9, OneSpecial, NoSubMoves
<1>8. /\ t.type # "AtomicTxnsWrapper" /\ t.publicKey \in Keys /\ t.bidder = t.publicKey
      /\ t.price \in Int /\ t.bid = 0
  BY <1>2, <1>3
<1>11. t.inverse \in Seq(Moves) /\ Recorded(t)
  BY <1>2, NothingInverse
<1> QED BY <1>4, <1>5, <1>6, <1>7, <1>8, <1>11, PlannedWithoutBids, Zenon

LEMMA AcceptNFTBidPlanned ==
  ASSUME Inv, AcceptNFTBid
  PROVE  Planned
<1>1. PICK x \in Keys, y \in Keys, c \in Keys, d \in Keys, n \in Amounts, s \in Royalties :
        /\ x # y
        /\ s.r + s.q < n
        /\ Connect([Plain("AcceptNFTBid", x, Fee, <<>>) EXCEPT
          !.implicit = << Credit(x, n - s.r - s.q) >>,
          !.bidder = y,
          !.bid = n,
          !.special = << NFTSold("AcceptNFTBid", y, s, c, d) >>,
          !.moved = RoyaltiesMoved(s, c, d)])
  BY DEF AcceptNFTBid
<1> DEFINE t == [Plain("AcceptNFTBid", x, Fee, <<>>) EXCEPT
                    !.implicit = << Credit(x, n - s.r - s.q) >>,
                    !.bidder = y,
                    !.bid = n,
                    !.special = << NFTSold("AcceptNFTBid", y, s, c, d) >>,
                    !.moved = RoyaltiesMoved(s, c, d)]
           u == NFTSold("AcceptNFTBid", y, s, c, d)
           rest == n - s.r - s.q
<1>2. /\ t.type = "AcceptNFTBid" /\ t.publicKey = x /\ t.bidder = y
      /\ t.price = Fee /\ t.bid = n /\ t.outputs = <<>>
      /\ t.implicit = << Credit(x, rest) >>
      /\ t.special = << u >>
      /\ t.moved = RoyaltiesMoved(s, c, d) /\ t.inverse = <<>>
  BY DEF Plain
<1>5. Connect(t)
  BY <1>1
<1> HIDE DEF t
<1>3. n \in Int /\ Fee \in Int /\ rest \in Int
  BY AmountsAssumption, FeeAssumption, RoyaltiesAssumption
<1>4. \A coins, bids : Paying(t, coins, bids) => SpecialRight(t, coins, bids)
  <2>1. Known
    BY CoinsKnown DEF Inv
  <2> QED BY <1>2, <2>1, AcceptBidRight
<1> HIDE DEF rest, u
<1>6. t.outputs \in Seq(CreditSet) /\ t.implicit \in Seq(CreditSet)
  BY <1>2, <1>3, NoCredit, OneCredit
<1>7. /\ IsSeq(t.special) /\ \A w \in ToSet(t.special) : w.type \notin Money
      /\ SubMoves(t.moved)
  <2>1. u.type \notin Money /\ SubMoves(RoyaltiesMoved(s, c, d))
    BY RoyaltiesPlan DEF u
  <2>2. IsSeq(<< u >>) /\ \A w \in ToSet(<< u >>) : w.type \notin Money
    BY <2>1, OneSpecial
  <2> QED BY <1>2, <2>1, <2>2
<1>9. t.inverse \in Seq(Moves) /\ Recorded(t)
  BY <1>2, NothingInverse
<1>8. Plan(t)
  BY <1>2, <1>3, <1>6, <1>7, <1>9 DEF Plan, SubMoves
<1> QED BY <1>4, <1>5, <1>8, Zenon DEF Planned

LEMMA DAOCoinLimitOrderPlanned ==
  ASSUME Inv, DAOCoinLimitOrder
  PROVE  Planned
<1>1. PICK x \in Keys, y \in Keys, n \in Amounts :
        \/ Connect([Plain("DAOCoinLimitOrder", x, Fee, <<>>) EXCEPT
             !.implicit = << Credit(x, n) >>,
             !.bidder = y,
             !.bid = n,
             !.meta = [bidder |-> y]])
        \/ Connect([Plain("DAOCoinLimitOrder", x, n + Fee, <<>>) EXCEPT
             !.implicit = << Credit(y, n) >>,
             !.meta = [bidder |-> y]])
  BY DEF DAOCoinLimitOrder
<1> DEFINE p == [Plain("DAOCoinLimitOrder", x, Fee, <<>>) EXCEPT
                    !.implicit = << Credit(x, n) >>,
                    !.bidder = y,
                    !.bid = n,
                    !.meta = [bidder |-> y]]
           q == [Plain("DAOCoinLimitOrder", x, n + Fee, <<>>) EXCEPT
                    !.implicit = << Credit(y, n) >>,
                    !.meta = [bidder |-> y]]
<1>2. /\ p.type = "DAOCoinLimitOrder" /\ p.publicKey = x /\ p.bidder = y
      /\ p.price = Fee /\ p.bid = n /\ p.outputs = <<>>
      /\ p.implicit = << Credit(x, n) >> /\ p.special = <<>> /\ p.moved = <<>>
      /\ p.inverse = <<>> /\ p.meta.bidder = y
  BY DEF Plain
<1>3. /\ q.type = "DAOCoinLimitOrder" /\ q.publicKey = x /\ q.bidder = x
      /\ q.price = n + Fee /\ q.bid = 0 /\ q.outputs = <<>>
      /\ q.implicit = << Credit(y, n) >> /\ q.special = <<>> /\ q.moved = <<>>
      /\ q.inverse = <<>>
  BY DEF Plain
<1>4. Connect(p) \/ Connect(q)
  BY <1>1
<1> HIDE DEF p, q
<1>5. n \in Int /\ Fee \in Int /\ n + Fee \in Int
  BY AmountsAssumption, FeeAssumption
<1>6. Known
  BY CoinsKnown DEF Inv
<1>7. \A t \in {p, q} : /\ IsSeq(t.special) /\ \A w \in ToSet(t.special) : w.type \notin Money
                        /\ SubMoves(t.moved) /\ t.inverse \in Seq(Moves) /\ Recorded(t)
  <2>1. p.inverse \in Seq(Moves) /\ Recorded(p)
    BY <1>2, NothingInverse
  <2>2. q.inverse \in Seq(Moves) /\ Recorded(q)
    BY <1>3, NothingInverse
  <2> QED BY <1>2, <1>3, <2>1, <2>2, NoSpecial, NoSubMoves
<1>8. Plan(p)
  <2>1. p.outputs \in Seq(CreditSet) /\ p.implicit \in Seq(CreditSet)
    BY <1>2, <1>5, OneCredit
  <2> QED BY <1>2, <1>5, <1>7, <2>1 DEF Plan, SubMoves
<1>9. Plan(q)
  <2>1. q.outputs \in Seq(CreditSet) /\ q.implicit \in Seq(CreditSet)
    BY <1>3, <1>5, OneCredit
  <2> QED BY <1>3, <1>5, <1>7, <2>1 DEF Plan, SubMoves
<1>10. \A coins, bids : Paying(p, coins, bids) => SpecialRight(p, coins, bids)
  BY <1>2, <1>6, LimitOrderRight
<1>11. \A coins, bids : Paying(q, coins, bids) /\ (q.bid = 0 => bids = {})
                          => SpecialRight(q, coins, bids)
  BY <1>3, <1>6, LimitOrderRight
<1>12. CASE Connect(p)
  BY <1>8, <1>10, <1>12, Zenon DEF Planned
<1>13. CASE Connect(q)
  BY <1>9, <1>11, <1>13, Zenon DEF Planned
<1> QED BY <1>4, <1>12, <1>13

LEMMA StakePlanned ==
  ASSUME Stake
  PROVE  Planned
<1>1. PICK x \in Keys, v \in Validators, n \in Amounts :
        Connect([Plain("Stake", x, n + Fee, <<>>) EXCEPT
          !.meta = [amount |-> n],
          !.special = << [type |-> "Stake", validator |-> v] >>,
          !.moved = << Move(ValidatorEntry(v), n) >>])
  BY DEF Stake
<1> DEFINE t == [Plain("Stake", x, n + Fee, <<>>) EXCEPT
                    !.meta = [amount |-> n],
                    !.special = << [type |-> "Stake", validator |-> v] >>,
                    !.moved = << Move(ValidatorEntry(v), n) >>]
<1>2. /\ t.type = "Stake" /\ t.publicKey = x /\ t.bidder = x
      /\ t.price = n + Fee /\ t.bid = 0 /\ t.outputs = <<>>
      /\ t.implicit = <<>>
      /\ t.special = << [type |-> "Stake", validator |-> v] >>
      /\ t.moved = << Move(ValidatorEntry(v), n) >> /\ t.meta.amount = n
      /\ t.inverse = <<>>
  BY DEF Plain
<1>5. Connect(t)
  BY <1>1
<1> HIDE DEF t
<1>3. n \in Int /\ n + Fee \in Int
  BY AmountsAssumption, FeeAssumption
<1>4. \A coins : Paying(t, coins, {}) => SpecialRight(t, coins, {})
  BY <1>2, <1>3, StakeRight
<1>6. t.outputs \in Seq(CreditSet) /\ t.implicit \in Seq(CreditSet)
  BY <1>2, <1>3, NoCredit, OneCredit
<1>7. /\ IsSeq(t.special) /\ \A u \in ToSet(t.special) : u.type \notin Money
      /\ SubMoves(t.moved)
  <2> DEFINE u == [type |-> "Stake", validator |-> v]
  <2>1. u.type \notin Money
    BY DEF Money
  <2> HIDE DEF u
  <2>2. IsSeq(<< u >>) /\ \A w \in ToSet(<< u >>) : w.type \notin Money
    BY <2>1, OneSpecial
  <2>3. SubMoves(t.moved)
    BY <1>2, <1>3, SubAccounts, OneSubMove
  <2>4. t.special = << u >>
    BY <1>2 DEF u
  <2> QED BY <2>2, <2>3, <2>4
<1>8. /\ t.type # "AtomicTxnsWrapper" /\ t.publicKey \in Keys /\ t.bidder = t.publicKey
      /\ t.price \in Int /\ t.bid = 0
  BY <1>2, <1>3
<1>11. t.inverse \in Seq(Moves) /\ Recorded(t)
  BY <1>2, NothingInverse
<1> QED BY <1>4, <1>5, <1>6, <1>7, <1>8, <1>11, PlannedWithoutBids, Zenon

LEMMA UnstakePlanned ==
  ASSUME Unstake
  PROVE  Planned
<1>1. PICK x \in Keys, v \in Validators, n \in Amounts, e \in Epochs :
        Connect([Plain("Unstake", x, Fee, <<>>) EXCEPT
          !.meta = [amount |-> n],
          !.special = << [type |-> "Unstake", staker |-> x, validator |-> v,
                          epoch |-> e] >>,
          !.moved = << Move(ValidatorEntry(v), -n), Move(LockedStake(x, v, e), n) >>,
          !.inverse = << Move(ValidatorEntry(v), -n) >>])
  BY DEF Unstake
<1> DEFINE t == [Plain("Unstake", x, Fee, <<>>) EXCEPT
                    !.meta = [amount |-> n],
                    !.special = << [type |-> "Unstake", staker |-> x, validator |-> v,
                                    epoch |-> e] >>,
                    !.moved = << Move(ValidatorEntry(v), -n),
                                 Move(LockedStake(x, v, e), n) >>,
                    !.inverse = << Move(ValidatorEntry(v), -n) >>]
<1>2. /\ t.type = "Unstake" /\ t.publicKey = x /\ t.bidder = x
      /\ t.price = Fee /\ t.bid = 0 /\ t.outputs = <<>>
      /\ t.implicit = <<>>
      /\ t.special = << [type |-> "Unstake", staker |-> x, validator |-> v, epoch |-> e] >>
      /\ t.moved = << Move(ValidatorEntry(v), -n), Move(LockedStake(x, v, e), n) >>
      /\ t.meta.amount = n /\ t.inverse = << Move(ValidatorEntry(v), -n) >>
  BY DEF Plain
<1>5. Connect(t)
  BY <1>1
<1> HIDE DEF t
<1>3. n \in Int /\ -n \in Int /\ Fee \in Int
  BY AmountsAssumption, FeeAssumption
<1>4. \A coins : Paying(t, coins, {}) => SpecialRight(t, coins, {})
  BY <1>2, <1>3, UnstakeRight
<1>6. t.outputs \in Seq(CreditSet) /\ t.implicit \in Seq(CreditSet)
  BY <1>2, <1>3, NoCredit, OneCredit
<1>7. /\ IsSeq(t.special) /\ \A u \in ToSet(t.special) : u.type \notin Money
      /\ SubMoves(t.moved)
  <2> DEFINE u == [type |-> "Unstake", staker |-> x, validator |-> v, epoch |-> e]
  <2>1. u.type \notin Money
    BY DEF Money
  <2> HIDE DEF u
  <2>2. IsSeq(<< u >>) /\ \A w \in ToSet(<< u >>) : w.type \notin Money
    BY <2>1, OneSpecial
  <2>3. SubMoves(t.moved)
    BY <1>2, <1>3, SubAccounts, TwoSubMoves
  <2>4. t.special = << u >>
    BY <1>2 DEF u
  <2> QED BY <2>2, <2>3, <2>4
<1>8. /\ t.type # "AtomicTxnsWrapper" /\ t.publicKey \in Keys /\ t.bidder = t.publicKey
      /\ t.price \in Int /\ t.bid = 0
  BY <1>2, <1>3
<1>9. t.inverse \in Seq(Moves) /\ Recorded(t)
  <2>1. SubMoves(t.inverse)
    BY <1>2, <1>3, SubAccounts, OneSubMove
  <2> QED BY <1>2, <2>1 DEF SubMoves, Recorded
<1> QED BY <1>4, <1>5, <1>6, <1>7, <1>8, <1>9, PlannedWithoutBids, Zenon

\* The entries that an UnlockStake pays out.
LEMMA UnlockStakePlanned ==
  ASSUME Inv, UnlockStake
  PROVE  Planned
<1>1. PICK x \in Keys, v \in Validators, first \in Epochs, last \in Epochs :
        LET entries == {a \in {LockedStake(x, v, e) : e \in Epochs \cap first..last} :
                          ledger[a] # 0}
            s == SetToSeq(entries)
            moves == [i \in DOMAIN s |-> Move(s[i], -ledger[s[i]])]
        IN  /\ entries # {}
            /\ Connect([Plain("UnlockStake", x, Fee, <<>>) EXCEPT
                 !.implicit = << Credit(x, SumFunctionOnSet(ledger, entries)) >>,
                 !.special = << [type |-> "UnlockStake", entries |->
                     [i \in DOMAIN s |-> [account |-> s[i], amount |-> ledger[s[i]]]]] >>,
                 !.moved = moves,
                 !.inverse = moves])
  BY DEF UnlockStake
<1> DEFINE entries == {a \in {LockedStake(x, v, e) : e \in Epochs \cap first..last} :
                         ledger[a] # 0}
           s == SetToSeq(entries)
           u == [type |-> "UnlockStake", entries |->
                   [i \in DOMAIN s |-> [account |-> s[i], amount |-> ledger[s[i]]]]]
           moves == [i \in DOMAIN s |-> Move(s[i], -ledger[s[i]])]
           t == [Plain("UnlockStake", x, Fee, <<>>) EXCEPT
                   !.implicit = << Credit(x, SumFunctionOnSet(ledger, entries)) >>,
                   !.special = << u >>,
                   !.moved = moves,
                   !.inverse = moves]
           sum == SumFunctionOnSet(ledger, entries)
<1>2. /\ IsFiniteSet(entries)
      /\ entries \subseteq Accounts \ {Main(k) : k \in Keys}
  <2> DEFINE E == Epochs \cap first..last
             f == [e \in E |-> LockedStake(x, v, e)]
             all == {LockedStake(x, v, e) : e \in E}
  <2>1. IsFiniteSet(E)
    BY EpochsAssumption, FS_Subset
  <2>2. f \in Surjection(E, all)
    BY DEF Surjection
  <2>3. IsFiniteSet(all)
    <3> HIDE DEF f, all, E
    <3> QED BY <2>1, <2>2, FS_Surjection
  <2>4. entries \subseteq all
    OBVIOUS
  <2>5. all \subseteq Accounts \ {Main(k) : k \in Keys}
    BY SubAccounts
  <2> HIDE DEF all, entries
  <2> QED BY <2>3, <2>4, <2>5, FS_Subset
<1>3. Connect(t)
  BY <1>1
<1>4. /\ t.type = "UnlockStake" /\ t.publicKey = x /\ t.bidder = x
      /\ t.price = Fee /\ t.bid = 0 /\ t.outputs = <<>>
      /\ t.implicit = << Credit(x, sum) >>
      /\ t.special = << u >>
      /\ t.moved = [i \in DOMAIN s |-> Move(s[i], -ledger[s[i]])]
      /\ t.inverse = t.moved
  <2> HIDE DEF entries, sum
  <2> QED BY DEF Plain, sum
<1> HIDE DEF t
<1>5. \A a \in entries : ledger[a] \in Int
  <2> HIDE DEF entries
  <2> QED BY <1>2, LedgerType
<1>6. \A coins : Paying(t, coins, {}) => SpecialRight(t, coins, {})
  <2> HIDE DEF entries
  <2>1. entries \subseteq Accounts
    BY <1>2
  <2> QED BY <1>2, <1>4, <1>5, <2>1, UnlockStakeRight
<1>7. Fee \in Int /\ sum \in Int
  <2> HIDE DEF entries
  <2> QED BY <1>2, <1>5, FeeAssumption, SumType
<1>8. t.outputs \in Seq(CreditSet) /\ t.implicit \in Seq(CreditSet)
  <2> HIDE DEF sum
  <2> QED BY <1>4, <1>7, NoCredit, OneCredit
<1>9. IsSeq(t.special) /\ \A w \in ToSet(t.special) : w.type \notin Money
  <2>1. u.type \notin Money
    BY DEF Money
  <2> HIDE DEF u
  <2> QED BY <1>4, <2>1, OneSpecial
<1>10. SubMoves(t.moved)
  <2> HIDE DEF entries
  <2> DEFINE m == Len(s)
             moved == [i \in DOMAIN s |-> Move(s[i], -ledger[s[i]])]
  <2>1. m \in Nat /\ DOMAIN s = 1..m /\ \A i \in 1..m : s[i] \in entries
    BY <1>2, SetToSeqRenames
  <2> HIDE DEF s, m
  <2>2. \A i \in 1..m : /\ Move(s[i], -ledger[s[i]]) \in Moves
                        /\ Move(s[i], -ledger[s[i]]).account \notin {Main(k) : k \in Keys}
    <3> TAKE i \in 1..m
    <3>1. s[i] \in Accounts /\ s[i] \notin {Main(k) : k \in Keys} /\ -ledger[s[i]] \in Int
      BY <1>2, <1>5, <2>1
    <3>2. Move(s[i], -ledger[s[i]]) = [account |-> s[i], value |-> -ledger[s[i]]]
      BY DEF Move
    <3>3. Move(s[i], -ledger[s[i]]).account = s[i]
      BY <3>2
    <3> QED BY <3>1, <3>2, <3>3 DEF Moves
  <2>3. /\ moved \in Seq(Moves)
        /\ \A i \in DOMAIN moved : moved[i].account \notin {Main(k) : k \in Keys}
    <3>1. moved \in [1..m -> Moves]
      BY <2>1, <2>2
    <3>2. moved \in Seq(Moves)
      BY <2>1, <3>1
    <3> QED BY <2>1, <2>2, <3>2
  <2> QED BY <1>4, <2>3 DEF SubMoves
<1>11. /\ t.type # "AtomicTxnsWrapper" /\ t.publicKey \in Keys /\ t.bidder = t.publicKey
       /\ t.price \in Int /\ t.bid = 0
  BY <1>4, <1>7
<1>12. t.inverse \in Seq(Moves) /\ Recorded(t)
  BY <1>4, <1>10 DEF SubMoves, Recorded
<1> QED BY <1>3, <1>6, <1>8, <1>9, <1>10, <1>11, <1>12, PlannedWithoutBids, Zenon

-----------------------------------------------------------------------------
(* The wrapper and the end of the block.                                    *)

LEMMA WrapperRight ==
  ASSUME NEW p, NEW ps, NEW d, NEW q, NEW qs, NEW e, NEW k,
         NEW before \in [Accounts -> Int], NEW middle \in [Accounts -> Int],
         NEW after \in [Accounts -> Int],
         p.type # "AtomicTxnsWrapper", q.type # "AtomicTxnsWrapper",
         Right(TRUE, p, ps, d, before, middle), Right(TRUE, q, qs, e, middle, after)
  PROVE  Right(TRUE,
               [type |-> "AtomicTxnsWrapper", publicKey |-> k,
                inputs |-> <<>>, outputs |-> <<>>, bidderInputs |-> <<>>,
                meta |-> [txns |-> << p, q >>]],
               << [type |-> "AtomicTxnsWrapper", innerOps |-> << ps, qs >>] >>,
               Cat(d, e), before, after)
<1> DEFINE w == [type |-> "AtomicTxnsWrapper", publicKey |-> k,
                 inputs |-> <<>>, outputs |-> <<>>, bidderInputs |-> <<>>,
                 meta |-> [txns |-> << p, q >>]]
           u == [type |-> "AtomicTxnsWrapper", innerOps |-> << ps, qs >>]
           all == << u >>
<1>1. w.type = "AtomicTxnsWrapper" /\ w.inputs = <<>> /\ w.meta.txns = << p, q >>
  OBVIOUS
<1>2. u.type = "AtomicTxnsWrapper" /\ u.innerOps = << ps, qs >>
  OBVIOUS
<1> HIDE DEF w, u
<1>3. OfType(all, {"AtomicTxnsWrapper"}) = all
  <2>1. IsSeq(all) /\ ToSet(all) = {u}
    BY DEF IsSeq, ToSet
  <2> HIDE DEF all
  <2> QED BY <1>2, <2>1, OfTypeAll
<1>4. ASSUME NEW spent
      PROVE  Converts(getOperationsForTransaction(w, TRUE, spent, all),
                      Cat(d, e), before, after)
  <2> DEFINE P == PlainOperations(p, TRUE, spent, ps)
             Q == PlainOperations(q, TRUE, spent, qs)
  <2>1. Converts(P, d, before, middle)
    <3>1. Agrees(p, ps, spent)
      <4>1. p.inputs = <<>>
        BY DEF Right
      <4>2. DOMAIN p.inputs = {}
        BY <4>1
      <4> QED BY <4>2 DEF Agrees
    <3>2. getOperationsForTransaction(p, TRUE, spent, ps) = P
      BY DEF getOperationsForTransaction
    <3> HIDE DEF P
    <3> QED BY <3>1, <3>2 DEF Right
  <2>2. Converts(Q, e, middle, after)
    <3>1. Agrees(q, qs, spent)
      <4>1. q.inputs = <<>>
        BY DEF Right
      <4>2. DOMAIN q.inputs = {}
        BY <4>1
      <4> QED BY <4>2 DEF Agrees
    <3>2. getOperationsForTransaction(q, TRUE, spent, qs) = Q
      BY DEF getOperationsForTransaction
    <3> HIDE DEF Q
    <3> QED BY <3>1, <3>2 DEF Right
  <2>3. getOperationsForTransaction(w, TRUE, spent, all) = Cat(P, Q)
    <3> DEFINE found == OfType(all, {"AtomicTxnsWrapper"})
               inner == << p, q >>
               opsForInner == << ps, qs >>
               parts == [i \in DOMAIN inner |->
                           PlainOperations(inner[i], TRUE, spent, opsForInner[i])]
    <3>1. found # <<>> /\ found[1] = u
      <4>1. << u >> # <<>> /\ << u >>[1] = u
        OBVIOUS
      <4> QED BY <1>3, <4>1
    <3>2. (IF found = <<>> THEN <<>> ELSE found[1].innerOps) = opsForInner
      BY <1>2, <3>1
    <3>3. Len(opsForInner) = Len(inner)
      OBVIOUS
    <3>4. parts = << P, Q >>
      <4>1. /\ inner[1] = p /\ inner[2] = q /\ opsForInner[1] = ps /\ opsForInner[2] = qs
            /\ DOMAIN inner = 1..2
        OBVIOUS
      <4> HIDE DEF inner, opsForInner
      <4> DEFINE F(i) == PlainOperations(inner[i], TRUE, spent, opsForInner[i])
      <4>2. parts = [i \in 1..2 |-> F(i)] /\ F(1) = P /\ F(2) = Q
        BY <4>1
      <4>3. parts = [i \in 1..2 |-> IF i = 1 THEN P ELSE Q]
        <5> HIDE DEF P, Q, parts, F
        <5>1. \A i \in 1..2 : F(i) = IF i = 1 THEN P ELSE Q
          <6>1. \A i \in 1..2 : i = 1 \/ i = 2
            OBVIOUS
          <6> QED BY <4>2, <6>1
        <5> QED BY <4>2, <5>1
      <4> HIDE DEF parts, P, Q
      <4>4. [i \in 1..2 |-> IF i = 1 THEN P ELSE Q] = << P, Q >>
        OBVIOUS
      <4> QED BY <4>3, <4>4
    <3>5. getOperationsForTransaction(w, TRUE, spent, all) = FlattenSeq(parts)
      <4>1. getOperationsForTransaction(w, TRUE, spent, all)
              = LET f == OfType(all, {"AtomicTxnsWrapper"})
                    i == w.meta.txns
                    o == IF f = <<>> THEN <<>> ELSE f[1].innerOps
                IN  IF Len(o) # Len(i) THEN <<>>
                    ELSE FlattenSeq([x \in DOMAIN i |->
                           PlainOperations(i[x], TRUE, spent, o[x])])
        BY <1>1 DEF getOperationsForTransaction
      <4> HIDE DEF found
      <4>2. (IF OfType(all, {"AtomicTxnsWrapper"}) = <<>> THEN <<>>
             ELSE OfType(all, {"AtomicTxnsWrapper"})[1].innerOps) = opsForInner
        BY <3>2 DEF found
      <4> HIDE DEF inner, opsForInner, all
      <4> QED BY <1>1, <3>3, <4>1, <4>2 DEF inner
    <3> HIDE DEF parts, P, Q
    <3> QED BY <3>4, <3>5, FlattenTwo
  <2> HIDE DEF P, Q
  <2>4. /\ Cat(P, Q) \in Seq(Ops)
        /\ \A a : ValueOf(Cat(P, Q), a) = ValueOf(P, a) + ValueOf(Q, a)
    BY <2>1, <2>2, OpsConcat DEF Converts
  <2>5. /\ Cat(d, e) \in Seq(Moves)
        /\ \A a : /\ ValueOf(d, a) \in Int /\ ValueOf(e, a) \in Int
                  /\ ValueOf(Cat(d, e), a) = ValueOf(d, a) + ValueOf(e, a)
    BY <2>1, <2>2, MovesConcat DEF Converts
  <2>6. \A a \in Accounts : ValueOf(Cat(P, Q), a)
          = (after[a] - before[a]) - 2 * ValueOf(Cat(d, e), a)
    <3> TAKE a \in Accounts
    <3>1. /\ ValueOf(P, a) = (middle[a] - before[a]) - 2 * ValueOf(d, a)
          /\ ValueOf(Q, a) = (after[a] - middle[a]) - 2 * ValueOf(e, a)
      BY <2>1, <2>2 DEF Converts
    <3>2. before[a] \in Int /\ middle[a] \in Int /\ after[a] \in Int
      OBVIOUS
    <3> QED BY <2>4, <2>5, <3>1, <3>2
  <2> QED BY <2>3, <2>4, <2>5, <2>6 DEF Converts
<1> HIDE DEF all
<1>5. Right(TRUE, w, all, Cat(d, e), before, after)
  <2>1. DOMAIN w.inputs = {}
    BY <1>1
  <2> QED BY <1>1, <1>4, <2>1 DEF Right
<1> QED BY <1>5 DEF w, u, all

LEMMA WrapperInv ==
  ASSUME Inv, AtomicTxnsWrapper
  PROVE  Inv'
<1> DEFINE n == Len(txns)
           m == n - 2
           txn == [type |-> "AtomicTxnsWrapper", publicKey |-> txns[n].publicKey,
                   inputs |-> <<>>, outputs |-> <<>>, bidderInputs |-> <<>>,
                   meta |-> [txns |-> << txns[n - 1], txns[n] >>]]
           all == << [type |-> "AtomicTxnsWrapper",
                      innerOps |-> << utxoOps[n - 1], utxoOps[n] >>] >>
           both == Cat(inverted[n - 1], inverted[n])
<1>1. /\ isBalanceModel /\ ~closed /\ n >= 2
      /\ txns[n].type # "AtomicTxnsWrapper" /\ txns[n - 1].type # "AtomicTxnsWrapper"
      /\ txns' = Append(SubSeq(txns, 1, m), txn)
      /\ utxoOps' = Append(SubSeq(utxoOps, 1, m), all)
      /\ ledgers' = Append(SubSeq(ledgers, 1, n - 1), ledger)
      /\ inverted' = Append(SubSeq(inverted, 1, m), both)
      /\ isBalanceModel' = isBalanceModel /\ unspent' = unspent /\ closed' = closed
  BY DEF AtomicTxnsWrapper, Cat
<1>2. /\ IsSeq(txns) /\ IsSeq(utxoOps) /\ IsSeq(ledgers) /\ IsSeq(inverted)
      /\ isBalanceModel \in BOOLEAN /\ closed \in BOOLEAN
      /\ n \in Nat /\ Len(utxoOps) = n /\ Len(inverted) = n /\ Len(ledgers) = n + 1
      /\ \A i \in 1..n + 1 : ledgers[i] \in [Accounts -> 0..MaxBalance]
  <2>1. n \in Nat
    BY IsSeqFacts DEF Inv, Shape
  <2> QED BY <1>1, <2>1 DEF Inv, Shape
<1> HIDE DEF txn, all, both, n
<1>3. /\ m \in 0..n /\ n - 1 \in 0..n + 1 /\ m + 1 = n - 1 /\ (n - 1) + 1 = n
      /\ n - 1 \in 1..n /\ n \in 1..n /\ n + 1 \in 1..n + 1
  BY <1>1, <1>2
<1>4. ledger = ledgers[n + 1]
  BY <1>2 DEF ledger, Last
<1> HIDE DEF m
<1>5. /\ IsSeq(txns') /\ Len(txns') = n - 1 /\ txns'[n - 1] = txn
      /\ \A i \in 1..m : txns'[i] = txns[i]
  <2>1. /\ IsSeq(SubSeq(txns, 1, m)) /\ Len(SubSeq(txns, 1, m)) = m
        /\ \A i \in 1..m : SubSeq(txns, 1, m)[i] = txns[i]
    BY <1>2, <1>3, SubSeqFacts DEF n
  <2> QED BY <1>1, <1>3, <2>1, AppendFacts
<1>6. /\ IsSeq(utxoOps') /\ Len(utxoOps') = n - 1 /\ utxoOps'[n - 1] = all
      /\ \A i \in 1..m : utxoOps'[i] = utxoOps[i]
  <2>1. /\ IsSeq(SubSeq(utxoOps, 1, m)) /\ Len(SubSeq(utxoOps, 1, m)) = m
        /\ \A i \in 1..m : SubSeq(utxoOps, 1, m)[i] = utxoOps[i]
    BY <1>2, <1>3, SubSeqFacts
  <2> QED BY <1>1, <1>3, <2>1, AppendFacts
<1>7. /\ IsSeq(inverted') /\ Len(inverted') = n - 1 /\ inverted'[n - 1] = both
      /\ \A i \in 1..m : inverted'[i] = inverted[i]
  <2>1. /\ IsSeq(SubSeq(inverted, 1, m)) /\ Len(SubSeq(inverted, 1, m)) = m
        /\ \A i \in 1..m : SubSeq(inverted, 1, m)[i] = inverted[i]
    BY <1>2, <1>3, SubSeqFacts
  <2> QED BY <1>1, <1>3, <2>1, AppendFacts
<1>8. /\ IsSeq(ledgers') /\ Len(ledgers') = n /\ ledgers'[n] = ledgers[n + 1]
      /\ \A i \in 1..n - 1 : ledgers'[i] = ledgers[i]
  <2>1. /\ IsSeq(SubSeq(ledgers, 1, n - 1)) /\ Len(SubSeq(ledgers, 1, n - 1)) = n - 1
        /\ \A i \in 1..n - 1 : SubSeq(ledgers, 1, n - 1)[i] = ledgers[i]
    BY <1>2, <1>3, SubSeqFacts
  <2> QED BY <1>1, <1>3, <1>4, <2>1, AppendFacts
<1>9. Shape'
  <2>1. \A i \in 1..n : ledgers'[i] \in [Accounts -> 0..MaxBalance]
    <3> TAKE i \in 1..n
    <3>1. CASE i = n
      BY <1>2, <1>3, <1>8, <3>1
    <3>2. CASE i # n
      <4>1. i \in 1..n - 1 /\ i \in 1..n + 1
        BY <1>2, <3>2
      <4> QED BY <1>2, <1>8, <4>1
    <3> QED BY <3>1, <3>2
  <2>2. Len(ledgers') = Len(txns') + 1
    BY <1>3, <1>5, <1>8
  <2> QED BY <1>1, <1>2, <1>5, <1>6, <1>7, <1>8, <2>1, <2>2 DEF Shape
<1>10. CoinsRight'
  <2>1. /\ IsFiniteSet(unspent)
        /\ unspent \subseteq [key : Nat \X Nat, publicKey : Keys, amount : Int]
    BY DEF Inv, CoinsRight
  <2> QED BY <1>1, <2>1 DEF CoinsRight
<1>11. TxnsRight'
  <2>1. \A i \in 1..n : Right(isBalanceModel, txns[i], utxoOps[i], inverted[i],
                              ledgers[i], ledgers[i + 1])
    BY DEF Inv, TxnsRight, n
  <2>2. isBalanceModel = TRUE
    BY <1>1, <1>2
  <2>3. Right(isBalanceModel, txn, all, both, ledgers[n - 1], ledgers[n + 1])
    <3>1. /\ Right(TRUE, txns[n - 1], utxoOps[n - 1], inverted[n - 1],
                   ledgers[n - 1], ledgers[n])
          /\ Right(TRUE, txns[n], utxoOps[n], inverted[n], ledgers[n], ledgers[n + 1])
      BY <1>3, <2>1, <2>2
    <3>2. /\ ledgers[n - 1] \in [Accounts -> Int] /\ ledgers[n] \in [Accounts -> Int]
          /\ ledgers[n + 1] \in [Accounts -> Int]
      <4>1. [Accounts -> 0..MaxBalance] \subseteq [Accounts -> Int]
        BY BoundsAssumption
      <4>2. n - 1 \in 1..n + 1 /\ n \in 1..n + 1
        BY <1>2, <1>3
      <4> QED BY <1>2, <1>3, <4>1, <4>2
    <3>3. Right(TRUE, txn, all, both, ledgers[n - 1], ledgers[n + 1])
      BY <1>1, <3>1, <3>2, WrapperRight DEF txn, all, both
    <3> QED BY <2>2, <3>3
  <2>4. ASSUME NEW i \in 1..n - 1
        PROVE  Right(isBalanceModel', txns'[i], utxoOps'[i], inverted'[i],
                     ledgers'[i], ledgers'[i + 1])
    <3>1. CASE i = n - 1
      <4>1. i + 1 = n /\ i \in 1..n - 1
        BY <1>3, <3>1
      <4>2. ledgers'[i] = ledgers[n - 1] /\ ledgers'[i + 1] = ledgers[n + 1]
        BY <1>8, <3>1, <4>1
      <4> QED BY <1>1, <1>5, <1>6, <1>7, <2>3, <3>1, <4>2
    <3>2. CASE i # n - 1
      <4>1. i \in 1..m /\ i \in 1..n /\ i \in 1..n - 1 /\ i + 1 \in 1..n - 1
        BY <1>2, <3>2 DEF m
      <4> QED BY <1>1, <1>5, <1>6, <1>7, <1>8, <2>1, <4>1
    <3> QED BY <3>1, <3>2
  <2> QED BY <1>5, <2>4 DEF TxnsRight
<1>12. BlockRight'
  <2>1. Len(utxoOps') # Len(txns') + 1
    BY <1>2, <1>5, <1>6
  <2> QED BY <2>1 DEF BlockRight
<1> QED BY <1>9, <1>10, <1>11, <1>12 DEF Inv

LEMMA OneAfterOne ==
  ASSUME NEW x, NEW y
  PROVE  Cat(<< x >>, << y >>) = << x, y >>
<1> DEFINE c == << x >> \o << y >>
<1>1. << x >> \in Seq({x, y}) /\ << y >> \in Seq({x, y})
  OBVIOUS
<1>2. c \in Seq({x, y}) /\ Len(c) = 2 /\ c[1] = x /\ c[2] = y
  BY <1>1
<1> HIDE DEF c
<1>3. c = << x, y >>
  BY <1>2
<1> QED BY <1>3 DEF c, Cat

\* The rewards of an epoch, as the block's own operations show them.
LEMMA RewardsRight ==
  ASSUME NEW k \in Keys, NEW v \in Validators, NEW n \in Int, NEW m \in Int
  PROVE  LET ops == BlockLevelOperations(
                      << [type |-> "StakeDistributionRestake", validator |-> v,
                          amount |-> m],
                         [type |-> "StakeDistributionPayToBalance", publicKey |-> k,
                          amount |-> n] >>)
         IN  /\ ops \in Seq(Ops)
             /\ \A a : ValueOf(ops, a)
                         = ValueOf(<< Move(Main(k), n), Move(ValidatorEntry(v), m) >>, a)
<1> DEFINE x == [type |-> "StakeDistributionRestake", validator |-> v, amount |-> m]
           y == [type |-> "StakeDistributionPayToBalance", publicKey |-> k, amount |-> n]
           s == << x, y >>
           p == getImplicitOutputs(0, s)
           q == getStakingRewardDistributionOps(s)
           b == Output(Main(k), n)
           c == Output(ValidatorEntry(v), m)
<1>1. /\ IsSeq(<< x >>) /\ ToSet(<< x >>) = {x} /\ IsSeq(<< y >>) /\ ToSet(<< y >>) = {y}
  BY DEF IsSeq, ToSet
<1>2. /\ ~IsImplicit(0, x) /\ IsImplicit(0, y)
      /\ x.type = "StakeDistributionRestake" /\ x.validator = v /\ x.amount = m
      /\ y.type # "StakeDistributionRestake" /\ y.publicKey = k /\ y.amount = n
  BY DEF IsImplicit
<1> HIDE DEF x, y
<1>3. s = Cat(<< x >>, << y >>)
  BY OneAfterOne
<1> HIDE DEF s
<1>4. p = << b >>
  <2>1. p = Cat(getImplicitOutputs(0, << x >>), getImplicitOutputs(0, << y >>))
    BY <1>1, <1>3, ImplicitConcat
  <2>2. getImplicitOutputs(0, << x >>) = <<>>
    BY <1>1, <1>2, ImplicitNone
  <2>3. getImplicitOutputs(0, << y >>) = << b >>
    <3>1. getImplicitOutputs(0, << y >>)
            = [i \in DOMAIN << y >> |-> Output(Main(<< y >>[i].publicKey), << y >>[i].amount)]
      BY <1>1, <1>2, ImplicitAll
    <3>2. DOMAIN << y >> = {1} /\ << y >>[1] = y
      OBVIOUS
    <3>3. getImplicitOutputs(0, << y >>) = [i \in {1} |-> b]
      BY <1>2, <3>1, <3>2
    <3> HIDE DEF b
    <3>4. [i \in {1} |-> b] = << b >>
      OBVIOUS
    <3> QED BY <3>3, <3>4
  <2>4. Cat(<<>>, << b >>) = << b >>
    <3> HIDE DEF b
    <3> QED BY DEF Cat
  <2> QED BY <2>1, <2>2, <2>3, <2>4
<1>5. q = << c >>
  <2> DEFINE types == {"StakeDistributionRestake"}
  <2>1. OfType(s, types) = << x >>
    <3>1. OfType(s, types) = Cat(OfType(<< x >>, types), OfType(<< y >>, types))
      BY <1>1, <1>3, OfTypeConcat
    <3>2. OfType(<< x >>, types) = << x >>
      BY <1>1, <1>2, OfTypeAll
    <3>3. OfType(<< y >>, types) = <<>>
      BY <1>1, <1>2, OfTypeNone
    <3>4. Cat(<< x >>, <<>>) = << x >>
      BY DEF Cat
    <3> QED BY <3>1, <3>2, <3>3, <3>4
  <2>2. q = [i \in DOMAIN << x >> |-> Output(ValidatorEntry(<< x >>[i].validator),
                                             << x >>[i].amount)]
    BY <2>1 DEF getStakingRewardDistributionOps
  <2>3. DOMAIN << x >> = {1} /\ << x >>[1] = x
    OBVIOUS
  <2>4. q = [i \in {1} |-> c]
    BY <1>2, <2>2, <2>3
  <2> HIDE DEF c, q
  <2>5. [i \in {1} |-> c] = << c >>
    OBVIOUS
  <2> QED BY <2>4, <2>5
<1>6. /\ b \in Ops /\ c \in Ops
      /\ \A a : /\ Entry(b, a) = IF Main(k) = a THEN n ELSE 0
                /\ Entry(c, a) = IF ValidatorEntry(v) = a THEN m ELSE 0
  BY MainAccount, ValidatorAccount DEF Output, Operation, Ops, Entry
<1> HIDE DEF b, c
<1>7. /\ << b >> \in Seq(Ops) /\ << c >> \in Seq(Ops)
      /\ \A a : ValueOf(<< b >>, a) = Entry(b, a) /\ ValueOf(<< c >>, a) = Entry(c, a)
  BY <1>6, OneOp
<1>8. BlockLevelOperations(s) = Cat(<< b >>, << c >>)
  <2>1. BlockLevelOperations(s) = Cat(p, q)
    BY DEF BlockLevelOperations, Cat
  <2> HIDE DEF p, q
  <2> QED BY <1>4, <1>5, <2>1
<1>9. /\ Cat(<< b >>, << c >>) \in Seq(Ops)
      /\ \A a : ValueOf(Cat(<< b >>, << c >>), a) = ValueOf(<< b >>, a) + ValueOf(<< c >>, a)
  BY <1>7, OpsConcat
<1> HIDE DEF p, q, x, y, s
<1>10. \A a : ValueOf(<< Move(Main(k), n), Move(ValidatorEntry(v), m) >>, a)
                = (IF Main(k) = a THEN n ELSE 0) + (IF ValidatorEntry(v) = a THEN m ELSE 0)
  BY TwoMoves
<1>11. /\ BlockLevelOperations(s) \in Seq(Ops)
       /\ \A a : ValueOf(BlockLevelOperations(s), a)
                   = ValueOf(<< Move(Main(k), n), Move(ValidatorEntry(v), m) >>, a)
  <2> DEFINE o == BlockLevelOperations(s)
             w == << Move(Main(k), n), Move(ValidatorEntry(v), m) >>
  <2>1. \A a : /\ ValueOf(o, a) = Entry(b, a) + Entry(c, a)
               /\ ValueOf(w, a) = Entry(b, a) + Entry(c, a)
    <3>1. \A a : ValueOf(o, a) = ValueOf(<< b >>, a) + ValueOf(<< c >>, a)
      BY <1>8, <1>9
    <3> HIDE DEF o, w
    <3>2. \A a : ValueOf(w, a) = Entry(b, a) + Entry(c, a)
      BY <1>6, <1>10 DEF w
    <3>3. \A a : ValueOf(o, a) = Entry(b, a) + Entry(c, a)
      BY <1>7, <3>1
    <3> QED BY <3>2, <3>3
  <2>2. o \in Seq(Ops)
    BY <1>8, <1>9
  <2> HIDE DEF o, w
  <2>3. \A a : ValueOf(o, a) = ValueOf(w, a)
    BY <2>1
  <2> QED BY <2>2, <2>3 DEF o, w
<1> QED BY <1>11 DEF s, x, y

LEMMA EndInv ==
  ASSUME Inv, EndBlock
  PROVE  Inv'
<1> DEFINE n == Len(txns)
<1>1. /\ ~closed /\ closed' = TRUE /\ isBalanceModel' = isBalanceModel
      /\ txns' = txns /\ unspent' = unspent /\ inverted' = inverted
  BY DEF EndBlock
<1>2. /\ IsSeq(txns) /\ IsSeq(utxoOps) /\ IsSeq(ledgers) /\ IsSeq(inverted)
      /\ isBalanceModel \in BOOLEAN
      /\ n \in Nat /\ Len(utxoOps) = n /\ Len(inverted) = n /\ Len(ledgers) = n + 1
      /\ \A i \in 1..n + 1 : ledgers[i] \in [Accounts -> 0..MaxBalance]
  <2>1. n \in Nat
    BY IsSeqFacts DEF Inv, Shape
  <2> QED BY <1>1, <2>1 DEF Inv, Shape
<1>3. closed' \in BOOLEAN
  BY <1>1, Zenon
<1>4. \A i \in 1..n : Right(isBalanceModel, txns[i], utxoOps[i], inverted[i],
                            ledgers[i], ledgers[i + 1])
  BY DEF Inv, TxnsRight
<1> HIDE DEF n
<1>5. CASE utxoOps' = utxoOps /\ ledgers' = ledgers
  <2>1. Shape'
    BY <1>1, <1>2, <1>3, <1>5 DEF Shape, n
  <2>2. CoinsRight'
    BY <1>1, <1>5 DEF Inv, CoinsRight
  <2>3. TxnsRight'
    BY <1>1, <1>4, <1>5 DEF TxnsRight, n
  <2>4. BlockRight'
    <3>1. Len(utxoOps') # Len(txns') + 1
      BY <1>1, <1>2, <1>5 DEF n
    <3> QED BY <3>1 DEF BlockRight
  <2> QED BY <2>1, <2>2, <2>3, <2>4 DEF Inv
<1>6. CASE /\ isBalanceModel
           /\ \E k \in Keys, v \in Validators, r, s \in Rewards :
                LET moved == << Move(Main(k), r), Move(ValidatorEntry(v), s) >>
                IN  /\ \A a \in Accounts : After(ledger, moved)[a] =< MaxBalance
                    /\ ledgers' = Append(ledgers, After(ledger, moved))
                    /\ utxoOps' = Append(utxoOps,
                         << [type |-> "StakeDistributionRestake", validator |-> v,
                             amount |-> s],
                            [type |-> "StakeDistributionPayToBalance", publicKey |-> k,
                             amount |-> r] >>)
  <2>1. PICK k \in Keys, v \in Validators, r \in Rewards, s \in Rewards :
          LET moved == << Move(Main(k), r), Move(ValidatorEntry(v), s) >>
          IN  /\ \A a \in Accounts : After(ledger, moved)[a] =< MaxBalance
              /\ ledgers' = Append(ledgers, After(ledger, moved))
              /\ utxoOps' = Append(utxoOps,
                   << [type |-> "StakeDistributionRestake", validator |-> v,
                       amount |-> s],
                      [type |-> "StakeDistributionPayToBalance", publicKey |-> k,
                       amount |-> r] >>)
    BY <1>6
  <2> DEFINE moved == << Move(Main(k), r), Move(ValidatorEntry(v), s) >>
             after == After(ledger, moved)
             all == << [type |-> "StakeDistributionRestake", validator |-> v,
                        amount |-> s],
                       [type |-> "StakeDistributionPayToBalance", publicKey |-> k,
                        amount |-> r] >>
             ops == BlockLevelOperations(all)
  <2>2. /\ \A a \in Accounts : after[a] =< MaxBalance
        /\ ledgers' = Append(ledgers, after) /\ utxoOps' = Append(utxoOps, all)
    BY <2>1
  <2>3. r \in Nat /\ s \in Nat
    BY RewardsAssumption
  <2>4. ops \in Seq(Ops) /\ \A a : ValueOf(ops, a) = ValueOf(moved, a)
    BY <2>3, RewardsRight
  <2>5. \A a : ValueOf(moved, a) \in Nat
    <3>1. \A a : ValueOf(moved, a)
                   = (IF Main(k) = a THEN r ELSE 0) + (IF ValidatorEntry(v) = a THEN s ELSE 0)
      BY <2>3, TwoMoves
    <3> HIDE DEF moved
    <3> QED BY <2>3, <3>1
  <2>6. after = [a \in DOMAIN ledger |-> ledger[a] + ValueOf(moved, a)]
    BY DEF After
  <2> HIDE DEF moved, all, ops, after
  <2>7. ledger = ledgers[n + 1] /\ ledger \in [Accounts -> 0..MaxBalance]
    <3>1. ledger = ledgers[n + 1]
      BY <1>2 DEF ledger, Last
    <3>2. n + 1 \in 1..n + 1
      BY <1>2
    <3> QED BY <1>2, <3>1, <3>2
  <2>8. /\ after \in [Accounts -> 0..MaxBalance]
        /\ \A a \in Accounts : after[a] - ledger[a] = ValueOf(moved, a)
    <3>1. \A a \in Accounts : /\ after[a] = ledger[a] + ValueOf(moved, a)
                              /\ ledger[a] \in Nat
      BY <2>6, <2>7, BoundsAssumption
    <3>2. \A a \in Accounts : after[a] \in 0..MaxBalance
      BY <2>2, <2>5, <3>1, BoundsAssumption
    <3>3. after = [a \in Accounts |-> after[a]]
      BY <2>6, <2>7
    <3>4. \A a \in Accounts : after[a] - ledger[a] = ValueOf(moved, a)
      BY <2>5, <3>1
    <3> QED BY <3>2, <3>3, <3>4
  <2>9. /\ IsSeq(utxoOps') /\ Len(utxoOps') = n + 1 /\ utxoOps'[n + 1] = all
        /\ \A i \in 1..n : utxoOps'[i] = utxoOps[i]
    BY <1>2, <2>2, AppendFacts
  <2>10. /\ IsSeq(ledgers') /\ Len(ledgers') = n + 2 /\ ledgers'[n + 2] = after
         /\ \A i \in 1..n + 1 : ledgers'[i] = ledgers[i]
    <3>1. /\ IsSeq(ledgers') /\ Len(ledgers') = (n + 1) + 1
          /\ ledgers'[(n + 1) + 1] = after
          /\ \A i \in 1..n + 1 : ledgers'[i] = ledgers[i]
      BY <1>2, <2>2, AppendFacts
    <3>2. (n + 1) + 1 = n + 2
      BY <1>2
    <3> QED BY <3>1, <3>2
  <2>11. Shape'
    <3>1. \A i \in 1..n + 2 : ledgers'[i] \in [Accounts -> 0..MaxBalance]
      <4> TAKE i \in 1..n + 2
      <4>1. CASE i = n + 2
        BY <2>8, <2>10, <4>1
      <4>2. CASE i # n + 2
        <5>1. i \in 1..n + 1
          BY <1>2, <4>2
        <5> QED BY <1>2, <2>10, <5>1
      <4> QED BY <4>1, <4>2
    <3> QED BY <1>1, <1>2, <1>3, <2>9, <2>10, <3>1 DEF Shape, n
  <2>12. CoinsRight'
    <3>1. /\ IsFiniteSet(unspent)
          /\ unspent \subseteq [key : Nat \X Nat, publicKey : Keys, amount : Int]
      BY DEF Inv, CoinsRight
    <3> QED BY <1>1, <1>6, <3>1 DEF CoinsRight
  <2>13. TxnsRight'
    <3>1. ASSUME NEW i \in 1..n
          PROVE  Right(isBalanceModel', txns'[i], utxoOps'[i], inverted'[i],
                       ledgers'[i], ledgers'[i + 1])
      <4>1. i \in 1..n + 1 /\ i + 1 \in 1..n + 1
        BY <1>2
      <4> QED BY <1>1, <1>4, <2>9, <2>10, <4>1
    <3> QED BY <1>1, <3>1 DEF TxnsRight, n
  <2>14. BlockRight'
    <3>1. Converts(ops, <<>>, ledger, after)
      <4>1. \A a \in Accounts :
              ValueOf(ops, a) = (after[a] - ledger[a]) - 2 * ValueOf(<<>>, a)
        <5>1. \A a \in Accounts : /\ ValueOf(ops, a) = after[a] - ledger[a]
                                  /\ after[a] \in Int /\ ledger[a] \in Int
          BY <2>4, <2>7, <2>8, BoundsAssumption
        <5>2. \A a : ValueOf(<<>>, a) = 0
          BY NoOps
        <5> QED BY <5>1, <5>2
      <4> QED BY <2>4, <4>1, NoOps DEF Converts
    <3>2. n + 1 \in 1..n + 1
      BY <1>2
    <3>3. ledgers'[n + 1] = ledger /\ ledgers'[n + 2] = after /\ utxoOps'[n + 1] = all
      BY <2>7, <2>9, <2>10, <3>2
    <3>4. isBalanceModel' /\ Converts(BlockLevelOperations(utxoOps'[n + 1]), <<>>,
                                      ledgers'[n + 1], ledgers'[n + 2])
      BY <1>1, <1>6, <3>1, <3>3 DEF ops
    <3>5. Len(utxoOps') = n + 1 /\ Len(txns') = n
      BY <1>1, <2>9 DEF n
    <3> QED BY <3>4, <3>5 DEF BlockRight
  <2> QED BY <2>11, <2>12, <2>13, <2>14 DEF Inv
<1> QED BY <1>5, <1>6 DEF EndBlock

LEMMA StutterInv ==
  ASSUME Inv, UNCHANGED vars
  PROVE  Inv'
BY DEF Inv, Shape, CoinsRight, TxnsRight, BlockRight, vars

LEMMA NextPlanned ==
  ASSUME Inv, [Next]_vars
  PROVE  Planned \/ AtomicTxnsWrapper \/ EndBlock \/ UNCHANGED vars
<1>1. CASE BlockReward \/ BasicTransfer \/ BuyCreatorCoin \/ SellCreatorCoin
  BY <1>1, BlockRewardPlanned, BasicTransferPlanned, BuyCreatorCoinPlanned,
     SellCreatorCoinPlanned
<1>2. CASE SwapIdentity \/ AcceptNFTBid \/ BuyNowNFTBid \/ NFTBid \/ UpdateProfile
  BY <1>2, SwapIdentityPlanned, AcceptNFTBidPlanned, BuyNowNFTBidPlanned, NFTBidPlanned,
     UpdateProfilePlanned
<1>3. CASE DAOCoinLimitOrder \/ Stake \/ Unstake \/ UnlockStake
  BY <1>3, DAOCoinLimitOrderPlanned, StakePlanned, UnstakePlanned, UnlockStakePlanned
<1> QED BY <1>1, <1>2, <1>3 DEF Next

LEMMA NextInv ==
  ASSUME Inv, [Next]_vars
  PROVE  Inv'
<1>1. CASE Planned
  BY <1>1, ConnectInv DEF Planned
<1> QED BY <1>1, NextPlanned, WrapperInv, EndInv, StutterInv

-----------------------------------------------------------------------------
(* What the invariant says of the served block.                             *)

\* The inputs of a transaction are among what the block is found to spend.
LEMMA BlockAgrees ==
  ASSUME Inv, NEW i \in 1..Len(txns)
  PROVE  Agrees(txns[i], utxoOps[i], SpentUtxos(utxoOps))
<1> DEFINE spent == SpentUtxos(utxoOps)
<1>1. /\ \A j \in DOMAIN txns[i].inputs :
           \E u \in ToSet(utxoOps[i]) : u.type = "SpendUtxo" /\ u.key = txns[i].inputs[j]
      /\ isBalanceModel => txns[i].inputs = <<>>
  BY DEF Inv, TxnsRight, Right
<1>2. CASE isBalanceModel
  <2>1. DOMAIN txns[i].inputs = {}
    BY <1>1, <1>2
  <2> QED BY <2>1 DEF Agrees
<1>3. CASE ~isBalanceModel
  <2>1. \A u, w \in Spends(utxoOps) : u.key = w.key => u.amount = w.amount
    BY <1>3 DEF Inv, CoinsRight
  <2>2. \A u \in Spends(utxoOps) : u.key \in DOMAIN spent /\ spent[u.key] = u.amount
    BY <2>1, SpentAmount
  <2> HIDE DEF spent
  <2>3. i \in DOMAIN utxoOps
    <3> DEFINE n == Len(txns)
               m == Len(utxoOps)
    <3>1. n \in Nat /\ m \in Nat /\ DOMAIN utxoOps = 1..m
      BY IsSeqFacts DEF Inv, Shape
    <3>2. m = n \/ m = n + 1
      BY DEF Inv, Shape
    <3>3. i \in 1..n
      OBVIOUS
    <3> HIDE DEF n, m
    <3>4. i \in 1..m
      BY <3>1, <3>2, <3>3
    <3> QED BY <3>1, <3>4
  <2>4. \A u \in ToSet(utxoOps[i]) : u.type = "SpendUtxo" => u \in Spends(utxoOps)
    BY <2>3 DEF Spends
  <2>5. Agrees(txns[i], utxoOps[i], spent)
    <3> SUFFICES ASSUME NEW j \in DOMAIN txns[i].inputs
                 PROVE  /\ txns[i].inputs[j] \in DOMAIN spent
                        /\ \A u \in ToSet(utxoOps[i]) :
                             (u.type = "SpendUtxo" /\ u.key = txns[i].inputs[j])
                               => spent[txns[i].inputs[j]] = u.amount
      BY Zenon DEF Agrees
    <3>1. PICK u \in ToSet(utxoOps[i]) :
            u.type = "SpendUtxo" /\ u.key = txns[i].inputs[j]
      BY <1>1
    <3> QED BY <2>2, <2>4, <3>1
  <2> QED BY <2>5 DEF spent
<1> QED BY <1>2, <1>3

LEMMA ServedRight ==
  ASSUME Inv
  PROVE  /\ Served \in Seq(Seq(Ops)) /\ Len(Served) = Len(ledgers) - 1
         /\ \A i \in 1..Len(Served) : \A a \in Accounts :
              ValueOf(Served[i], a)
                = (ledgers[i + 1][a] - ledgers[i][a]) - 2 * ValueOf(Inverted(i), a)
<1> DEFINE n == Len(txns)
           spent == SpentUtxos(utxoOps)
           utxoOpsForTxn(i) == IF utxoOps = <<>> THEN <<>> ELSE utxoOps[i]
           raw(i) == getOperationsForTransaction(txns[i], isBalanceModel, spent,
                                                 utxoOpsForTxn(i))
           block == BlockLevelOperations(Last(utxoOps))
           p == [i \in DOMAIN txns |-> squashOperations(raw(i))]
           rest == IF Len(utxoOps) = n + 1 THEN << squashOperations(block) >> ELSE <<>>
           q == Served
<1>1. /\ IsSeq(txns) /\ IsSeq(inverted) /\ n \in Nat /\ DOMAIN txns = 1..n
      /\ DOMAIN inverted = 1..n
      /\ \/ Len(utxoOps) = n /\ Len(ledgers) = n + 1
         \/ Len(utxoOps) = n + 1 /\ Len(ledgers) = n + 2
  <2>1. /\ IsSeq(txns) /\ IsSeq(inverted) /\ Len(inverted) = n
        /\ \/ Len(utxoOps) = n /\ Len(ledgers) = n + 1
           \/ Len(utxoOps) = n + 1 /\ Len(ledgers) = n + 2
    BY DEF Inv, Shape
  <2>2. n \in Nat /\ DOMAIN txns = 1..n /\ DOMAIN inverted = 1..Len(inverted)
    BY <2>1, IsSeqFacts
  <2> HIDE DEF n
  <2> QED BY <2>1, <2>2
<1>2. Served = p \o rest
  BY DEF Served, GetTransactionsForConvertBlock
<1>3. ASSUME NEW i \in 1..n
      PROVE  /\ squashOperations(raw(i)) \in Seq(Ops)
             /\ \A a \in Accounts :
                  ValueOf(squashOperations(raw(i)), a)
                    = (ledgers[i + 1][a] - ledgers[i][a]) - 2 * ValueOf(Inverted(i), a)
  <2>1. Agrees(txns[i], utxoOps[i], spent)
    BY BlockAgrees
  <2>2. Converts(raw(i), inverted[i], ledgers[i], ledgers[i + 1])
    <3>1. Len(utxoOps) # 0
      BY <1>1
    <3>2. utxoOpsForTxn(i) = utxoOps[i]
      BY <3>1
    <3>3. Right(isBalanceModel, txns[i], utxoOps[i], inverted[i], ledgers[i], ledgers[i + 1])
      BY DEF Inv, TxnsRight
    <3> HIDE DEF utxoOpsForTxn
    <3>4. raw(i) = getOperationsForTransaction(txns[i], isBalanceModel, spent, utxoOps[i])
      BY <3>2
    <3> HIDE DEF raw
    <3> QED BY <2>1, <3>3, <3>4 DEF Right
  <2>3. Inverted(i) = inverted[i]
    BY <1>1 DEF Inverted
  <2> HIDE DEF raw, n
  <2>4. raw(i) \in Seq(Ops)
    BY <2>2 DEF Converts
  <2>5. /\ squashOperations(raw(i)) \in Seq(Ops)
        /\ \A a : ValueOf(squashOperations(raw(i)), a) = ValueOf(raw(i), a)
    BY <2>4, SquashValue
  <2> QED BY <2>2, <2>3, <2>5 DEF Converts
<1>4. ASSUME Len(utxoOps) = n + 1
      PROVE  /\ squashOperations(block) \in Seq(Ops)
             /\ \A a \in Accounts :
                  ValueOf(squashOperations(block), a)
                    = (ledgers[n + 2][a] - ledgers[n + 1][a])
                      - 2 * ValueOf(Inverted(n + 1), a)
  <2>1. block = BlockLevelOperations(utxoOps[Len(utxoOps)])
    BY DEF Last
  <2>2. Converts(BlockLevelOperations(utxoOps[Len(utxoOps)]), <<>>,
                 ledgers[n + 1], ledgers[n + 2])
    BY <1>4 DEF Inv, BlockRight
  <2>3. Converts(block, <<>>, ledgers[n + 1], ledgers[n + 2])
    <3> HIDE DEF block, n
    <3> QED BY <2>1, <2>2
  <2> HIDE DEF block, n
  <2>4. Inverted(n + 1) = <<>>
    <3>1. n + 1 \notin DOMAIN inverted
      BY <1>1
    <3> QED BY <3>1 DEF Inverted
  <2>5. block \in Seq(Ops)
    BY <2>3 DEF Converts
  <2>6. /\ squashOperations(block) \in Seq(Ops)
        /\ \A a : ValueOf(squashOperations(block), a) = ValueOf(block, a)
    BY <2>5, SquashValue
  <2> QED BY <2>3, <2>4, <2>6 DEF Converts
<1> HIDE DEF raw, block, n, spent, utxoOpsForTxn
<1>5. /\ p \in Seq(Seq(Ops)) /\ Len(p) = n /\ \A i \in 1..n : p[i] = squashOperations(raw(i))
  <2>1. p = [i \in 1..n |-> squashOperations(raw(i))]
    BY <1>1
  <2>2. p \in [1..n -> Seq(Ops)] /\ \A i \in 1..n : p[i] = squashOperations(raw(i))
    BY <1>3, <2>1
  <2> HIDE DEF p
  <2> QED BY <1>1, <2>2
<1> HIDE DEF p
<1>6. CASE Len(utxoOps) = n
  <2>1. rest = <<>>
    BY <1>1, <1>6
  <2>2. Served = p
    <3> HIDE DEF rest
    <3> QED BY <1>2, <1>5, <2>1
  <2>3. Len(ledgers) = n + 1
    BY <1>1, <1>6
  <2> HIDE DEF q, rest
  <2>4. Served \in Seq(Seq(Ops)) /\ Len(Served) = n
    BY <1>5, <2>2
  <2>5. \A i \in 1..n : Served[i] = squashOperations(raw(i))
    BY <1>5, <2>2
  <2>6. \A i \in 1..n : \A a \in Accounts : ValueOf(Served[i], a)
          = (ledgers[i + 1][a] - ledgers[i][a]) - 2 * ValueOf(Inverted(i), a)
    BY <1>3, <2>5
  <2>7. Len(Served) = Len(ledgers) - 1
    BY <1>1, <2>3, <2>4
  <2> QED BY <2>4, <2>6, <2>7
<1>7. CASE Len(utxoOps) = n + 1
  <2> DEFINE x == squashOperations(block)
  <2>1. rest = << x >> /\ x \in Seq(Ops) /\ Len(ledgers) = n + 2
    BY <1>1, <1>4, <1>7
  <2> HIDE DEF rest, x
  <2>2. << x >> \in Seq(Seq(Ops)) /\ Len(<< x >>) = 1 /\ << x >>[1] = x
    BY <2>1
  <2>3. /\ p \o << x >> \in Seq(Seq(Ops)) /\ Len(p \o << x >>) = n + 1
        /\ \A i \in 1..n : (p \o << x >>)[i] = p[i]
        /\ (p \o << x >>)[n + 1] = x
    BY <1>1, <1>5, <2>2
  <2>4. Served = p \o << x >>
    BY <1>2, <2>1
  <2> HIDE DEF q
  <2>5. ASSUME NEW i \in 1..n + 1, NEW a \in Accounts
        PROVE  ValueOf(Served[i], a)
                 = (ledgers[i + 1][a] - ledgers[i][a]) - 2 * ValueOf(Inverted(i), a)
    <3>1. CASE i = n + 1
      <4>1. i + 1 = n + 2
        BY <1>1, <3>1
      <4>2. Served[i] = x
        BY <2>3, <2>4, <3>1
      <4> QED BY <1>4, <1>7, <2>5, <3>1, <4>1, <4>2 DEF x
    <3>2. CASE i # n + 1
      <4>1. i \in 1..n
        BY <1>1, <3>2
      <4>2. Served[i] = squashOperations(raw(i))
        BY <1>5, <2>3, <2>4, <4>1
      <4> QED BY <1>3, <2>5, <4>1, <4>2
    <3> QED BY <3>1, <3>2
  <2>6. Served \in Seq(Seq(Ops)) /\ Len(Served) = n + 1
    BY <2>3, <2>4
  <2>7. Len(Served) = Len(ledgers) - 1
    BY <1>1, <2>1, <2>6
  <2> QED BY <2>5, <2>6, <2>7
<1> QED BY <1>1, <1>6, <1>7

LEMMA InvReconciles ==
  ASSUME Inv
  PROVE  OperationsReconcile
<1>1. /\ Served \in Seq(Seq(Ops)) /\ Len(Served) = Len(ledgers) - 1
      /\ \A i \in 1..Len(Served) : \A a \in Accounts :
           ValueOf(Served[i], a)
             = (ledgers[i + 1][a] - ledgers[i][a]) - 2 * ValueOf(Inverted(i), a)
  BY ServedRight
<1>2. DOMAIN Served = 1..Len(Served)
  BY <1>1
<1> QED BY <1>1, <1>2 DEF OperationsReconcile, Reconciles

\* The served transactions add up: each changes every account as the
\* transaction changed the ledger, for any keys, amounts, royalties, validators,
\* epochs and genesis, and in a block of any length (deso/block.go:140-387).
\* Served with the inverse sign is what an Unstake takes from the validator's
\* entry, what an UnlockStake takes from the locked stakes, and a SwapIdentity
\* that records the amounts after the swap.
THEOREM OperationsReconciled == Spec => []OperationsReconcile
<1>1. Init => Inv
  BY InitInv
<1>2. Inv /\ [Next]_vars => Inv'
  BY NextInv
<1>3. Inv => OperationsReconcile
  BY InvReconciles
<1> QED BY <1>1, <1>2, <1>3, PTL DEF Spec

-----------------------------------------------------------------------------
(* Below the fork a balance is what the unspent outputs of its key hold.    *)

Balanced ==
  isBalanceModel \/ \A k \in Keys : ledger[Main(k)] = AmountOf(OwnedBy(k, unspent))

LEMMA AmountDisjoint ==
  ASSUME NEW A, NEW B, IsFiniteSet(A), IsFiniteSet(B), A \cap B = {},
         \A c \in A \cup B : c.amount \in Int
  PROVE  /\ AmountOf(A) \in Int /\ AmountOf(B) \in Int
         /\ AmountOf(A \cup B) = AmountOf(A) + AmountOf(B)
<1> DEFINE f == [c \in A \cup B |-> c.amount]
           g == [c \in A |-> c.amount]
           h == [c \in B |-> c.amount]
<1>1. /\ AmountOf(A \cup B) = SumFunctionOnSet(f, A \cup B)
      /\ AmountOf(A) = SumFunctionOnSet(g, A)
      /\ AmountOf(B) = SumFunctionOnSet(h, B)
  BY DEF AmountOf, SumFunction
<1>2. /\ \A c \in A : g[c] = f[c] /\ g[c] \in Int
      /\ \A c \in B : h[c] = f[c] /\ h[c] \in Int
      /\ \A c \in A \cup B : f[c] \in Int
  OBVIOUS
<1> HIDE DEF f, g, h
<1>3. SumFunctionOnSet(g, A) = SumFunctionOnSet(f, A)
  BY <1>2, SumSame
<1>4. SumFunctionOnSet(h, B) = SumFunctionOnSet(f, B)
  BY <1>2, SumSame
<1>5. SumFunctionOnSet(g, A) \in Int /\ SumFunctionOnSet(h, B) \in Int
  BY <1>2, SumType
<1>6. SumFunctionOnSet(f, A \cup B) = SumFunctionOnSet(f, A) + SumFunctionOnSet(f, B)
  BY <1>2, SumDisjoint
<1> QED BY <1>1, <1>3, <1>4, <1>5, <1>6

\* The coins a transaction makes for a key are worth its credits to the key.
LEMMA CreditsAmount ==
  ASSUME NEW credits \in Seq(CreditSet), Len(txns) \in Nat, NEW k \in Keys
  PROVE  ValueOf(CreditMoves(credits), Main(k)) = AmountOf(OwnedBy(k, NewCoins(credits)))
<1> DEFINE D == DOMAIN credits
           T == NewCoins(credits)
           O == OwnedBy(k, T)
           moves == CreditMoves(credits)
           e == Entries(moves, Main(k))
           s == [i \in D |-> NewCoin(credits, i)]
           I == {i \in D : credits[i].publicKey = k}
           f == [c \in O |-> c.amount]
<1>1. /\ \A i \in D : s[i].publicKey = credits[i].publicKey /\ s[i].amount = credits[i].amount
      /\ Renames(s, D, T)
  BY NewCoinsFacts
<1>2. /\ DOMAIN e = D
      /\ \A i \in D : e[i] = IF credits[i].publicKey = k THEN credits[i].amount ELSE 0
  <2>1. DOMAIN moves = D /\ \A i \in D : /\ moves[i].account = Main(credits[i].publicKey)
                                         /\ moves[i].value = credits[i].amount
    BY DEF CreditMoves, Move
  <2>2. \A x : Main(x) = Main(k) <=> x = k
    BY DEF Main
  <2> HIDE DEF moves, D
  <2> QED BY <2>1, <2>2 DEF Entries, Entry
<1>3. IsFiniteSet(D) /\ \A i \in D : credits[i].amount \in Int
  <2> DEFINE n == Len(credits)
  <2>1. n \in Nat /\ D = 1..n /\ \A i \in 1..n : credits[i] \in CreditSet
    <3> HIDE DEF CreditSet
    <3> QED OBVIOUS
  <2> HIDE DEF n, D
  <2>2. IsFiniteSet(1..n)
    BY <2>1, FS_Interval
  <2> QED BY <2>1, <2>2 DEF CreditSet
<1>4. ValueOf(moves, Main(k)) = SumFunctionOnSet(e, D)
  BY <1>2, ValueOfEntries DEF SumFunction
<1>5. \A c \in O : f[c] = c.amount
  OBVIOUS
<1>6. O = {c \in T : c.publicKey = k}
  BY DEF OwnedBy
<1> HIDE DEF D, T, O, moves, e, s, f
<1>7. IsFiniteSet(I) /\ IsFiniteSet(D \ I) /\ I \cup (D \ I) = D /\ I \cap (D \ I) = {}
  BY <1>3, FS_Subset
<1>8. \A i \in D : e[i] \in Int
  BY <1>2, <1>3
<1>9. SumFunctionOnSet(e, D) = SumFunctionOnSet(e, I) + SumFunctionOnSet(e, D \ I)
  BY <1>7, <1>8, SumDisjoint
<1>10. SumFunctionOnSet(e, D \ I) = 0
  <2>1. \A i \in D \ I : e[i] = 0
    BY <1>2
  <2> QED BY <1>7, <2>1, SumZero
<1>11. Renames(s, I, O)
  BY <1>1, <1>6 DEF Renames
<1>12. \A i \in I : e[i] = f[s[i]] /\ e[i] \in Int
  <2>1. \A i \in I : s[i] \in O
    BY <1>11 DEF Renames
  <2> QED BY <1>1, <1>2, <1>3, <1>5, <2>1
<1>13. SumFunctionOnSet(e, I) = SumFunctionOnSet(f, O)
  BY <1>7, <1>11, <1>12, SumRenamed
<1>14. AmountOf(O) = SumFunctionOnSet(f, O)
  BY DEF AmountOf, SumFunction, f
<1>15. SumFunctionOnSet(e, I) \in Int
  BY <1>7, <1>12, SumType
<1> QED BY <1>4, <1>9, <1>10, <1>13, <1>14, <1>15 DEF O, T, moves

\* A payment is all its own key's.
LEMMA PaidAmount ==
  ASSUME NEW p, NEW coins, Paid(p, coins), NEW k \in Keys
  PROVE  Entry(Move(Main(p), -AmountOf(coins)), Main(k)) = -AmountOf(OwnedBy(k, coins))
<1>1. \A x : Main(x) = Main(k) <=> x = k
  BY DEF Main
<1>2. /\ Entry(Move(Main(p), -AmountOf(coins)), Main(k))
           = IF p = k THEN -AmountOf(coins) ELSE 0
  BY <1>1 DEF Entry, Move
<1>3. CASE p = k
  <2>1. OwnedBy(k, coins) = coins
    BY <1>3 DEF OwnedBy, Paid
  <2> QED BY <1>2, <1>3, <2>1
<1>4. CASE p # k
  <2>1. OwnedBy(k, coins) = {}
    BY <1>4 DEF OwnedBy, Paid
  <2>2. AmountOf({}) = 0
    BY SumEmpty DEF AmountOf, SumFunction
  <2> QED BY <1>2, <1>4, <2>1, <2>2
<1> QED BY <1>3, <1>4

\* A transaction spends x and y of U and makes z.
Exchange(U, x, y, z, W) ==
  /\ IsFiniteSet(U) /\ IsFiniteSet(z) /\ x \subseteq U /\ y \subseteq U
  /\ x \cap y = {} /\ U \cap z = {} /\ \A c \in U \cup z : c.amount \in Int
  /\ W = (U \ (x \cup y)) \cup z

LEMMA CoinsMoved ==
  ASSUME NEW U, NEW x, NEW y, NEW z, NEW W, Exchange(U, x, y, z, W), NEW k
  PROVE  /\ AmountOf(OwnedBy(k, U)) \in Int /\ AmountOf(OwnedBy(k, x)) \in Int
         /\ AmountOf(OwnedBy(k, y)) \in Int /\ AmountOf(OwnedBy(k, z)) \in Int
         /\ AmountOf(OwnedBy(k, W))
              = ((AmountOf(OwnedBy(k, U)) - AmountOf(OwnedBy(k, x)))
                 - AmountOf(OwnedBy(k, y))) + AmountOf(OwnedBy(k, z))
<1> DEFINE V == U \ (x \cup y)
           oU == OwnedBy(k, U)
           oV == OwnedBy(k, V)
           ox == OwnedBy(k, x)
           oy == OwnedBy(k, y)
           oz == OwnedBy(k, z)
           oxy == ox \cup oy
<1>1. /\ oU = oV \cup oxy /\ oV \cap oxy = {} /\ ox \cap oy = {}
      /\ OwnedBy(k, W) = oV \cup oz /\ oV \cap oz = {}
      /\ oV \subseteq U /\ ox \subseteq U /\ oy \subseteq U /\ oxy \subseteq U
      /\ oz \subseteq z
  BY DEF OwnedBy, Exchange
<1> HIDE DEF V, oU, oV, ox, oy, oz, oxy
<1>2. /\ IsFiniteSet(oV) /\ IsFiniteSet(ox) /\ IsFiniteSet(oy) /\ IsFiniteSet(oxy)
      /\ IsFiniteSet(oz)
  BY <1>1, FS_Subset DEF Exchange
<1>3. /\ AmountOf(ox) \in Int /\ AmountOf(oy) \in Int
      /\ AmountOf(oxy) = AmountOf(ox) + AmountOf(oy)
  <2>1. \A c \in ox \cup oy : c.amount \in Int
    BY <1>1 DEF Exchange
  <2> QED BY <1>1, <1>2, <2>1, AmountDisjoint DEF oxy
<1>4. AmountOf(oV) \in Int /\ AmountOf(oU) = AmountOf(oV) + AmountOf(oxy)
  <2>1. \A c \in oV \cup oxy : c.amount \in Int
    BY <1>1 DEF Exchange
  <2> QED BY <1>1, <1>2, <2>1, AmountDisjoint
<1>5. /\ AmountOf(oz) \in Int
      /\ AmountOf(OwnedBy(k, W)) = AmountOf(oV) + AmountOf(oz)
  <2>1. \A c \in oV \cup oz : c.amount \in Int
    BY <1>1 DEF Exchange
  <2> QED BY <1>1, <1>2, <2>1, AmountDisjoint
<1> QED BY <1>3, <1>4, <1>5 DEF oU, ox, oy, oz

LEMMA ConnectBalanced ==
  ASSUME Inv, Balanced, NEW t, Plan(t), Connect(t)
  PROVE  Balanced'
<1>1. PICK coins \in Payments(t.publicKey, t.price), bids \in Payments(t.bidder, t.bid) :
        /\ isBalanceModel \/ coins \cap bids = {}
        /\ ledgers' = Append(ledgers, After(ledger, Moved(t, coins, bids)))
        /\ unspent' = IF isBalanceModel THEN {}
                      ELSE (unspent \ (coins \cup bids))
                           \cup NewCoins(Credits(t, coins, bids))
  BY DEF Connect, NewCoins
<1>2. isBalanceModel' = isBalanceModel
  BY DEF Connect
<1>3. CASE isBalanceModel
  BY <1>2, <1>3 DEF Balanced
<1>4. CASE ~isBalanceModel
  <2> DEFINE moved == Moved(t, coins, bids)
             credits == Credits(t, coins, bids)
             z == NewCoins(credits)
             n == Len(txns)
  <2>1. IsSeq(ledgers) /\ n \in Nat /\ isBalanceModel \in BOOLEAN
    BY IsSeqFacts DEF Inv, Shape
  <2>2. Paying(t, coins, bids)
    BY <2>1, PlanPays DEF Inv
  <2>3. ledger' = After(ledger, moved)
    <3> DEFINE after == After(ledger, moved)
    <3>1. ledgers' = Append(ledgers, after)
      BY <1>1
    <3> HIDE DEF after
    <3>2. ledgers'[Len(ledgers')] = after
      BY <2>1, <3>1, AppendFacts
    <3>3. ledger' = ledgers'[Len(ledgers')]
      BY DEF ledger, Last
    <3> QED BY <3>2, <3>3 DEF after
  <2>4. DOMAIN ledger = Accounts
    <3>1. /\ \A i \in 1..Len(ledgers) : ledgers[i] \in [Accounts -> 0..MaxBalance]
          /\ Len(ledgers) = n + 1 \/ Len(ledgers) = n + 2
      BY DEF Inv, Shape
    <3>2. Len(ledgers) \in 1..Len(ledgers)
      BY <2>1, <3>1
    <3>3. ledger = ledgers[Len(ledgers)]
      BY DEF ledger, Last
    <3> QED BY <3>1, <3>2, <3>3
  <2>5. /\ Paid(t.publicKey, coins) /\ Paid(t.bidder, bids)
        /\ credits \in Seq(CreditSet)
    BY <2>2, UtxoOpsParts DEF Paying
  <2>6. /\ IsFiniteSet(unspent) /\ coins \subseteq unspent /\ bids \subseteq unspent
        /\ IsFiniteSet(z) /\ unspent \cap z = {}
        /\ \A c \in unspent \cup z : c.amount \in Int
    <3>1. /\ IsFiniteSet(z) /\ \A c \in z : c.key[1] = n + 1 /\ c.amount \in Int
      BY <2>1, <2>5, NewCoinsFacts
    <3>2. /\ IsFiniteSet(unspent)
          /\ \A c \in unspent : c.key[1] \in 0..n /\ c.amount \in Int
      BY <1>4 DEF Inv, CoinsRight
    <3>3. coins \subseteq unspent /\ bids \subseteq unspent
      BY <1>4, <2>5 DEF Paid
    <3> HIDE DEF z, n
    <3>4. n + 1 \notin 0..n
      BY <2>1
    <3> QED BY <3>1, <3>2, <3>3, <3>4
  <2>7. Exchange(unspent, coins, bids, z, unspent')
    BY <1>1, <1>4, <2>6 DEF Exchange
  <2>8. ASSUME NEW k \in Keys
        PROVE  ledger'[Main(k)] = AmountOf(OwnedBy(k, unspent'))
    <3> DEFINE a == Main(k)
               u == AmountOf(OwnedBy(k, unspent))
               x == AmountOf(OwnedBy(k, coins))
               y == AmountOf(OwnedBy(k, bids))
               w == AmountOf(OwnedBy(k, z))
    <3>1. /\ u \in Int /\ x \in Int /\ y \in Int /\ w \in Int
          /\ AmountOf(OwnedBy(k, unspent')) = ((u - x) - y) + w
      BY <2>7, CoinsMoved
    <3>3. CoinEntry(t, coins, a) = -x /\ BidEntry(t, bids, a) = -y
      BY <2>5, PaidAmount DEF CoinEntry, BidEntry
    <3>4. ValueOf(CreditMoves(credits), a) = w
      BY <2>1, <2>5, CreditsAmount
    <3>5. ValueOf(t.moved, a) = 0
      <4>1. t.moved \in Seq(Moves) /\ \A i \in DOMAIN t.moved : t.moved[i].account # a
        BY DEF Plan
      <4>2. IsFiniteSet(DOMAIN t.moved)
        <5> DEFINE m == Len(t.moved)
        <5>1. m \in Nat /\ DOMAIN t.moved = 1..m
          BY <4>1
        <5> HIDE DEF m
        <5>2. IsFiniteSet(1..m)
          BY <5>1, FS_Interval
        <5> QED BY <5>1, <5>2
      <4> HIDE DEF a
      <4> QED BY <4>1, <4>2, ValueOfNone
    <3>6. ValueOf(moved, a)
            = ((CoinEntry(t, coins, a) + BidEntry(t, bids, a))
               + ValueOf(CreditMoves(credits), a)) + ValueOf(t.moved, a)
      <4>1. t.moved \in Seq(Moves)
        BY DEF Plan
      <4> QED BY <2>2, <4>1, MovedValue
    <3>7. ledger[a] = u
      BY <1>4 DEF Balanced
    <3>8. ledger'[a] = ledger[a] + ValueOf(moved, a)
      <4>1. a \in Accounts
        BY MainAccount
      <4> HIDE DEF a, moved
      <4> QED BY <2>3, <2>4, <4>1 DEF After
    <3> HIDE DEF u, x, y, w, a, moved, credits, z
    <3>9. ledger'[a] = ((u - x) - y) + w
      BY <3>1, <3>3, <3>4, <3>5, <3>6, <3>7, <3>8
    <3> QED BY <3>1, <3>9 DEF a
  <2> QED BY <2>8 DEF Balanced
<1> QED BY <1>3, <1>4

LEMMA NextBalanced ==
  ASSUME Inv, Balanced, [Next]_vars
  PROVE  Balanced'
<1>1. CASE Planned
  BY <1>1, ConnectBalanced DEF Planned
<1>2. CASE AtomicTxnsWrapper
  BY <1>2 DEF AtomicTxnsWrapper, Balanced
<1>3. CASE EndBlock
  <2>1. CASE isBalanceModel
    BY <1>3, <2>1 DEF EndBlock, Balanced
  <2>2. CASE ~isBalanceModel
    BY <1>3, <2>2 DEF EndBlock, Balanced, ledger
  <2> QED BY <2>1, <2>2
<1>4. CASE UNCHANGED vars
  BY <1>4 DEF vars, Balanced, ledger
<1>5. Planned \/ AtomicTxnsWrapper \/ EndBlock \/ UNCHANGED vars
  BY NextPlanned
<1> QED BY <1>1, <1>2, <1>3, <1>4, <1>5

-----------------------------------------------------------------------------
(* The bound on the transactions of the block.                              *)

Wrappers == {i \in DOMAIN txns : txns[i].type = "AtomicTxnsWrapper"}

LEMMA ConnectBounded ==
  ASSUME Inv, NEW t, Plan(t), Connect(t)
  PROVE  (Connected =< MaxTxns)'
<1> DEFINE n == Len(txns)
<1>1. IsSeq(txns) /\ n \in Nat /\ DOMAIN txns = 1..n
  BY IsSeqFacts DEF Inv, Shape
<1>2. PICK x : txns' = Append(txns, x) /\ x.type = t.type
  <2>1. PICK coins, bids : txns' = Append(txns, Txn(t, coins, bids))
    BY DEF Connect
  <2>2. Txn(t, coins, bids).type = t.type
    BY DEF Txn
  <2> QED BY <2>1, <2>2
<1> HIDE DEF n
<1>3. /\ IsSeq(txns') /\ Len(txns') = n + 1 /\ txns'[n + 1] = x
      /\ \A i \in 1..n : txns'[i] = txns[i]
  BY <1>1, <1>2, AppendFacts DEF n
<1>4. DOMAIN txns' = 1..n + 1
  BY <1>3, IsSeqFacts
<1>5. Wrappers' = Wrappers
  <2>1. x.type # "AtomicTxnsWrapper"
    BY <1>2 DEF Plan
  <2>2. \A i \in 1..n + 1 : i \in 1..n \/ i = n + 1
    BY <1>1
  <2>3. 1..n \subseteq 1..n + 1
    BY <1>1
  <2> QED BY <1>1, <1>3, <1>4, <2>1, <2>2, <2>3 DEF Wrappers
<1>6. Cardinality(Wrappers) \in Nat
  <2>1. IsFiniteSet(1..n)
    BY <1>1, FS_Interval
  <2>2. IsFiniteSet(Wrappers)
    BY <1>1, <2>1, FS_Subset DEF Wrappers
  <2> QED BY <2>2, FS_CardinalityType
<1>7. Connected = n + Cardinality(Wrappers) /\ Connected' = (n + 1) + Cardinality(Wrappers')
  <2>1. Connected = n + Cardinality(Wrappers)
    BY DEF Connected, Wrappers, n
  <2>2. Connected' = Len(txns') + Cardinality(Wrappers')
    BY DEF Connected, Wrappers
  <2> QED BY <1>3, <2>1, <2>2
<1>8. Connected < MaxTxns
  BY DEF Connect
<1> HIDE DEF Connected
<1> QED BY <1>1, <1>5, <1>6, <1>7, <1>8, BoundsAssumption

LEMMA WrapperBounded ==
  ASSUME Inv, Connected =< MaxTxns, AtomicTxnsWrapper
  PROVE  (Connected =< MaxTxns)'
<1> DEFINE n == Len(txns)
           m == n - 2
<1>1. PICK x : /\ n >= 2 /\ x.type = "AtomicTxnsWrapper"
               /\ txns[n].type # "AtomicTxnsWrapper" /\ txns[n - 1].type # "AtomicTxnsWrapper"
               /\ txns' = Append(SubSeq(txns, 1, m), x)
  BY DEF AtomicTxnsWrapper
<1>2. IsSeq(txns) /\ n \in Nat /\ DOMAIN txns = 1..n
  BY IsSeqFacts DEF Inv, Shape
<1>3. m \in 0..n /\ m + 1 = n - 1
  BY <1>1, <1>2
<1>4. /\ IsSeq(SubSeq(txns, 1, m)) /\ Len(SubSeq(txns, 1, m)) = m
      /\ \A i \in 1..m : SubSeq(txns, 1, m)[i] = txns[i]
  BY <1>2, <1>3, SubSeqFacts
<1>5. /\ IsSeq(txns') /\ Len(txns') = n - 1 /\ txns'[n - 1] = x
      /\ \A i \in 1..m : txns'[i] = txns[i]
  <2> HIDE DEF m, n
  <2> QED BY <1>1, <1>3, <1>4, AppendFacts
<1> HIDE DEF n, m
<1>6. DOMAIN txns' = 1..n - 1
  BY <1>5, IsSeqFacts
<1>7. /\ \A i \in 1..n : i \in 1..m \/ i = n \/ i = n - 1
      /\ \A i \in 1..n - 1 : i \in 1..m \/ i = n - 1
      /\ 1..m \subseteq 1..n /\ 1..m \subseteq 1..n - 1 /\ n - 1 \in 1..n - 1
      /\ n - 1 \in 1..n
  BY <1>1, <1>2 DEF m
<1>8. Wrappers' = Wrappers \cup {n - 1} /\ n - 1 \notin Wrappers
  BY <1>1, <1>2, <1>5, <1>6, <1>7 DEF Wrappers
<1>9. IsFiniteSet(Wrappers) /\ Cardinality(Wrappers) \in Nat
  <2>1. IsFiniteSet(1..n)
    BY <1>2, FS_Interval
  <2>2. IsFiniteSet(Wrappers)
    BY <1>2, <2>1, FS_Subset DEF Wrappers
  <2> QED BY <2>2, FS_CardinalityType
<1>10. Cardinality(Wrappers') = Cardinality(Wrappers) + 1
  BY <1>8, <1>9, FS_AddElement
<1>11. Connected = n + Cardinality(Wrappers) /\ Connected' = (n - 1) + Cardinality(Wrappers')
  <2>1. Connected = n + Cardinality(Wrappers)
    BY DEF Connected, Wrappers, n
  <2>2. Connected' = Len(txns') + Cardinality(Wrappers')
    BY DEF Connected, Wrappers
  <2> QED BY <1>5, <2>1, <2>2
<1> HIDE DEF Connected
<1>12. Connected' = Connected
  BY <1>2, <1>9, <1>10, <1>11
<1> QED BY <1>12, BoundsAssumption

LEMMA NextBounded ==
  ASSUME Inv, Connected =< MaxTxns, [Next]_vars
  PROVE  (Connected =< MaxTxns)'
<1>1. CASE Planned
  BY <1>1, ConnectBounded DEF Planned
<1>2. CASE AtomicTxnsWrapper
  BY <1>2, WrapperBounded
<1>3. CASE EndBlock
  BY <1>3, BoundsAssumption DEF EndBlock, Connected
<1>4. CASE UNCHANGED vars
  BY <1>4, BoundsAssumption DEF vars, Connected
<1>5. Planned \/ AtomicTxnsWrapper \/ EndBlock \/ UNCHANGED vars
  BY NextPlanned
<1> QED BY <1>1, <1>2, <1>3, <1>4, <1>5

LEMMA InitTypes ==
  ASSUME Init
  PROVE  Balanced /\ Connected =< MaxTxns
<1>1. Balanced
  <2> SUFFICES ASSUME ~isBalanceModel, NEW k \in Keys
               PROVE  ledger[Main(k)] = AmountOf(OwnedBy(k, unspent))
    BY Zenon DEF Balanced
  <2> DEFINE a == Main(k)
  <2>1. unspent = GenesisUnspent
    BY DEF Init
  <2>2. PICK s \in Start :
          ledgers = << [b \in Accounts |->
                          IF b \in DOMAIN s THEN s[b]
                          ELSE AmountOf({c \in GenesisUnspent : Main(c.publicKey) = b})] >>
    BY DEF Init
  <2> DEFINE l == [b \in Accounts |->
                     IF b \in DOMAIN s THEN s[b]
                     ELSE AmountOf({c \in GenesisUnspent : Main(c.publicKey) = b})]
  <2>3. a \in Accounts
    BY MainAccount
  <2>4. a \notin DOMAIN s
    BY StartAssumption
  <2>5. l[a] = AmountOf({c \in GenesisUnspent : Main(c.publicKey) = a})
    <3> HIDE DEF a
    <3> QED BY <2>3, <2>4
  <2>6. {c \in GenesisUnspent : Main(c.publicKey) = a} = OwnedBy(k, GenesisUnspent)
    BY <2>3, GenesisAmount
  <2>7. ledger = l
    <3>1. ledgers = << l >>
      BY <2>2
    <3> HIDE DEF l
    <3>2. Len(ledgers) = 1 /\ ledgers[1] = l
      BY <3>1
    <3> QED BY <3>2 DEF ledger, Last
  <2> HIDE DEF l
  <2> QED BY <2>1, <2>5, <2>6, <2>7
<1>2. Connected =< MaxTxns
  <2>1. txns = <<>>
    BY DEF Init
  <2>2. {i \in DOMAIN txns : txns[i].type = "AtomicTxnsWrapper"} = {} /\ Len(txns) = 0
    BY <2>1
  <2>3. Connected = 0
    BY <2>2, FS_EmptySet DEF Connected
  <2> QED BY <2>3, BoundsAssumption
<1> QED BY <1>1, <1>2

\* The model is well typed: what is served is a sequence of operations on
\* accounts that exist, every balance is one the model can hold, and below the
\* fork a balance is what the unspent outputs of its key hold
\* (deso/block.go:140-387, 566-1356).
THEOREM TypeCorrect == Spec => []TypeOK
<1>1. Init => Inv /\ Balanced /\ Connected =< MaxTxns
  BY InitInv, InitTypes
<1>2. /\ Inv /\ Balanced /\ Connected =< MaxTxns /\ [Next]_vars
      => (Inv /\ Balanced /\ Connected =< MaxTxns)'
  BY NextInv, NextBalanced, NextBounded
<1>3. Inv /\ Balanced /\ Connected =< MaxTxns => TypeOK
  <2> SUFFICES ASSUME Inv, Balanced, Connected =< MaxTxns
               PROVE  TypeOK
    OBVIOUS
  <2>1. \A i \in DOMAIN ledgers : ledgers[i] \in [Accounts -> 0..MaxBalance]
    BY IsSeqFacts DEF Inv, Shape
  <2>2. \A i \in DOMAIN Served : Served[i] \in Seq(Ops)
    BY ServedRight
  <2>3. isBalanceModel \in BOOLEAN /\ closed \in BOOLEAN
    BY DEF Inv, Shape
  <2> HIDE DEF Served
  <2> QED BY <2>1, <2>2, <2>3 DEF TypeOK, Balanced, Ops
<1> QED BY <1>1, <1>2, <1>3, PTL DEF Spec

=============================================================================
