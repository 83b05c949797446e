------------------------- MODULE CheckoutBooksProofs -------------------------
(***************************************************************************)
(* The books of the shop, for every value of the constants: what is        *)
(* charged, that stock and credit add up over requests that did not        *)
(* overlap, and what holds when requests are served one after the other.   *)
(* The sums range over finite sets of requests and lines.  Induction over  *)
(* them is replaced by a smallest counterexample (SmallestSet), from which *)
(* the equations of SumFunctionOnSet and what it does when a set grows     *)
(* follow.                                                                 *)
(***************************************************************************)
EXTENDS CheckoutBooks, CheckoutProofs, FiniteSetTheorems, WellFoundedInduction

\* A family of finite sets has a member with no proper subset in it: what
\* replaces induction over finite sets.
LEMMA SmallestSet ==
  ASSUME NEW S, IsFiniteSet(S), NEW F \in SUBSET (SUBSET S), F # {}
  PROVE  \E T \in F : \A U \in F : U \subseteq T => U = T
<1>1. F \subseteq FiniteSubsetsOf(S)
  BY FS_FiniteSubsetsOfFinite
<1>2. \E T \in F : \A U \in F : <<U, T>> \notin StrictSubsetOrdering(S)
  BY <1>1, WFMin, FS_StrictSubsetOrderingWellFounded
<1> QED BY <1>2 DEF StrictSubsetOrdering

\* The element that a fold takes out of a set next.
Taken(s) == CHOOSE x \in s : TRUE

\* g is the table of the sums of f over the subsets of S.
SumsUp(f, S, g) ==
  g = [s \in SUBSET S |-> IF s = {} THEN 0 ELSE f[Taken(s)] + g[s \ {Taken(s)}]]

LEMMA TakenIn == ASSUME NEW s, s # {} PROVE Taken(s) \in s
BY DEF Taken

LEMMA SumIsInTable ==
  ASSUME NEW f, NEW S
  PROVE  SumFunctionOnSet(f, S) = (CHOOSE g : SumsUp(f, S, g))[S]
BY DEF SumFunctionOnSet, FoldFunctionOnSet, MapThenFoldSet, SumsUp, Taken

LEMMA TablesAgree ==
  ASSUME NEW f, NEW S, NEW T, IsFiniteSet(S), NEW g, NEW h,
         SumsUp(f, S, g), SumsUp(f, T, h)
  PROVE  \A u \in SUBSET (S \cap T) : g[u] = h[u]
<1> DEFINE F == {u \in SUBSET (S \cap T) : g[u] # h[u]}
<1> SUFFICES ASSUME F # {}
             PROVE  FALSE
  OBVIOUS
<1>1. F \in SUBSET (SUBSET S)
  OBVIOUS
<1> HIDE DEF F
<1>2. PICK u \in F : \A v \in F : v \subseteq u => v = u
  BY <1>1, SmallestSet
<1>3. u \subseteq S /\ u \subseteq T /\ g[u] # h[u]
  BY DEF F
<1>4. /\ g[u] = IF u = {} THEN 0 ELSE f[Taken(u)] + g[u \ {Taken(u)}]
      /\ h[u] = IF u = {} THEN 0 ELSE f[Taken(u)] + h[u \ {Taken(u)}]
  BY <1>3 DEF SumsUp
<1>5. CASE u = {}
  BY <1>3, <1>4, <1>5
<1>6. CASE u # {}
  <2>1. u \ {Taken(u)} \subseteq u /\ u \ {Taken(u)} # u
    BY <1>6, TakenIn
  <2>2. u \ {Taken(u)} \notin F
    BY <1>2, <2>1
  <2>3. g[u \ {Taken(u)}] = h[u \ {Taken(u)}]
    BY <1>3, <2>2 DEF F
  <2> QED BY <1>3, <1>4, <1>6, <2>3
<1> QED BY <1>5, <1>6

LEMMA TableExists ==
  ASSUME NEW f, NEW S, IsFiniteSet(S)
  PROVE  \E g : SumsUp(f, S, g)
<1> DEFINE F == {u \in SUBSET S : \A g : ~SumsUp(f, u, g)}
<1> SUFFICES ASSUME F # {}
             PROVE  FALSE
  OBVIOUS
<1>1. F \in SUBSET (SUBSET S)
  OBVIOUS
<1> HIDE DEF F
<1>2. PICK u \in F : \A v \in F : v \subseteq u => v = u
  BY <1>1, SmallestSet
<1> DEFINE table(v) == CHOOSE g : SumsUp(f, v, g)
           val(v) == table(v)[v]
<1>3. ASSUME NEW v \in SUBSET u, v # u
      PROVE  SumsUp(f, v, table(v)) /\ IsFiniteSet(v)
  <2>1. v \in SUBSET S /\ IsFiniteSet(v)
    BY <1>1, <1>2, <1>3, FS_Subset
  <2>2. \E g : SumsUp(f, v, g)
    BY <1>2, <1>3, <2>1 DEF F
  <2> QED BY <2>1, <2>2
<1> HIDE DEF table
<1>4. ASSUME NEW v \in SUBSET u, v # u
      PROVE  val(v) = IF v = {} THEN 0 ELSE f[Taken(v)] + val(v \ {Taken(v)})
  <2> DEFINE w == v \ {Taken(v)}
  <2>1. table(v)[v] = IF v = {} THEN 0 ELSE f[Taken(v)] + table(v)[w]
    BY <1>3, <1>4 DEF SumsUp
  <2>2. w \in SUBSET u /\ (v # {} => w # u) /\ w \subseteq v
    BY <1>4, TakenIn
  <2>3. v # {} => table(v)[w] = table(w)[w]
    <3> HIDE DEF w
    <3> SUFFICES ASSUME v # {}
                 PROVE  table(v)[w] = table(w)[w]
      OBVIOUS
    <3>1. SumsUp(f, v, table(v)) /\ SumsUp(f, w, table(w)) /\ IsFiniteSet(v)
      BY <1>3, <1>4, <2>2
    <3>2. w \in SUBSET (v \cap w)
      BY <2>2
    <3> QED BY <3>1, <3>2, TablesAgree
  <2> QED BY <2>1, <2>3
<1> DEFINE whole == IF u = {} THEN 0 ELSE f[Taken(u)] + val(u \ {Taken(u)})
           G == [s \in SUBSET u |-> IF s = u THEN whole ELSE val(s)]
<1>5. \A s \in SUBSET u :
        G[s] = IF s = {} THEN 0 ELSE f[Taken(s)] + G[s \ {Taken(s)}]
  <2> SUFFICES ASSUME NEW s \in SUBSET u
               PROVE  G[s] = IF s = {} THEN 0 ELSE f[Taken(s)] + G[s \ {Taken(s)}]
    OBVIOUS
  <2> HIDE DEF val
  <2>1. s # {} => s \ {Taken(s)} \in SUBSET u /\ s \ {Taken(s)} # u
    BY TakenIn
  <2>2. s # {} => G[s \ {Taken(s)}] = val(s \ {Taken(s)})
    BY <2>1
  <2>3. CASE s = u
    BY <2>2, <2>3
  <2>4. CASE s # u
    BY <1>4, <2>2, <2>4
  <2> QED BY <2>3, <2>4
<1>6. SumsUp(f, u, G)
  <2> HIDE DEF whole, val
  <2>1. G = [s \in SUBSET u |-> G[s]]
    OBVIOUS
  <2> HIDE DEF G
  <2> QED BY <1>5, <2>1 DEF SumsUp
<1> QED BY <1>2, <1>6 DEF F

\* The equations that define a sum.
LEMMA SumUnfolds ==
  ASSUME NEW f, NEW S, IsFiniteSet(S)
  PROVE  SumFunctionOnSet(f, S) =
           IF S = {} THEN 0 ELSE f[Taken(S)] + SumFunctionOnSet(f, S \ {Taken(S)})
<1> DEFINE rest == S \ {Taken(S)}
           g == CHOOSE t : SumsUp(f, S, t)
           h == CHOOSE t : SumsUp(f, rest, t)
<1>1. SumsUp(f, S, g) /\ SumFunctionOnSet(f, S) = g[S]
  BY TableExists, SumIsInTable
<1>2. SumsUp(f, rest, h) /\ SumFunctionOnSet(f, rest) = h[rest]
  <2>1. IsFiniteSet(rest)
    BY FS_Subset
  <2> QED BY <2>1, TableExists, SumIsInTable
<1>3. g[rest] = h[rest]
  <2> HIDE DEF g, h
  <2>1. rest \in SUBSET (S \cap rest)
    OBVIOUS
  <2> QED BY <1>1, <1>2, <2>1, TablesAgree
<1>4. g[S] = IF S = {} THEN 0 ELSE f[Taken(S)] + g[rest]
  <2> HIDE DEF g
  <2> QED BY <1>1 DEF SumsUp
<1> HIDE DEF g, h
<1> QED BY <1>1, <1>2, <1>3, <1>4

\* f has integers on S.
IntOn(f, S) == \A x \in S : f[x] \in Int

LEMMA SumType ==
  ASSUME NEW S, IsFiniteSet(S), NEW f, IntOn(f, S)
  PROVE  SumFunctionOnSet(f, S) \in Int
<1> DEFINE F == {T \in SUBSET S : SumFunctionOnSet(f, T) \notin Int}
<1> SUFFICES ASSUME F # {}
             PROVE  FALSE
  OBVIOUS
<1>1. F \in SUBSET (SUBSET S)
  OBVIOUS
<1> HIDE DEF F
<1>2. PICK T \in F : \A U \in F : U \subseteq T => U = T
  BY <1>1, SmallestSet
<1>3. T \subseteq S /\ SumFunctionOnSet(f, T) \notin Int /\ IsFiniteSet(T)
  BY FS_Subset DEF F
<1>4. SumFunctionOnSet(f, T) =
        IF T = {} THEN 0 ELSE f[Taken(T)] + SumFunctionOnSet(f, T \ {Taken(T)})
  BY <1>3, SumUnfolds
<1>5. T # {}
  BY <1>3, <1>4
<1>6. Taken(T) \in T /\ f[Taken(T)] \in Int
  BY <1>3, <1>5, TakenIn DEF IntOn
<1>7. T \ {Taken(T)} \notin F
  BY <1>2, <1>6
<1>8. SumFunctionOnSet(f, T \ {Taken(T)}) \in Int
  BY <1>3, <1>7 DEF F
<1> QED BY <1>3, <1>4, <1>5, <1>6, <1>8

\* Any element can be taken out first.
LEMMA SumTakes ==
  ASSUME NEW S, IsFiniteSet(S), NEW f, IntOn(f, S), NEW x \in S
  PROVE  SumFunctionOnSet(f, S) = f[x] + SumFunctionOnSet(f, S \ {x})
<1> DEFINE Sum(T) == SumFunctionOnSet(f, T)
           Bad(T) == \E y \in T : Sum(T) # f[y] + Sum(T \ {y})
           F == {T \in SUBSET S : Bad(T)}
<1> SUFFICES ASSUME F # {}
             PROVE  FALSE
  OBVIOUS
<1>1. F \in SUBSET (SUBSET S)
  OBVIOUS
<1> HIDE DEF F
<1>2. PICK T \in F : \A U \in F : U \subseteq T => U = T
  BY <1>1, SmallestSet
<1>3. PICK y \in T : Sum(T) # f[y] + Sum(T \ {y})
  BY DEF F
<1> DEFINE c == Taken(T)
<1>4. T \subseteq S /\ IsFiniteSet(T) /\ c \in T
  BY <1>3, FS_Subset, TakenIn DEF F
<1> HIDE DEF c
<1>5. Sum(T) = f[c] + Sum(T \ {c})
  BY <1>3, <1>4, SumUnfolds DEF c
<1>6. ASSUME NEW U \in SUBSET T, U # T, NEW z \in U
      PROVE  Sum(U) = f[z] + Sum(U \ {z})
  BY <1>2, <1>4, <1>6 DEF F
<1>7. c # y
  BY <1>3, <1>5
<1>8. Sum(T \ {c}) = f[y] + Sum((T \ {c}) \ {y})
  BY <1>4, <1>6, <1>7
<1>9. Sum(T \ {y}) = f[c] + Sum((T \ {y}) \ {c})
  BY <1>4, <1>6, <1>7
<1>10. (T \ {c}) \ {y} = (T \ {y}) \ {c}
  OBVIOUS
<1>11. f[c] \in Int /\ f[y] \in Int /\ Sum((T \ {c}) \ {y}) \in Int
  <2>1. IntOn(f, (T \ {c}) \ {y}) /\ IsFiniteSet((T \ {c}) \ {y})
    BY <1>4, FS_Subset DEF IntOn
  <2> QED BY <1>4, <2>1, SumType DEF IntOn
<1>12. /\ Sum(T) = f[c] + (f[y] + Sum((T \ {c}) \ {y}))
       /\ f[y] + Sum(T \ {y}) = f[y] + (f[c] + Sum((T \ {c}) \ {y}))
  BY <1>5, <1>8, <1>9, <1>10
<1> HIDE DEF Sum
<1>13. f[c] + (f[y] + Sum((T \ {c}) \ {y})) = f[y] + (f[c] + Sum((T \ {c}) \ {y}))
  BY <1>11
<1> QED BY <1>3, <1>12, <1>13

\* A sum depends on the values on its set.
LEMMA SumSame ==
  ASSUME NEW S, IsFiniteSet(S), NEW f, NEW g, \A x \in S : f[x] = g[x]
  PROVE  SumFunctionOnSet(f, S) = SumFunctionOnSet(g, S)
<1> DEFINE F == {T \in SUBSET S : SumFunctionOnSet(f, T) # SumFunctionOnSet(g, T)}
<1> SUFFICES ASSUME F # {}
             PROVE  FALSE
  OBVIOUS
<1>1. F \in SUBSET (SUBSET S)
  OBVIOUS
<1> HIDE DEF F
<1>2. PICK T \in F : \A U \in F : U \subseteq T => U = T
  BY <1>1, SmallestSet
<1>3. T \subseteq S /\ IsFiniteSet(T) /\ SumFunctionOnSet(f, T) # SumFunctionOnSet(g, T)
  BY FS_Subset DEF F
<1> DEFINE rest == T \ {Taken(T)}
<1>4. /\ SumFunctionOnSet(f, T) = IF T = {} THEN 0 ELSE f[Taken(T)] + SumFunctionOnSet(f, rest)
      /\ SumFunctionOnSet(g, T) = IF T = {} THEN 0 ELSE g[Taken(T)] + SumFunctionOnSet(g, rest)
  BY <1>3, SumUnfolds
<1>5. T # {}
  BY <1>3, <1>4
<1>6. Taken(T) \in T /\ f[Taken(T)] = g[Taken(T)]
  BY <1>3, <1>5, TakenIn
<1>7. rest \notin F
  BY <1>2, <1>6
<1>8. SumFunctionOnSet(f, rest) = SumFunctionOnSet(g, rest)
  BY <1>3, <1>7 DEF F
<1> HIDE DEF rest
<1> QED BY <1>3, <1>4, <1>5, <1>6, <1>8

LEMMA SumEmpty == ASSUME NEW f PROVE SumFunctionOnSet(f, {}) = 0
BY SumUnfolds, FS_EmptySet

\* One more element.
LEMMA SumGrows ==
  ASSUME NEW S, IsFiniteSet(S), NEW f, NEW g, NEW x, x \notin S,
         IntOn(f, S \cup {x}), \A y \in S : f[y] = g[y]
  PROVE  SumFunctionOnSet(f, S \cup {x}) = SumFunctionOnSet(g, S) + f[x]
<1>1. IsFiniteSet(S \cup {x}) /\ (S \cup {x}) \ {x} = S
  BY FS_AddElement
<1>2. SumFunctionOnSet(f, S \cup {x}) = f[x] + SumFunctionOnSet(f, S)
  BY <1>1, SumTakes
<1>3. SumFunctionOnSet(f, S) = SumFunctionOnSet(g, S)
  BY SumSame
<1>4. f[x] \in Int /\ SumFunctionOnSet(f, S) \in Int
  BY SumType DEF IntOn
<1> QED BY <1>2, <1>3, <1>4

\* What a function with one more argument adds up to.
LEMMA SumExtends ==
  ASSUME NEW f, NEW g, IsFiniteSet(DOMAIN f), NEW x, x \notin DOMAIN f,
         DOMAIN g = DOMAIN f \cup {x}, IntOn(g, DOMAIN g),
         \A y \in DOMAIN f : g[y] = f[y]
  PROVE  SumFunction(g) = SumFunction(f) + g[x]
BY SumGrows DEF SumFunction

LEMMA SumsEqual ==
  ASSUME NEW f, NEW g, IsFiniteSet(DOMAIN f), DOMAIN g = DOMAIN f,
         \A y \in DOMAIN f : g[y] = f[y]
  PROVE  SumFunction(g) = SumFunction(f)
BY SumSame DEF SumFunction

LEMMA SumOfNone ==
  ASSUME NEW f, DOMAIN f = {}
  PROVE  SumFunction(f) = 0
BY SumEmpty DEF SumFunction

LEMMA SumIsInt ==
  ASSUME NEW f, IsFiniteSet(DOMAIN f), IntOn(f, DOMAIN f)
  PROVE  SumFunction(f) \in Int
BY SumType DEF SumFunction

LEMMA SumOfOne ==
  ASSUME NEW f, NEW x, DOMAIN f = {x}, f[x] \in Int
  PROVE  SumFunction(f) = f[x]
<1>1. IsFiniteSet({}) /\ {} \cup {x} = {x} /\ x \notin {}
  BY FS_EmptySet
<1>2. SumFunctionOnSet(f, {} \cup {x}) = SumFunctionOnSet(f, {}) + f[x]
  BY <1>1, SumGrows DEF IntOn
<1> QED BY <1>1, <1>2, SumEmpty DEF SumFunction

-----------------------------------------------------------------------------
(***************************************************************************)
(* With one connection to the database, requests are served one after the  *)
(* other: no request ever meets another.                                   *)
(***************************************************************************)
Alone == IsFiniteSet(InFlight) /\ \A r \in Request : met[r] = {}

LEMMA AloneStep ==
  ASSUME MaxInFlight = 1, IInv, Alone, [Next]_vars
  PROVE  Alone'
<1>1. ASSUME NEW r \in Request, Begin(r)
      PROVE  Alone'
  <2>1. InFlight = {}
    <3>1. Cardinality(InFlight) \in Nat /\ Cardinality(InFlight) < 1
      BY <1>1, FS_CardinalityType DEF Begin, Alone
    <3>2. Cardinality(InFlight) = 0
      BY <3>1
    <3> QED BY <3>2, FS_EmptySet DEF Alone
  <2>2. \A q \in Request : met'[q] = {}
    BY <1>1, <2>1 DEF Begin, Meet, Alone
  <2>3. InFlight' \subseteq {r}
    BY <1>1, <2>1 DEF Begin, Goto, InFlight, IInv, TypeOK
  <2>4. IsFiniteSet({r})
    BY FS_Singleton
  <2> QED BY <2>2, <2>3, <2>4, FS_Subset DEF Alone
<1>2. ASSUME NEW r \in InFlight,
             \/ PrivateStep(r) \/ UpdateStock(r) \/ SaveCredit(r) \/ InsertCoupon(r)
      PROVE  Alone'
  BY <1>2, StaysInFlight DEF Alone
<1>3. ASSUME NEW r \in InFlight, Commit(r) \/ Rollback(r)
      PROVE  Alone'
  <2>1. InFlight' \subseteq InFlight /\ met' = met
    BY <1>3 DEF Commit, Rollback, Goto, InFlight, Final, IInv, TypeOK
  <2> QED BY <2>1, FS_Subset DEF Alone
<1>4. CASE UNCHANGED vars
  BY <1>4 DEF vars, Alone, InFlight
<1> QED BY <1>1, <1>2, <1>3, <1>4, StepCases

LEMMA AloneInit == Init => Alone
<1> SUFFICES ASSUME Init PROVE Alone
  OBVIOUS
<1>1. InFlight = {}
  BY DEF Init, InFlight
<1> QED BY <1>1, FS_EmptySet DEF Init, Alone

\* With one connection a coupon is redeemed once: the ledger check and the
\* ledger entry of checkout.py are then one step for everybody else.
THEOREM CouponsSingleUseInTurn ==
  ASSUME MaxInFlight = 1
  PROVE  Spec => []CouponsSingleUse
<1>1. Init => IInv /\ MetInv /\ LedgerInv /\ Alone
  BY InitInv, AloneInit
     DEF Init, MetInv, LedgerInv, Checked, Redeemed, Committed, InFlight, Final
<1>2. IInv /\ MetInv /\ LedgerInv /\ Alone /\ [Next]_vars
        => IInv' /\ MetInv' /\ LedgerInv' /\ Alone'
  BY NextInv, MetStep, LedgerStep, AloneStep
<1>3. LedgerInv /\ Alone => CouponsSingleUse
  BY DEF LedgerInv, Alone, Checked, Redeemed, CouponsSingleUse
<1> QED BY <1>1, <1>2, <1>3, PTL DEF Spec

-----------------------------------------------------------------------------
(***************************************************************************)
(* What the statements of a request leave alone, and where they lead.      *)
(***************************************************************************)
LEMMA KeptMemory ==
  ASSUME IInv, NEW r \in InFlight,
         PrivateStep(r) \/ UpdateStock(r) \/ SaveCredit(r) \/ InsertCoupon(r)
  PROVE  /\ ~(ReadLine(r) \/ ReadForPatch(r)) => mem'[r].copies = mem[r].copies
         /\ ~ReadLine(r) => mem'[r].subtotal = mem[r].subtotal
         /\ ~ReadCoupon(r) => mem'[r].percent = mem[r].percent
         /\ ~(ReadCredit(r) \/ ReadForGrant(r)) => mem'[r].balance = mem[r].balance
         /\ ~(ReadLine(r) \/ SelectForStock(r) \/ UpdateStock(r)) =>
              mem'[r].line = mem[r].line /\ mem'[r].dirty = mem[r].dirty
         /\ ~(SelectForCredit(r) \/ LookUpCode(r)) =>
              mem'[r].inserting = mem[r].inserting
<1>1. mem[r] \in Memory /\ r \in Request
  BY InFlightFacts
<1>2. CASE ReadLine(r)
  <2>1. \E a, b, c : mem'[r] = [mem[r] EXCEPT !.copies = a, !.subtotal = b, !.line = c]
    BY <1>1, <1>2 DEF ReadLine, IInv, TypeOK
  <2> QED BY <1>1, <1>2, <2>1 DEF Memory
<1>3. CASE ReadCoupon(r)
  <2>1. \E a : mem'[r] = [mem[r] EXCEPT !.percent = a]
    BY <1>1, <1>3 DEF ReadCoupon, IInv, TypeOK
  <2> QED BY <1>1, <1>3, <2>1 DEF Memory
<1>4. CASE ReadCredit(r) \/ ReadForGrant(r)
  <2>1. \E a : mem'[r] = [mem[r] EXCEPT !.balance = a]
    BY <1>1, <1>4 DEF ReadCredit, ReadForGrant, IInv, TypeOK
  <2> QED BY <1>1, <1>4, <2>1 DEF Memory
<1>5. CASE SelectForStock(r)
  <2>1. \/ \E a : mem'[r] = [mem[r] EXCEPT !.line = a]
        \/ \E a : mem'[r] = [mem[r] EXCEPT !.dirty = a]
    BY <1>1, <1>5 DEF SelectForStock, IInv, TypeOK
  <2> QED BY <1>1, <1>5, <2>1 DEF Memory
<1>6. CASE UpdateStock(r)
  <2>1. \E a : mem'[r] = [mem[r] EXCEPT !.dirty = {}, !.line = a]
    BY <1>1, <1>6 DEF UpdateStock, IInv, TypeOK
  <2> QED BY <1>1, <1>6, <2>1 DEF Memory
<1>7. CASE SelectForCredit(r) \/ LookUpCode(r)
  <2>1. \E a : mem'[r] = [mem[r] EXCEPT !.inserting = a]
    BY <1>1, <1>7 DEF SelectForCredit, LookUpCode, IInv, TypeOK
  <2> QED BY <1>1, <1>7, <2>1 DEF Memory
<1>8. CASE ReadForPatch(r)
  <2>1. \E a : mem'[r] = [mem[r] EXCEPT !.copies = a]
    BY <1>1, <1>8 DEF ReadForPatch, IInv, TypeOK
  <2> QED BY <1>1, <1>8, <2>1 DEF Memory
<1>9. CASE \/ CheckRedeemed(r) \/ InsertOrder(r) \/ RecordRedemption(r)
           \/ ReadForApply(r) \/ SaveCredit(r) \/ InsertCoupon(r)
  BY <1>9 DEF CheckRedeemed, InsertOrder, RecordRedemption, ReadForApply, SaveCredit,
              InsertCoupon
<1> QED BY <1>2, <1>3, <1>4, <1>5, <1>6, <1>7, <1>8, <1>9 DEF PrivateStep

\* The labels before and after each statement, and who executes it.
LEMMA Moves ==
  ASSUME IInv, NEW r \in InFlight
  PROVE  /\ ReadLine(r) =>
              /\ job[r].op = "place" /\ pc[r] = "lines"
              /\ pc'[r] \in {"lines", "coupon", "credit"}
              /\ pc'[r] = "credit" => job[r].coupon = NoRow
         /\ ReadCoupon(r) =>
              /\ job[r].op \in {"place", "apply"}
              /\ pc[r] = "coupon" /\ pc'[r] = "redeemed"
         /\ CheckRedeemed(r) =>
              /\ job[r].op \in {"place", "apply"} /\ pc[r] = "redeemed"
              /\ pc'[r] = IF job[r].op = "place" THEN "credit" ELSE "redeem"
         /\ ReadCredit(r) =>
              job[r].op = "place" /\ pc[r] = "credit" /\ pc'[r] = "stock"
         /\ SelectForStock(r) =>
              /\ job[r].op \in {"place", "patch"}
              /\ pc[r] = "stock" /\ pc'[r] \in {"update", AfterStock(r)}
         /\ UpdateStock(r) =>
              /\ job[r].op \in {"place", "patch"}
              /\ pc[r] = "update" /\ pc'[r] = AfterStock(r)
         /\ InsertOrder(r) =>
              job[r].op = "place" /\ pc[r] = "order" /\ pc'[r] = "fresh"
         /\ SelectForCredit(r) =>
              /\ job[r].op \in {"place", "grant"}
              /\ pc[r] = "fresh" /\ pc'[r] \in {"save", AfterCredit(r)}
         /\ SaveCredit(r) =>
              /\ job[r].op \in {"place", "grant"}
              /\ pc[r] = "save" /\ pc'[r] = AfterCredit(r)
         /\ RecordRedemption(r) =>
              /\ job[r].op \in {"place", "apply"}
              /\ pc[r] = "redeem" /\ pc'[r] = "commit"
         /\ ReadForGrant(r) =>
              job[r].op = "grant" /\ pc[r] = "grant" /\ pc'[r] = "fresh"
         /\ ReadForPatch(r) =>
              job[r].op = "patch" /\ pc[r] = "patch" /\ pc'[r] = "stock"
         /\ ReadForApply(r) =>
              job[r].op = "apply" /\ pc[r] = "apply" /\ pc'[r] = "coupon"
         /\ LookUpCode(r) =>
              job[r].op = "create" /\ pc[r] = "lookup" /\ pc'[r] = "insert"
         /\ InsertCoupon(r) =>
              job[r].op = "create" /\ pc[r] = "insert" /\ pc'[r] = "commit"
<1>1. /\ r \in Request /\ pc \in [Request -> Phase] /\ pc[r] \in Reaches(job[r].op)
      /\ job[r].op \in {"place", "grant", "patch", "apply", "create"}
  BY InFlightFacts DEF IInv, TypeOK
<1>2. ASSUME ReadLine(r) \/ ReadCoupon(r) \/ CheckRedeemed(r) \/ ReadCredit(r)
      PROVE  /\ ReadLine(r) =>
                  /\ job[r].op = "place" /\ pc[r] = "lines"
                  /\ pc'[r] \in {"lines", "coupon", "credit"}
                  /\ pc'[r] = "credit" => job[r].coupon = NoRow
             /\ ReadCoupon(r) =>
                  /\ job[r].op \in {"place", "apply"}
                  /\ pc[r] = "coupon" /\ pc'[r] = "redeemed"
             /\ CheckRedeemed(r) =>
                  /\ job[r].op \in {"place", "apply"} /\ pc[r] = "redeemed"
                  /\ pc'[r] = IF job[r].op = "place" THEN "credit" ELSE "redeem"
             /\ ReadCredit(r) =>
                  job[r].op = "place" /\ pc[r] = "credit" /\ pc'[r] = "stock"
  BY <1>1, <1>2 DEF ReadLine, ReadCoupon, CheckRedeemed, ReadCredit, Goto, Reaches
<1>3. /\ SelectForStock(r) =>
           /\ job[r].op \in {"place", "patch"}
           /\ pc[r] = "stock" /\ pc'[r] \in {"update", AfterStock(r)}
      /\ UpdateStock(r) =>
           /\ job[r].op \in {"place", "patch"}
           /\ pc[r] = "update" /\ pc'[r] = AfterStock(r)
  BY <1>1 DEF SelectForStock, UpdateStock, Goto, Reaches
<1>4. /\ InsertOrder(r) =>
           job[r].op = "place" /\ pc[r] = "order" /\ pc'[r] = "fresh"
      /\ SelectForCredit(r) =>
           /\ job[r].op \in {"place", "grant"}
           /\ pc[r] = "fresh" /\ pc'[r] \in {"save", AfterCredit(r)}
      /\ SaveCredit(r) =>
           /\ job[r].op \in {"place", "grant"}
           /\ pc[r] = "save" /\ pc'[r] = AfterCredit(r)
      /\ RecordRedemption(r) =>
           /\ job[r].op \in {"place", "apply"}
           /\ pc[r] = "redeem" /\ pc'[r] = "commit"
  BY <1>1 DEF InsertOrder, SelectForCredit, SaveCredit, RecordRedemption, Goto, Reaches
<1>5. /\ ReadForGrant(r) =>
           job[r].op = "grant" /\ pc[r] = "grant" /\ pc'[r] = "fresh"
      /\ ReadForPatch(r) =>
           job[r].op = "patch" /\ pc[r] = "patch" /\ pc'[r] = "stock"
      /\ ReadForApply(r) =>
           job[r].op = "apply" /\ pc[r] = "apply" /\ pc'[r] = "coupon"
      /\ LookUpCode(r) =>
           job[r].op = "create" /\ pc[r] = "lookup" /\ pc'[r] = "insert"
      /\ InsertCoupon(r) =>
           job[r].op = "create" /\ pc[r] = "insert" /\ pc'[r] = "commit"
  BY <1>1 DEF ReadForGrant, ReadForPatch, ReadForApply, LookUpCode, InsertCoupon, Goto,
              Reaches
<1> QED BY <1>2, <1>3, <1>4, <1>5

-----------------------------------------------------------------------------
(***************************************************************************)
(* Orders: what a request inserted is what it read and charged, and only   *)
(* finitely many requests have been begun.                                 *)
(***************************************************************************)
Begun == {r \in Request : pc[r] # "idle"}

SameCart(r) ==
  /\ DOMAIN order[r].lines = DOMAIN job[r].lines
  /\ \A i \in DOMAIN job[r].lines :
       /\ order[r].lines[i].product = job[r].lines[i].product
       /\ order[r].lines[i].quantity = job[r].lines[i].quantity

OrderedFrom(r) ==
  /\ pc[r] \in {"fresh", "save", "redeem", "commit", "committed"}
  /\ job[r].op = "place"
  /\ order[r].customer = job[r].actor
  /\ SameCart(r)
  /\ r \in InFlight =>
       /\ order[r] = NewOrder(r)
       /\ Len(mem[r].copies) = Len(job[r].lines)

OrdersInv ==
  /\ IsFiniteSet(Begun)
  /\ \A r \in Request : order[r] # NoRow => OrderedFrom(r)

LEMMA OrdersOthers ==
  ASSUME IInv, OrdersInv, NEW r \in Request, NEW q \in Request \ {r},
         pc'[q] = pc[q], job'[q] = job[q], mem'[q] = mem[q], order'[q] = order[q],
         order'[q] # NoRow
  PROVE  OrderedFrom(q)'
<1>1. OrderedFrom(q)
  BY DEF OrdersInv
<1>2. q \in InFlight' <=> q \in InFlight
  BY DEF InFlight
<1>3. NewOrder(q)' = NewOrder(q)
  BY DEF NewOrder, Total
<1> QED BY <1>1, <1>2, <1>3 DEF OrderedFrom, SameCart

LEMMA OrdersLocal ==
  ASSUME IInv, OrdersInv, NEW r \in InFlight,
         PrivateStep(r) \/ UpdateStock(r) \/ SaveCredit(r) \/ InsertCoupon(r),
         order'[r] # NoRow
  PROVE  OrderedFrom(r)'
<1>1. job' = job /\ r \in Request /\ r \in InFlight'
  BY StaysInFlight, InFlightFacts
<1>2. CASE InsertOrder(r)
  <2>1. /\ job[r].op = "place" /\ pc[r] = "order" /\ pc'[r] = "fresh"
        /\ mem' = mem /\ order'[r] = NewOrder(r)
    BY <1>1, <1>2, Moves DEF InsertOrder, IInv, TypeOK
  <2>2. /\ job[r].lines \in Seq(Line) /\ mem[r].copies \in Seq(ProductRow)
        /\ Len(mem[r].copies) = Len(job[r].lines)
    BY <2>1, InFlightFacts DEF PlaceControl, PlaceJob, Memory
  <2>3. NewOrder(r)' = NewOrder(r)
    BY <1>1, <2>1 DEF NewOrder, Total
  <2>4. SameCart(r)' /\ order'[r].customer = job'[r].actor
    BY <1>1, <2>1, <2>2 DEF SameCart, NewOrder
  <2> QED BY <1>1, <2>1, <2>2, <2>3, <2>4 DEF OrderedFrom
<1>3. CASE ~InsertOrder(r)
  <2>1. order' = order
    BY <1>3
       DEF PrivateStep, ReadLine, ReadCoupon, CheckRedeemed, ReadCredit,
           SelectForStock, SelectForCredit, RecordRedemption, ReadForGrant,
           ReadForPatch, ReadForApply, LookUpCode, UpdateStock, SaveCredit,
           InsertCoupon
  <2>2. OrderedFrom(r)
    BY <1>1, <2>1 DEF OrdersInv
  <2>3. SelectForCredit(r) \/ SaveCredit(r) \/ RecordRedemption(r)
    BY <1>3, <2>2, Moves DEF OrderedFrom, PrivateStep
  <2>4. pc'[r] \in {"save", "redeem", "commit"}
    BY <2>3, Moves DEF AfterCredit
  <2>5. /\ mem'[r].copies = mem[r].copies /\ mem'[r].subtotal = mem[r].subtotal
        /\ mem'[r].percent = mem[r].percent
    BY <2>2, <2>3, KeptMemory, Moves DEF OrderedFrom
  <2>6. NewOrder(r)' = NewOrder(r)
    BY <1>1, <2>5 DEF NewOrder, Total
  <2> QED BY <1>1, <2>1, <2>2, <2>4, <2>5, <2>6 DEF OrderedFrom, SameCart
<1> QED BY <1>2, <1>3

LEMMA OrdersStep ==
  ASSUME IInv, OrdersInv, [Next]_vars
  PROVE  OrdersInv'
<1>1. ASSUME NEW r \in Request, Begin(r)
      PROVE  OrdersInv'
  <2>1. /\ pc[r] = "idle" /\ order' = order /\ mem' = mem
        /\ \A q \in Request \ {r} : pc'[q] = pc[q] /\ job'[q] = job[q]
    BY <1>1 DEF Begin, Goto, IInv, TypeOK
  <2>2. order'[r] = NoRow
    BY <2>1 DEF OrdersInv, OrderedFrom
  <2>3. Begun' \subseteq Begun \cup {r}
    BY <2>1 DEF Begun
  <2>4. IsFiniteSet(Begun')
    BY <2>3, FS_AddElement, FS_Subset DEF OrdersInv
  <2> QED BY <2>1, <2>2, <2>4, OrdersOthers DEF OrdersInv
<1>2. ASSUME NEW r \in InFlight,
             \/ PrivateStep(r) \/ UpdateStock(r) \/ SaveCredit(r) \/ InsertCoupon(r)
             \/ Commit(r) \/ Rollback(r)
      PROVE  OrdersInv'
  <2>1. r \in Request /\ pc[r] # "idle"
    BY DEF InFlight
  <2>2. \A q \in Request \ {r} :
          /\ pc'[q] = pc[q] /\ job'[q] = job[q] /\ mem'[q] = mem[q]
          /\ order'[q] = order[q]
    BY <1>2, OthersKeepMemory
  <2>3. Begun' \subseteq Begun
    BY <2>1, <2>2 DEF Begun
  <2>4. IsFiniteSet(Begun')
    BY <2>3, FS_Subset DEF OrdersInv
  <2>5. ASSUME order'[r] # NoRow
        PROVE  OrderedFrom(r)'
    <3>1. CASE Commit(r)
      <4>1. /\ order' = order /\ job' = job /\ pc'[r] = "committed"
            /\ r \notin InFlight'
        BY <2>1, <3>1 DEF Commit, Goto, IInv, TypeOK, InFlight, Final
      <4> QED BY <2>1, <2>5, <4>1 DEF OrdersInv, OrderedFrom, SameCart
    <3>2. ~Rollback(r)
      BY <2>1, <2>5 DEF Rollback, IInv, TypeOK
    <3> QED BY <1>2, <2>5, <3>1, <3>2, OrdersLocal
  <2>6. \A q \in Request \ {r} : order'[q] # NoRow => OrderedFrom(q)'
    BY <2>1, <2>2, OrdersOthers
  <2> QED BY <2>4, <2>5, <2>6 DEF OrdersInv
<1>3. CASE UNCHANGED vars
  <2>1. Begun' = Begun /\ InFlight' = InFlight
    BY <1>3 DEF vars, Begun, InFlight
  <2>2. \A r \in Request : OrderedFrom(r)' <=> OrderedFrom(r)
    BY <1>3, <2>1 DEF vars, OrderedFrom, SameCart, NewOrder, Total
  <2> QED BY <1>3, <2>1, <2>2 DEF vars, OrdersInv
<1> QED BY <1>1, <1>2, <1>3, StepCases

LEMMA OrdersInit == Init => OrdersInv
<1> SUFFICES ASSUME Init PROVE OrdersInv
  OBVIOUS
<1>1. Begun = {}
  BY DEF Init, Begun
<1> QED BY <1>1, FS_EmptySet DEF Init, OrdersInv

\* Only a commit adds to what is committed.
LEMMA CommittedStay ==
  ASSUME IInv, NEW r \in Request,
         \/ Begin(r)
         \/ /\ r \in InFlight
            /\ \/ PrivateStep(r) \/ UpdateStock(r) \/ SaveCredit(r) \/ InsertCoupon(r)
               \/ Rollback(r)
  PROVE  /\ row' = row
         /\ \A q \in Request :
              /\ Committed(q)' <=> Committed(q)
              /\ Committed(q) => job'[q] = job[q] /\ order'[q] = order[q] /\ met'[q] = met[q]
<1>1. CASE Begin(r)
  <2>1. /\ pc[r] = "idle" /\ row' = row /\ order' = order
        /\ pc'[r] \in {"lines", "grant", "patch", "apply", "lookup", "commit", "rolledback"}
        /\ \A q \in Request \ {r} : pc'[q] = pc[q] /\ job'[q] = job[q]
    BY <1>1, JobTypes DEF Begin, Goto, Entry, IInv, TypeOK
  <2>2. \A q \in Request : Committed(q) => met'[q] = met[q]
    BY <1>1, <2>1 DEF Begin, Meet, Committed, InFlight, Final
  <2> QED BY <2>1, <2>2 DEF Committed
<1>2. CASE ~Begin(r)
  <2>1. ~Committed(r) /\ ~Committed(r)'
    <3>1. ~Committed(r)
      BY <1>2 DEF Committed, InFlight, Final
    <3>2. CASE Rollback(r)
      BY <3>1, <3>2 DEF Committed, Rollback, Goto, IInv, TypeOK
    <3>3. CASE ~Rollback(r)
      BY <1>2, <3>1, <3>3, StaysInFlight DEF Committed, Final
    <3> QED BY <3>2, <3>3
  <2>2. row' = row /\ met' = met
    BY <1>2, PrivateRows, StaysInFlight
       DEF UpdateStock, SaveCredit, InsertCoupon, Rollback, Put, Discard
  <2> QED BY <1>2, <2>1, <2>2, OthersKeepMemory DEF Committed
<1> QED BY <1>1, <1>2

-----------------------------------------------------------------------------
\* A coupon gets its discount once: an uncommitted one does not exist yet.
CouponsFixed ==
  /\ \A c \in Coupon : writer[c] \in Request => row[c] = NoRow
  /\ \A r \in InFlight : pc[r] = "insert" => mem[r].inserting

CartSum(r) ==
  SumFunction([i \in DOMAIN mem[r].copies |->
                mem[r].copies[i].price * job[r].lines[i].quantity])

BillInv ==
  /\ \A r \in InFlight :
       job[r].op = "place" =>
         /\ mem[r].subtotal = CartSum(r)
         /\ ~Found(r) => mem[r].percent = 0
         /\ Found(r) => mem[r].percent = row[job[r].coupon]
  /\ \A r \in Request :
       order[r] # NoRow /\ pc[r] \in {"commit", "committed"} =>
         (redemption[r] # NoRow <=> job[r].coupon # NoRow)
  /\ ChargeMatchesLines

LEMMA CouponsFixedStep ==
  ASSUME IInv, CouponsFixed, [Next]_vars
  PROVE  /\ CouponsFixed'
         /\ \A c \in Coupon : row[c] # NoRow => row'[c] = row[c]
<1>1. ASSUME NEW r \in Request, Begin(r)
      PROVE  CouponsFixed' /\ row' = row
  <2>1. pc'[r] # "insert" /\ mem' = mem /\ UNCHANGED <<row, latest, writer>>
    BY <1>1, JobTypes DEF Begin, Goto, Entry, IInv, TypeOK
  <2>2. \A q \in InFlight' \ {r} : q \in InFlight /\ pc'[q] = pc[q]
    BY <1>1 DEF Begin, Goto, InFlight, IInv, TypeOK
  <2> QED BY <2>1, <2>2 DEF CouponsFixed
<1>2. ASSUME NEW r \in InFlight,
             \/ PrivateStep(r) \/ UpdateStock(r) \/ SaveCredit(r) \/ InsertCoupon(r)
             \/ Commit(r) \/ Rollback(r)
      PROVE  /\ CouponsFixed'
             /\ \A c \in Coupon : row[c] # NoRow => row'[c] = row[c]
  <2>1. \A q \in InFlight' \ {r} : q \in InFlight /\ pc'[q] = pc[q] /\ mem'[q] = mem[q]
    BY <1>2, OthersKeepMemory DEF InFlight
  <2>2. ASSUME pc'[r] = "insert" PROVE mem'[r].inserting
    <3>1. LookUpCode(r)
      <4>1. ~(Commit(r) \/ Rollback(r))
        BY <2>2 DEF Commit, Rollback, Goto, IInv, TypeOK, InFlight
      <4> QED BY <1>2, <2>2, <4>1, Moves
              DEF PrivateStep, AfterStock, AfterCredit
    <3>2. r \in Request /\ mem[r] \in Memory
      BY InFlightFacts
    <3>3. mem'[r] = [mem[r] EXCEPT !.inserting = TRUE]
      BY <3>1, <3>2 DEF LookUpCode, IInv, TypeOK
    <3> QED BY <3>2, <3>3 DEF Memory
  <2>3. \A q \in InFlight' : pc'[q] = "insert" => mem'[q].inserting
    BY <2>1, <2>2 DEF CouponsFixed
  <2>4. ASSUME NEW c \in Coupon
        PROVE  /\ writer'[c] \in Request => row'[c] = NoRow
               /\ row[c] # NoRow => row'[c] = row[c]
    <3>1. c \in Key /\ Nobody \notin Request
      BY CheckoutAssumption, NobodyAssumption
    <3>2. CASE PrivateStep(r)
      BY <3>2, PrivateRows DEF CouponsFixed
    <3>3. CASE UpdateStock(r) \/ SaveCredit(r)
      <4>1. PICK k \in Product \cup User : \E v : Put(r, k, v)
        BY <3>3, WrittenKeys DEF UpdateStock, SaveCredit
      <4>2. row' = row /\ writer'[c] = writer[c]
        BY <4>1, CheckoutAssumption DEF Put, IInv, TypeOK
      <4> QED BY <4>2 DEF CouponsFixed
    <3>4. CASE InsertCoupon(r)
      <4>1. /\ row' = row /\ (c # job[r].coupon => writer'[c] = writer[c])
        BY <3>4, <3>1 DEF InsertCoupon, Put, IInv, TypeOK
      <4>2. row[job[r].coupon] = NoRow
        BY <3>4 DEF InsertCoupon, Duplicate, Writing, Target, CouponsFixed
      <4> QED BY <4>1, <4>2 DEF CouponsFixed
    <3>5. CASE Commit(r)
      BY <3>1, <3>5 DEF Commit, Publish, Unlocked, Visible, CouponsFixed, InFlight
    <3>6. CASE Rollback(r)
      BY <3>1, <3>6 DEF Rollback, Discard, Unlocked, CouponsFixed, InFlight
    <3> QED BY <1>2, <3>2, <3>3, <3>4, <3>5, <3>6
  <2> QED BY <2>3, <2>4 DEF CouponsFixed
<1>3. CASE UNCHANGED vars
  BY <1>3 DEF vars, CouponsFixed, InFlight
<1> QED BY <1>1, <1>2, <1>3, StepCases

\* A checkout finds its coupon in ReadCoupon and never loses it again.
LEMMA FoundLocal ==
  ASSUME IInv, LedgerInv, NEW r \in InFlight, job[r].op = "place", ~ReadCoupon(r),
         PrivateStep(r) \/ UpdateStock(r) \/ SaveCredit(r) \/ InsertCoupon(r)
  PROVE  Found(r)' <=> Found(r)
<1>1. job' = job /\ r \in Request /\ pc[r] \notin {"commit", "committed"}
  BY StaysInFlight, InFlightFacts, Moves DEF PrivateStep
<1>2. redemption[r] = NoRow
  BY <1>1 DEF LedgerInv
<1>3. CASE RecordRedemption(r)
  <2>1. /\ redemption'[r] \in RedemptionRow /\ pc[r] = "redeem"
    <3>1. redemption'[r] = [coupon |-> job[r].coupon,
                            order |-> IF job[r].op = "place" THEN r ELSE job[r].order]
      BY <1>1, <1>3 DEF RecordRedemption, IInv, TypeOK
    <3>2. job[r].coupon \in Coupon
      <4>1. job[r].coupon # NoRow /\ job[r] \in PlaceJob
        BY <1>3, InFlightFacts DEF RecordRedemption, PlaceControl
      <4> QED BY <4>1 DEF PlaceJob
    <3> QED BY <1>1, <1>3, <3>1, <3>2 DEF RecordRedemption, RedemptionRow
  <2>2. redemption'[r] # NoRow /\ job[r].coupon # NoRow
    BY <2>1, InFlightFacts, CheckoutAssumption DEF PlaceControl
  <2> QED BY <1>1, <2>1, <2>2 DEF Found
<1>4. CASE ~RecordRedemption(r)
  <2>1. redemption' = redemption
    BY <1>4
       DEF PrivateStep, ReadLine, ReadCoupon, CheckRedeemed, ReadCredit,
           SelectForStock, InsertOrder, SelectForCredit, ReadForGrant,
           ReadForPatch, ReadForApply, LookUpCode, UpdateStock, SaveCredit,
           InsertCoupon
  <2>2. job[r].coupon # NoRow =>
          (pc'[r] \in {"redeemed", "credit", "stock", "update", "order", "fresh",
                       "save", "redeem"}
           <=> pc[r] \in {"redeemed", "credit", "stock", "update", "order", "fresh",
                          "save", "redeem"})
    BY <1>4, Moves DEF PrivateStep, AfterStock, AfterCredit
  <2> QED BY <1>1, <1>2, <2>1, <2>2 DEF Found
<1> QED BY <1>3, <1>4

\* The subtotal grows with each line read.
LEMMA SubtotalLocal ==
  ASSUME IInv, BillInv, NEW r \in InFlight, job[r].op = "place",
         PrivateStep(r) \/ UpdateStock(r) \/ SaveCredit(r) \/ InsertCoupon(r)
  PROVE  mem'[r].subtotal = CartSum(r)'
<1>1. job' = job /\ r \in Request /\ mem[r] \in Memory /\ job[r] \in PlaceJob
  BY StaysInFlight, InFlightFacts
<1>2. mem[r].subtotal = CartSum(r)
  BY DEF BillInv
<1>3. CASE ReadLine(r)
  <2> DEFINE seen == Visible(r, CartLine(r).product)
             n == mem[r].line
             old == [i \in DOMAIN mem[r].copies |->
                      mem[r].copies[i].price * job[r].lines[i].quantity]
             new == [i \in DOMAIN mem'[r].copies |->
                      mem'[r].copies[i].price * job[r].lines[i].quantity]
  <2>1. /\ pc[r] = "lines" /\ n \in 1..Len(job[r].lines)
        /\ Len(mem[r].copies) = n - 1 /\ mem[r].copies \in Seq(ProductRow)
        /\ job[r].lines \in Seq(Line)
    BY <1>1, <1>3, InFlightFacts DEF ReadLine, PlaceControl, PlaceJob, Memory
  <2>2. /\ CartLine(r) = job[r].lines[n] /\ CartLine(r).quantity \in Int
        /\ CartLine(r).product \in Product \cap Key
    BY <1>3, <2>1, CartLineType DEF CartLine
  <2>3. seen \in ProductRow
    BY <1>1, <2>2, VisibleType DEF RowOK, IInv
  <2>4. /\ mem'[r].copies = Append(mem[r].copies, seen)
        /\ mem'[r].subtotal = mem[r].subtotal + seen.price * CartLine(r).quantity
    <3>1. \E k : mem'[r] = [mem[r] EXCEPT
                   !.copies = Append(mem[r].copies, seen),
                   !.subtotal = mem[r].subtotal + seen.price * CartLine(r).quantity,
                   !.line = k]
      BY <1>1, <1>3 DEF ReadLine, IInv, TypeOK
    <3> HIDE DEF seen
    <3> QED BY <1>1, <3>1 DEF Memory
  <2> HIDE DEF seen
  <2>5. /\ DOMAIN mem[r].copies = 1..(n - 1)
        /\ DOMAIN mem'[r].copies = (1..(n - 1)) \cup {n}
        /\ mem'[r].copies[n] = seen
        /\ \A i \in 1..(n - 1) : mem'[r].copies[i] = mem[r].copies[i]
    BY <2>1, <2>3, <2>4
  <2>6. /\ new[n] = seen.price * job[r].lines[n].quantity
        /\ \A i \in DOMAIN old : new[i] = old[i]
        /\ DOMAIN new = DOMAIN old \cup {n} /\ n \notin DOMAIN old
    BY <2>1, <2>5
  <2>7. ASSUME NEW i \in DOMAIN mem'[r].copies
        PROVE  mem'[r].copies[i].price \in Int /\ job[r].lines[i].quantity \in Int
    <3>1. i \in 1..Len(job[r].lines)
      BY <2>1, <2>5
    <3>2. job[r].lines[i] \in Line
      BY <2>1, <3>1
    <3>3. mem'[r].copies[i] \in ProductRow
      <4>1. CASE i = n
        BY <2>3, <2>5, <4>1
      <4>2. CASE i # n
        BY <2>1, <2>5, <4>2
      <4> QED BY <4>1, <4>2
    <3> QED BY <3>2, <3>3 DEF ProductRow, Line
  <2>8. IntOn(new, DOMAIN new)
    BY <2>7 DEF IntOn
  <2>9. IsFiniteSet(DOMAIN old)
    BY <2>1, <2>5, FS_Interval
  <2>10. SumFunction(new) = SumFunction(old) + new[n]
    <3> HIDE DEF new, old
    <3> QED BY <2>6, <2>8, <2>9, SumExtends
  <2> QED BY <1>1, <1>2, <2>2, <2>4, <2>6, <2>10 DEF CartSum
<1>4. CASE ~ReadLine(r)
  <2>1. mem'[r].copies = mem[r].copies /\ mem'[r].subtotal = mem[r].subtotal
    BY <1>4, KeptMemory, Moves
  <2> QED BY <1>1, <1>2, <2>1 DEF CartSum
<1> QED BY <1>3, <1>4

LEMMA PercentLocal ==
  ASSUME IInv, NoStrayVersions, CouponsStay, CouponsFixed, RedeemersInv, LedgerInv,
         BillInv, [Next]_vars, NEW r \in InFlight, job[r].op = "place",
         PrivateStep(r) \/ UpdateStock(r) \/ SaveCredit(r) \/ InsertCoupon(r)
  PROVE  /\ ~Found(r)' => mem'[r].percent = 0
         /\ Found(r)' => mem'[r].percent = row'[job'[r].coupon]
<1>1. job' = job /\ r \in Request /\ mem[r] \in Memory /\ job[r] \in PlaceJob
  BY StaysInFlight, InFlightFacts
<1>2. CASE ReadCoupon(r)
  <2>1. pc'[r] = "redeemed" /\ job[r].coupon \in Coupon /\ row' = row
    BY <1>1, <1>2, Moves, InFlightFacts DEF ReadCoupon, PlaceControl, PlaceJob
  <2>2. mem'[r] = [mem[r] EXCEPT !.percent = Visible(r, job[r].coupon)]
    BY <1>1, <1>2 DEF ReadCoupon, IInv, TypeOK
  <2>3. Visible(r, job[r].coupon) = row[job[r].coupon]
    BY <1>1, <2>1 DEF Visible, CouponsStay
  <2>4. Found(r)'
    BY <1>1, <2>1, CheckoutAssumption DEF Found
  <2> QED BY <1>1, <2>1, <2>2, <2>3, <2>4 DEF Memory
<1>3. CASE ~ReadCoupon(r)
  <2>1. (Found(r)' <=> Found(r)) /\ mem'[r].percent = mem[r].percent
    BY <1>3, FoundLocal, KeptMemory
  <2>2. ASSUME Found(r) PROVE row'[job[r].coupon] = row[job[r].coupon]
    BY <1>1, <2>2, FoundFacts, CouponsFixedStep DEF RedeemersInv, Redeemer, Genuine
  <2> QED BY <1>1, <2>1, <2>2 DEF BillInv
<1> QED BY <1>2, <1>3

\* A checkout with a coupon reaches its commit through the ledger.
LEMMA RedeemedLocal ==
  ASSUME IInv, OrdersInv, LedgerInv, NEW r \in InFlight,
         PrivateStep(r) \/ UpdateStock(r) \/ SaveCredit(r) \/ InsertCoupon(r),
         order'[r] # NoRow, pc'[r] = "commit"
  PROVE  redemption'[r] # NoRow <=> job'[r].coupon # NoRow
<1>1. job' = job /\ r \in Request /\ job[r].op = "place" /\ job[r] \in PlaceJob
  BY StaysInFlight, OrdersLocal, InFlightFacts DEF OrderedFrom
<1>2. redemption[r] = NoRow
  BY <1>1, Moves DEF LedgerInv, PrivateStep
<1>3. CASE RecordRedemption(r)
  <2>1. job[r].coupon \in Coupon
    BY <1>1, <1>3, InFlightFacts DEF RecordRedemption, PlaceControl, PlaceJob
  <2>2. redemption'[r] = [coupon |-> job[r].coupon, order |-> r]
    BY <1>1, <1>3 DEF RecordRedemption, IInv, TypeOK
  <2>3. redemption'[r] \in RedemptionRow
    BY <1>1, <2>1, <2>2 DEF RedemptionRow
  <2> QED BY <1>1, <2>1, <2>3, CheckoutAssumption
<1>4. CASE ~RecordRedemption(r)
  <2>1. redemption' = redemption
    BY <1>4
       DEF PrivateStep, ReadLine, ReadCoupon, CheckRedeemed, ReadCredit,
           SelectForStock, InsertOrder, SelectForCredit, ReadForGrant,
           ReadForPatch, ReadForApply, LookUpCode, UpdateStock, SaveCredit,
           InsertCoupon
  <2>2. job[r].coupon = NoRow
    BY <1>1, <1>4, Moves DEF PrivateStep, AfterStock, AfterCredit
  <2> QED BY <1>1, <1>2, <2>1, <2>2
<1> QED BY <1>3, <1>4

\* At its commit an order charges what its lines record.
LEMMA ChargedAtCommit ==
  ASSUME IInv, CouponsFixed, OrdersInv, RedeemersInv, LedgerInv, BillInv,
         [Next]_vars, NEW r \in InFlight, Commit(r), order[r] # NoRow
  PROVE  order'[r].total =
           Charge(Subtotal(order'[r]),
                  IF redemption'[r] = NoRow THEN 0 ELSE row'[redemption'[r].coupon])
<1>1. /\ order' = order /\ redemption' = redemption /\ pc[r] = "commit" /\ r \in Request
      /\ job[r].op = "place" /\ order[r] = NewOrder(r) /\ mem[r] \in Memory
      /\ Len(mem[r].copies) = Len(job[r].lines) /\ job[r] \in PlaceJob
  BY InFlightFacts DEF Commit, OrdersInv, OrderedFrom
<1>2. Subtotal(order[r]) = mem[r].subtotal
  <2> DEFINE charged == [i \in DOMAIN order[r].lines |->
                          order[r].lines[i].unit_price * order[r].lines[i].quantity]
             read == [i \in DOMAIN mem[r].copies |->
                       mem[r].copies[i].price * job[r].lines[i].quantity]
  <2>1. DOMAIN order[r].lines = 1..Len(mem[r].copies)
        /\ DOMAIN mem[r].copies = 1..Len(mem[r].copies)
    BY <1>1 DEF NewOrder, Memory
  <2>2. \A i \in 1..Len(mem[r].copies) :
          /\ order[r].lines[i].unit_price = mem[r].copies[i].price
          /\ order[r].lines[i].quantity = job[r].lines[i].quantity
    BY <1>1 DEF NewOrder
  <2>3. IsFiniteSet(DOMAIN read)
    BY <1>1, <2>1, FS_Interval DEF Memory
  <2>4. SumFunction(charged) = SumFunction(read)
    <3>1. DOMAIN charged = DOMAIN read /\ \A i \in DOMAIN read : charged[i] = read[i]
      BY <2>1, <2>2
    <3> HIDE DEF charged, read
    <3> QED BY <2>3, <3>1, SumsEqual
  <2> QED BY <1>1, <2>4 DEF Subtotal, BillInv, CartSum
<1>3. order[r].total = Charge(mem[r].subtotal, mem[r].percent)
  BY <1>1 DEF NewOrder, Total
<1>4. mem[r].percent = IF redemption[r] = NoRow THEN 0 ELSE row'[redemption[r].coupon]
  <2>1. redemption[r] # NoRow <=> job[r].coupon # NoRow
    BY <1>1 DEF BillInv
  <2>2. CASE redemption[r] = NoRow
    <3>1. ~Found(r)
      BY <2>1, <2>2 DEF Found
    <3> QED BY <1>1, <2>2, <3>1 DEF BillInv
  <2>3. CASE redemption[r] # NoRow
    <3>1. Found(r) /\ redemption[r].coupon = job[r].coupon
      BY <1>1, <2>1, <2>3 DEF Found, LedgerInv
    <3>2. job[r].coupon \in Coupon /\ row[job[r].coupon] # NoRow
      BY <1>1, <3>1, FoundFacts DEF RedeemersInv, Redeemer, Genuine
    <3>3. row'[job[r].coupon] = row[job[r].coupon]
      BY <3>2, CouponsFixedStep
    <3> QED BY <1>1, <2>3, <3>1, <3>3 DEF BillInv
  <2> QED BY <2>2, <2>3
<1> QED BY <1>1, <1>2, <1>3, <1>4

\* What a visible order was charged stays right.
LEMMA ChargedBefore ==
  ASSUME IInv, NoStrayVersions, CouponsStay, CouponsFixed, RedeemersInv, LedgerInv,
         BillInv, [Next]_vars, NEW q \in Orders
  PROVE  /\ q \in Request /\ OrderVisible(q)' /\ order'[q] = order[q]
         /\ redemption'[q] = redemption[q]
         /\ order'[q].total =
              Charge(Subtotal(order'[q]),
                     IF redemption'[q] = NoRow THEN 0 ELSE row'[redemption'[q].coupon])
<1>1. q \in Request /\ OrderVisible(q) /\ pc[q] = "committed" /\ q \notin InFlight
  BY DEF Orders, OrderVisible, Committed, InFlight, Final
<1>2. OrderVisible(q)' /\ order'[q] = order[q]
  BY <1>1, OrdersStay
<1>3. redemption'[q] = redemption[q]
  <2>1. ASSUME NEW r \in Request, Begin(r)
        PROVE  redemption'[q] = redemption[q]
    BY <2>1 DEF Begin
  <2>2. ASSUME NEW r \in InFlight,
               \/ PrivateStep(r) \/ UpdateStock(r) \/ SaveCredit(r) \/ InsertCoupon(r)
               \/ Commit(r) \/ Rollback(r)
        PROVE  redemption'[q] = redemption[q]
    BY <1>1, <2>2, OthersKeepMemory
  <2>3. CASE UNCHANGED vars
    BY <2>3 DEF vars
  <2> QED BY <2>1, <2>2, <2>3, StepCases
<1>4. ASSUME redemption[q] # NoRow
      PROVE  row'[redemption[q].coupon] = row[redemption[q].coupon]
  <2>1. Found(q) /\ redemption[q].coupon = job[q].coupon
    BY <1>1, <1>4 DEF RedeemersInv, Redeemer, Redeems, Found
  <2>2. job[q].coupon \in Coupon /\ row[job[q].coupon] # NoRow
    BY <1>1, <2>1, FoundFacts DEF RedeemersInv, Redeemer, Genuine
  <2> QED BY <2>1, <2>2, CouponsFixedStep
<1> QED BY <1>1, <1>2, <1>3, <1>4 DEF BillInv, ChargeMatchesLines

LEMMA BillStep ==
  ASSUME IInv, NoStrayVersions, CouponsStay, CouponsFixed, OrdersInv, RedeemersInv,
         LedgerInv, BillInv, [Next]_vars
  PROVE  BillInv'
<1>1. ASSUME NEW q \in InFlight, job[q].op = "place", q \in Request,
             pc'[q] = pc[q], job'[q] = job[q], mem'[q] = mem[q],
             redemption'[q] = redemption[q]
      PROVE  /\ mem'[q].subtotal = CartSum(q)'
             /\ ~Found(q)' => mem'[q].percent = 0
             /\ Found(q)' => mem'[q].percent = row'[job'[q].coupon]
  <2>1. CartSum(q)' = CartSum(q) /\ (Found(q)' <=> Found(q))
    BY <1>1 DEF CartSum, Found
  <2>2. ASSUME Found(q) PROVE row'[job[q].coupon] = row[job[q].coupon]
    BY <1>1, <2>2, FoundFacts, CouponsFixedStep DEF RedeemersInv, Redeemer, Genuine
  <2> QED BY <1>1, <2>1, <2>2 DEF BillInv
<1>2. ASSUME NEW r \in Request, Begin(r)
      PROVE  BillInv'
  <2>1. /\ pc[r] = "idle" /\ mem[r] = Blank /\ UNCHANGED <<mem, order, redemption>>
        /\ \A q \in Request \ {r} : pc'[q] = pc[q] /\ job'[q] = job[q]
    BY <1>2 DEF Begin, Goto, IInv, TypeOK, ControlOK, RequestControl, InFlight
  <2>2. /\ pc'[r] \in {"lines", "grant", "patch", "apply", "lookup", "commit", "rolledback"}
        /\ order[r] = NoRow /\ redemption[r] = NoRow
    BY <1>2, <2>1, JobTypes
       DEF Begin, Goto, Entry, IInv, TypeOK, OrdersInv, OrderedFrom, LedgerInv
  <2>3. ~Found(r)' /\ mem'[r].percent = 0 /\ mem'[r].subtotal = CartSum(r)'
    <3>1. mem'[r].copies = <<>> /\ mem'[r].percent = 0 /\ mem'[r].subtotal = 0
      BY <2>1 DEF Blank
    <3>2. CartSum(r)' = 0
      <4> DEFINE sum == [i \in DOMAIN mem'[r].copies |->
                          mem'[r].copies[i].price * job'[r].lines[i].quantity]
      <4>1. DOMAIN sum = {}
        BY <3>1
      <4>2. SumFunction(sum) = 0
        <5> HIDE DEF sum
        <5> QED BY <4>1, SumOfNone
      <4> QED BY <4>2 DEF CartSum
    <3> QED BY <2>1, <2>2, <3>1, <3>2 DEF Found
  <2>4. \A q \in InFlight' \ {r} : q \in InFlight
    BY <2>1 DEF InFlight
  <2>5. Orders' = Orders
    BY <2>1, <2>2 DEF Orders, OrderVisible, Committed
  <2>6. ChargeMatchesLines'
    BY <2>5, ChargedBefore DEF ChargeMatchesLines
  <2>7. \A q \in InFlight' :
          job'[q].op = "place" =>
            /\ mem'[q].subtotal = CartSum(q)'
            /\ ~Found(q)' => mem'[q].percent = 0
            /\ Found(q)' => mem'[q].percent = row'[job'[q].coupon]
    BY <1>1, <2>1, <2>3, <2>4 DEF InFlight
  <2>8. \A q \in Request :
          order'[q] # NoRow /\ pc'[q] \in {"commit", "committed"} =>
            (redemption'[q] # NoRow <=> job'[q].coupon # NoRow)
    BY <2>1, <2>2 DEF BillInv
  <2> QED BY <2>6, <2>7, <2>8 DEF BillInv
<1>3. ASSUME NEW r \in InFlight,
             \/ PrivateStep(r) \/ UpdateStock(r) \/ SaveCredit(r) \/ InsertCoupon(r)
             \/ Commit(r) \/ Rollback(r)
      PROVE  BillInv'
  <2>1. /\ r \in Request
        /\ \A q \in Request \ {r} :
             /\ pc'[q] = pc[q] /\ job'[q] = job[q] /\ mem'[q] = mem[q]
             /\ order'[q] = order[q] /\ redemption'[q] = redemption[q]
    BY <1>3, OthersKeepMemory DEF InFlight
  <2>2. \A q \in InFlight' \ {r} : q \in InFlight /\ q \in Request
    BY <2>1 DEF InFlight
  <2>3. Commit(r) \/ Rollback(r) => r \notin InFlight'
    BY <2>1 DEF Commit, Rollback, Goto, InFlight, Final, IInv, TypeOK
  <2>4. ASSUME r \in InFlight', job'[r].op = "place"
        PROVE  /\ mem'[r].subtotal = CartSum(r)'
               /\ ~Found(r)' => mem'[r].percent = 0
               /\ Found(r)' => mem'[r].percent = row'[job'[r].coupon]
    <3>1. job[r].op = "place"
      BY <1>3, <2>3, <2>4, StaysInFlight
    <3> QED BY <1>3, <2>3, <2>4, <3>1, SubtotalLocal, PercentLocal
  <2>5. ASSUME order'[r] # NoRow, pc'[r] \in {"commit", "committed"}
        PROVE  redemption'[r] # NoRow <=> job'[r].coupon # NoRow
    <3>1. CASE Commit(r)
      <4>1. pc[r] = "commit" /\ UNCHANGED <<job, order, redemption>>
        BY <3>1 DEF Commit
      <4> QED BY <2>1, <2>5, <4>1 DEF BillInv
    <3>2. ~Rollback(r)
      BY <2>1, <2>5 DEF Rollback, IInv, TypeOK
    <3>3. CASE ~Commit(r)
      <4>1. pc'[r] = "commit"
        BY <1>3, <2>5, <3>2, <3>3, StaysInFlight DEF Final
      <4> QED BY <1>3, <2>5, <3>2, <3>3, <4>1, RedeemedLocal
    <3> QED BY <3>1, <3>3
  <2>6. ChargeMatchesLines'
    <3> SUFFICES ASSUME NEW q \in Orders'
                 PROVE  order'[q].total =
                          Charge(Subtotal(order'[q]),
                                 IF redemption'[q] = NoRow THEN 0
                                 ELSE row'[redemption'[q].coupon])
      BY DEF ChargeMatchesLines
    <3>1. CASE q \in Orders
      BY <3>1, ChargedBefore
    <3>2. CASE q \notin Orders
      <4>1. q \in Request /\ pc'[q] = "committed" /\ order'[q] # NoRow
        BY DEF Orders, OrderVisible, Committed
      <4>2. q = r
        BY <2>1, <3>2, <4>1 DEF Orders, OrderVisible, Committed
      <4>3. Commit(r)
        BY <1>3, <2>1, <4>1, <4>2, StaysInFlight DEF Rollback, Goto, IInv, TypeOK, Final
      <4>4. order[r] # NoRow
        BY <4>1, <4>2, <4>3 DEF Commit
      <4> QED BY <4>2, <4>3, <4>4, ChargedAtCommit
    <3> QED BY <3>1, <3>2
  <2>7. \A q \in InFlight' :
          job'[q].op = "place" =>
            /\ mem'[q].subtotal = CartSum(q)'
            /\ ~Found(q)' => mem'[q].percent = 0
            /\ Found(q)' => mem'[q].percent = row'[job'[q].coupon]
    BY <1>1, <2>1, <2>2, <2>4
  <2>8. \A q \in Request :
          order'[q] # NoRow /\ pc'[q] \in {"commit", "committed"} =>
            (redemption'[q] # NoRow <=> job'[q].coupon # NoRow)
    BY <2>1, <2>5 DEF BillInv
  <2> QED BY <2>6, <2>7, <2>8 DEF BillInv
<1>4. CASE UNCHANGED vars
  <2>1. /\ row' = row /\ pc' = pc /\ job' = job /\ mem' = mem /\ order' = order
        /\ redemption' = redemption /\ InFlight' = InFlight /\ Orders' = Orders
    BY <1>4 DEF vars, InFlight, Orders, OrderVisible, Committed
  <2>2. \A q \in Request : (Found(q)' <=> Found(q)) /\ CartSum(q)' = CartSum(q)
    BY <2>1 DEF Found, CartSum
  <2>3. ChargeMatchesLines'
    BY <2>1 DEF BillInv, ChargeMatchesLines
  <2> QED BY <2>1, <2>2, <2>3 DEF BillInv, InFlight
<1> QED BY <1>2, <1>3, <1>4, StepCases

LEMMA BillInit == Init => CouponsFixed /\ BillInv
<1> SUFFICES ASSUME Init PROVE CouponsFixed /\ BillInv
  OBVIOUS
<1>1. InFlight = {} /\ Orders = {}
  BY DEF Init, InFlight, Orders, OrderVisible, Committed
<1> QED BY <1>1, NobodyAssumption, CheckoutAssumption
        DEF Init, DatabaseInit, CouponsFixed, BillInv, ChargeMatchesLines

\* Whatever overlaps, PlaceOrder charges the prices that its order lines
\* record, less the discount of the coupon it redeemed: all of them come from
\* the rows as the request read them, and a coupon never changes.
THEOREM ChargesMatchLines == Spec => []ChargeMatchesLines
<1> DEFINE Inv == /\ IInv /\ NoStrayVersions /\ MetInv /\ LedgerInv /\ CouponsStay
                  /\ RedeemersInv /\ OrdersInv /\ CouponsFixed /\ BillInv
<1>1. Init => Inv
  <2> SUFFICES ASSUME Init PROVE Inv
    OBVIOUS
  <2>1. NoStrayVersions /\ MetInv /\ LedgerInv
    BY DEF Init, DatabaseInit, NoStrayVersions, MetInv, LedgerInv, Checked, Redeemed,
           Committed, InFlight, Final
  <2>2. CouponsStay
    BY NobodyAssumption, CheckoutAssumption DEF Init, DatabaseInit, CouponsStay
  <2>3. RedeemersInv
    BY DEF Init, RedeemersInv, Redeemer, Found
  <2> QED BY <2>1, <2>2, <2>3, InitInv, OrdersInit, BillInit
<1>2. Inv /\ [Next]_vars => Inv'
  <2> SUFFICES ASSUME Inv, [Next]_vars PROVE Inv'
    OBVIOUS
  <2>1. IInv' /\ NoStrayVersions' /\ MetInv' /\ LedgerInv'
    BY NextInv, NoStrayVersionsStep, MetStep, LedgerStep
  <2>2. CouponsStay' /\ RedeemersInv' /\ OrdersInv' /\ CouponsFixed'
    BY CouponsStayStep, RedeemersStep, OrdersStep, CouponsFixedStep
  <2> QED BY <2>1, <2>2, BillStep
<1>3. Inv => ChargeMatchesLines
  BY DEF BillInv
<1> QED BY <1>1, <1>2, <1>3, PTL DEF Spec

-----------------------------------------------------------------------------
(***************************************************************************)
(* Coupons: who has inserted a code holds its lock until the commit, and   *)
(* whoever waited for that lock then finds the code taken.                 *)
(***************************************************************************)
Inserted(r) == pc[r] = "commit" /\ job[r].op = "create"

IssueHeld ==
  \A r \in InFlight :
    Inserted(r) =>
      writer[job[r].coupon] = r /\ latest[job[r].coupon] = job[r].percent

IssueInv ==
  /\ IssueHeld
  /\ \A c \in Coupon : InitialRow[c] # NoRow => row[c] # NoRow
  /\ CouponsIssuedOnce

\* The code and the discount that a request asks for.
LEMMA CreateTypes ==
  ASSUME IInv, NEW r \in InFlight, job[r].op = "create"
  PROVE  job[r].coupon \in Coupon \cap Key /\ job[r].percent # NoRow
BY InFlightFacts, CheckoutAssumption DEF CreateJob, CouponRow

LEMMA IssueHeldStep ==
  ASSUME IInv, IssueHeld, [Next]_vars
  PROVE  IssueHeld'
<1>1. ASSUME NEW r \in Request, Begin(r)
      PROVE  IssueHeld'
  <2>1. /\ UNCHANGED <<latest, writer>> /\ ~(pc'[r] = "commit" /\ job'[r].op = "create")
    BY <1>1, JobTypes DEF Begin, Goto, Entry, Replayed, IInv, TypeOK
  <2>2. \A q \in InFlight' \ {r} : q \in InFlight /\ pc'[q] = pc[q] /\ job'[q] = job[q]
    BY <1>1 DEF Begin, Goto, InFlight, IInv, TypeOK
  <2> QED BY <2>1, <2>2 DEF IssueHeld, Inserted
<1>2. ASSUME NEW r \in InFlight,
             \/ PrivateStep(r) \/ UpdateStock(r) \/ SaveCredit(r) \/ InsertCoupon(r)
             \/ Commit(r) \/ Rollback(r)
      PROVE  IssueHeld'
  <2> SUFFICES ASSUME NEW q \in InFlight', Inserted(q)'
               PROVE  /\ writer'[job'[q].coupon] = q
                      /\ latest'[job'[q].coupon] = job'[q].percent
    BY DEF IssueHeld
  <2>1. r \in Request /\ Nobody \notin Request /\ q \in Request
    BY NobodyAssumption DEF InFlight
  <2>2. CASE q # r
    <3>1. /\ pc'[q] = pc[q] /\ job'[q] = job[q] /\ q \in InFlight
      BY <1>2, <2>1, <2>2, OthersKeepMemory DEF InFlight
    <3>2. PICK c \in Coupon \cap Key : c = job[q].coupon
      BY <3>1, CreateTypes DEF Inserted
    <3>3. writer[c] = q /\ latest[c] = job[q].percent
      BY <3>1, <3>2 DEF IssueHeld, Inserted
    <3>4. writer'[c] = q /\ latest'[c] = latest[c]
      <4>1. CASE PrivateStep(r)
        BY <3>3, <4>1, PrivateRows
      <4>2. CASE UpdateStock(r) \/ SaveCredit(r) \/ InsertCoupon(r)
        <5>1. PICK k \in Key : Lockable(r, k) /\ \E v : Put(r, k, v)
          BY <4>2, WrittenKeys DEF UpdateStock, SaveCredit, InsertCoupon
        <5>2. k # c
          BY <2>1, <2>2, <3>3, <5>1 DEF Lockable
        <5> QED BY <3>3, <5>1, <5>2 DEF Put, IInv, TypeOK
      <4>3. CASE Commit(r) \/ Rollback(r)
        BY <2>2, <3>2, <3>3, <4>3 DEF Commit, Rollback, Publish, Discard, Unlocked
      <4> QED BY <1>2, <4>1, <4>2, <4>3
    <3> QED BY <3>1, <3>2, <3>3, <3>4
  <2>3. CASE q = r
    <3>1. ~(Commit(r) \/ Rollback(r))
      BY <2>3 DEF Inserted, Commit, Rollback, Goto, IInv, TypeOK, InFlight
    <3>2. job' = job
      BY <1>2, <3>1, StaysInFlight
    <3>3. job[r].op = "create" /\ pc'[r] = "commit"
      BY <2>3, <3>2 DEF Inserted
    <3>4. InsertCoupon(r)
      BY <1>2, <3>1, <3>3, Moves DEF PrivateStep
    <3>5. job[r].coupon \in Key /\ Put(r, job[r].coupon, job[r].percent)
      BY <3>4, WrittenKeys DEF InsertCoupon
    <3> QED BY <2>3, <3>2, <3>5 DEF Put, IInv, TypeOK, IsTable
  <2> QED BY <2>2, <2>3
<1>3. CASE UNCHANGED vars
  BY <1>3 DEF vars, IssueHeld, Inserted, InFlight
<1> QED BY <1>1, <1>2, <1>3, StepCases

LEMMA IssueStep ==
  ASSUME IInv, CouponsFixed, IssueInv, [Next]_vars
  PROVE  IssueInv'
<1>1. \A c \in Coupon : row[c] # NoRow => row'[c] = row[c]
  BY CouponsFixedStep
<1>2. \A c \in Coupon : InitialRow[c] # NoRow => row'[c] # NoRow
  BY <1>1 DEF IssueInv
<1>3. IssueHeld'
  BY IssueHeldStep DEF IssueInv
\* A coupon that somebody has been answered for exists.
<1>4. ASSUME NEW c \in Coupon, NEW q \in Issuers(c)
      PROVE  row[c] = job[q].percent /\ row[c] # NoRow /\ row'[c] = row[c]
  <2>1. row[c] = job[q].percent
    BY DEF IssueInv, CouponsIssuedOnce
  <2>2. job[q] \in Jobs /\ job[q].op = "create"
    BY DEF Issuers, Committed, IInv, TypeOK, ControlOK, RequestControl
  <2>3. job[q].percent # NoRow
    BY <2>2, JobTypes, CheckoutAssumption DEF CreateJob
  <2> QED BY <1>1, <2>1, <2>3
<1>5. ASSUME NEW c \in Coupon, Issuers(c)' = Issuers(c),
             \A q \in Issuers(c) : job'[q] = job[q],
             NEW q \in Issuers(c)'
      PROVE  InitialRow[c] = NoRow /\ Issuers(c)' = {q} /\ row'[c] = job'[q].percent
  BY <1>4, <1>5 DEF IssueInv, CouponsIssuedOnce
<1>6. ASSUME \A q \in Request :
               (Committed(q)' <=> Committed(q)) /\ (Committed(q) => job'[q] = job[q])
      PROVE  CouponsIssuedOnce'
  <2>1. \A c \in Coupon : /\ Issuers(c)' = Issuers(c)
                          /\ \A q \in Issuers(c) : job'[q] = job[q]
    BY <1>6 DEF Issuers
  <2> QED BY <1>5, <2>1 DEF CouponsIssuedOnce
<1>7. ASSUME NEW r \in InFlight, Commit(r)
      PROVE  CouponsIssuedOnce'
  <2>1. /\ r \in Request /\ pc[r] = "commit" /\ pc'[r] = "committed" /\ job' = job
        /\ \A q \in Request \ {r} : pc'[q] = pc[q]
        /\ row' = [k \in Key |-> Visible(r, k)]
    BY <1>7 DEF Commit, Goto, Publish, IInv, TypeOK, InFlight
  <2> SUFFICES ASSUME NEW c \in Coupon, NEW q \in Issuers(c)'
               PROVE  /\ InitialRow[c] = NoRow /\ Issuers(c)' = {q}
                      /\ row'[c] = job'[q].percent
    BY DEF CouponsIssuedOnce
  <2>2. CASE job[r].op = "create" /\ job[r].coupon = c
    <3>1. c \in Key /\ writer[c] = r /\ latest[c] = job[r].percent
      BY <2>1, <2>2, CheckoutAssumption DEF IssueInv, IssueHeld, Inserted
    <3>2. row[c] = NoRow /\ row'[c] = job[r].percent
      BY <2>1, <3>1 DEF CouponsFixed, Visible
    <3>3. Issuers(c) = {} /\ InitialRow[c] = NoRow
      BY <1>4, <3>2 DEF IssueInv
    <3>4. Issuers(c)' = {r}
      BY <2>1, <2>2, <3>3 DEF Issuers, Committed
    <3> QED BY <2>1, <3>2, <3>3, <3>4
  <2>3. CASE ~(job[r].op = "create" /\ job[r].coupon = c)
    <3>1. Issuers(c)' = Issuers(c)
      BY <2>1, <2>3 DEF Issuers, Committed
    <3> QED BY <1>5, <2>1, <3>1
  <2> QED BY <2>2, <2>3
<1>8. ASSUME UNCHANGED vars
      PROVE  CouponsIssuedOnce'
  BY <1>6, <1>8 DEF vars, Committed
<1>9. CouponsIssuedOnce'
  BY <1>6, <1>7, <1>8, CommittedStay, StepCases
<1> QED BY <1>2, <1>3, <1>9 DEF IssueInv

LEMMA IssueInit == Init => IssueInv
<1> SUFFICES ASSUME Init PROVE IssueInv
  OBVIOUS
<1>1. IssueHeld
  BY DEF Init, IssueHeld, InFlight
<1>2. \A c \in Coupon : row[c] = InitialRow[c] /\ Issuers(c) = {}
  BY DEF Init, DatabaseInit, Issuers, Committed
<1> QED BY <1>1, <1>2 DEF IssueInv, CouponsIssuedOnce

\* CreateCoupon: whoever is answered for a coupon alone has issued it, however
\* many clients saw its code free.
THEOREM CouponsIssued == Spec => []CouponsIssuedOnce
<1> DEFINE Inv == IInv /\ CouponsFixed /\ IssueInv
<1>1. Init => Inv
  BY InitInv, BillInit, IssueInit
<1>2. Inv /\ [Next]_vars => Inv'
  BY NextInv, CouponsFixedStep, IssueStep
<1>3. Inv => CouponsIssuedOnce
  BY DEF IssueInv
<1> QED BY <1>1, <1>2, <1>3, PTL DEF Spec

-----------------------------------------------------------------------------
(***************************************************************************)
(* Credit: a request reads a balance, and saves it changed some statements *)
(* later.  As long as nobody it has met wrote that balance, what it read   *)
(* is what is committed, and then what it saves adds up.                   *)
(***************************************************************************)
CarriesCredit(r) ==
  /\ r \in InFlight
  /\ \/ /\ job[r].op = "place"
        /\ pc[r] \in {"stock", "update", "order", "fresh", "save", "redeem"}
     \/ job[r].op = "place" /\ pc[r] = "commit" /\ order[r] # NoRow
     \/ job[r].op = "grant" /\ pc[r] \in {"fresh", "save", "commit"}

Delta(r) == IF job[r].op = "place" THEN -Total(r) ELSE job[r].amount

CreditWriters(u) == GrantsTo(u) \cup OrdersOf(u)

CreditHeld ==
  \A u \in User : \A r \in Request :
    writer[u] = r =>
      /\ CarriesCredit(r) /\ Owner(r) = u
      /\ pc[r] \in {"redeem", "commit"}
      /\ latest[u] = mem[r].balance

CreditCopy(r) ==
  LET u == Owner(r)
  IN  /\ mem[r].balance = Balance(row[u]) + Delta(r)
      /\ pc[r] \in {"redeem", "commit"} /\ writer[u] # r => row[u] = mem[r].balance

CreditCopies ==
  \A r \in Request :
    CarriesCredit(r) /\ met[r] \cap CreditWriters(Owner(r)) = {} => CreditCopy(r)

CreditInv == CreditHeld /\ CreditCopies /\ CreditAddsUpWhenApart

\* The books of a product and of a user change only at commits.
LEMMA SameBooks ==
  ASSUME \A q \in Request :
           /\ Committed(q)' <=> Committed(q)
           /\ Committed(q) => job'[q] = job[q] /\ order'[q] = order[q] /\ met'[q] = met[q]
  PROVE  /\ Orders' = Orders
         /\ \A u \in User :
              /\ CreditWriters(u)' = CreditWriters(u)
              /\ Granted(u)' = Granted(u) /\ Charged(u)' = Charged(u)
              /\ Apart(CreditWriters(u))' <=> Apart(CreditWriters(u))
<1>1. Orders' = Orders
  BY DEF Orders, OrderVisible
<1>2. ASSUME NEW u \in User
      PROVE  GrantsTo(u)' = GrantsTo(u) /\ OrdersOf(u)' = OrdersOf(u)
  <2>1. GrantsTo(u)' = GrantsTo(u)
    BY DEF GrantsTo
  <2>2. OrdersOf(u)' = OrdersOf(u)
    BY <1>1 DEF OrdersOf, Orders, OrderVisible
  <2> QED BY <2>1, <2>2
<1>3. ASSUME NEW u \in User
      PROVE  Granted(u)' = Granted(u) /\ Charged(u)' = Charged(u)
  <2>1. [r \in GrantsTo(u)' |-> job'[r].amount] = [r \in GrantsTo(u) |-> job[r].amount]
    BY <1>2 DEF GrantsTo
  <2>2. [r \in OrdersOf(u)' |-> order'[r].total] = [r \in OrdersOf(u) |-> order[r].total]
    BY <1>2 DEF OrdersOf, Orders, OrderVisible
  <2> QED BY <2>1, <2>2 DEF Granted, Charged
<1>4. ASSUME NEW u \in User
      PROVE  Apart(CreditWriters(u))' <=> Apart(CreditWriters(u))
  <2>1. CreditWriters(u)' = CreditWriters(u)
    BY <1>2 DEF CreditWriters
  <2>2. \A r \in CreditWriters(u) : met'[r] = met[r]
    BY DEF CreditWriters, GrantsTo, OrdersOf, Orders, OrderVisible
  <2> QED BY <2>1, <2>2 DEF Apart
<1> QED BY <1>1, <1>2, <1>3, <1>4 DEF CreditWriters

LEMMA CreditSums ==
  ASSUME IInv, OrdersInv, NEW u \in User
  PROVE  /\ IsFiniteSet(GrantsTo(u)) /\ IsFiniteSet(OrdersOf(u))
         /\ \A r \in GrantsTo(u) : job[r].amount \in Int
         /\ \A r \in OrdersOf(u) : order[r].total \in Int
         /\ Granted(u) \in Int /\ Charged(u) \in Int
<1>1. GrantsTo(u) \subseteq Begun /\ OrdersOf(u) \subseteq Begun
  BY DEF GrantsTo, OrdersOf, Orders, OrderVisible, Committed, Begun
<1>2. IsFiniteSet(GrantsTo(u)) /\ IsFiniteSet(OrdersOf(u))
  BY <1>1, FS_Subset DEF OrdersInv
<1>3. ASSUME NEW r \in GrantsTo(u) PROVE job[r].amount \in Int
  <2>1. r \in Request /\ job[r].op = "grant" /\ job[r] \in Jobs
    BY DEF GrantsTo, Committed, IInv, TypeOK, ControlOK, RequestControl
  <2> QED BY <2>1, JobTypes DEF GrantJob
<1>4. ASSUME NEW r \in OrdersOf(u) PROVE order[r].total \in Int
  <2>1. order[r] \in OrderRow
    BY DEF OrdersOf, Orders, OrderVisible, IInv, TypeOK
  <2> QED BY <2>1 DEF OrderRow
<1>5. Granted(u) \in Int
  <2> DEFINE f == [r \in GrantsTo(u) |-> job[r].amount]
  <2>1. IsFiniteSet(DOMAIN f) /\ IntOn(f, DOMAIN f)
    BY <1>2, <1>3 DEF IntOn
  <2> HIDE DEF f
  <2>2. SumFunction(f) \in Int
    BY <2>1, SumIsInt
  <2> QED BY <2>2 DEF Granted, f
<1>6. Charged(u) \in Int
  <2> DEFINE f == [r \in OrdersOf(u) |-> order[r].total]
  <2>1. IsFiniteSet(DOMAIN f) /\ IntOn(f, DOMAIN f)
    BY <1>2, <1>4 DEF IntOn
  <2> HIDE DEF f
  <2>2. SumFunction(f) \in Int
    BY <2>1, SumIsInt
  <2> QED BY <2>2 DEF Charged, f
<1> QED BY <1>2, <1>3, <1>4, <1>5, <1>6

\* Total(r) and what a request grants are integers.
LEMMA DeltaType ==
  ASSUME IInv, NEW r \in InFlight, job[r].op \in {"place", "grant"}
  PROVE  Delta(r) \in Int /\ Total(r) \in Int /\ Owner(r) \in User \cap Key
BY CreditTypes, InFlightFacts DEF Delta, GrantJob

LEMMA WritersAtCommit ==
  ASSUME IInv, OrdersInv, NEW r \in InFlight, Commit(r), NEW u \in User
  PROVE  /\ r \notin CreditWriters(u)
         /\ CarriesCredit(r) /\ Owner(r) = u =>
              \/ /\ GrantsTo(u)' = GrantsTo(u) \cup {r} /\ OrdersOf(u)' = OrdersOf(u)
                 /\ job'[r].amount = Delta(r) /\ job[r].op = "grant"
              \/ /\ GrantsTo(u)' = GrantsTo(u) /\ OrdersOf(u)' = OrdersOf(u) \cup {r}
                 /\ order'[r].total = -Delta(r) /\ job[r].op = "place"
         /\ ~(CarriesCredit(r) /\ Owner(r) = u) =>
              GrantsTo(u)' = GrantsTo(u) /\ OrdersOf(u)' = OrdersOf(u)
<1>1. /\ r \in Request /\ pc[r] = "commit" /\ pc'[r] = "committed"
      /\ UNCHANGED <<job, order>>
      /\ \A q \in Request \ {r} : pc'[q] = pc[q]
      /\ job[r].op \in {"place", "grant", "patch", "apply", "create"}
  BY InFlightFacts DEF Commit, Goto, IInv, TypeOK
<1>2. GrantsTo(u)' = GrantsTo(u) \cup (IF job[r].op = "grant" /\ job[r].user = u THEN {r} ELSE {})
  BY <1>1 DEF GrantsTo, Committed
<1>3. OrdersOf(u)' = OrdersOf(u) \cup (IF order[r] # NoRow /\ order[r].customer = u THEN {r} ELSE {})
  BY <1>1 DEF OrdersOf, Orders, OrderVisible, Committed
<1>4. order[r] # NoRow => /\ job[r].op = "place" /\ order[r].customer = job[r].actor
                          /\ order[r].total = Total(r)
  <2>1. NewOrder(r).total = Total(r)
    BY DEF NewOrder
  <2>2. order[r] # NoRow => OrderedFrom(r)
    BY <1>1 DEF OrdersInv
  <2> QED BY <2>1, <2>2 DEF OrderedFrom
<1>5. r \notin CreditWriters(u)
  BY <1>1 DEF CreditWriters, GrantsTo, OrdersOf, Orders, OrderVisible, Committed
<1>6. CASE job[r].op = "grant"
  BY <1>1, <1>2, <1>3, <1>4, <1>5, <1>6 DEF CarriesCredit, Owner, Delta
<1>7. CASE job[r].op = "place"
  <2>1. Total(r) \in Int
    BY <1>7, DeltaType
  <2>2. CASE order[r] # NoRow
    BY <1>1, <1>2, <1>3, <1>4, <1>5, <1>7, <2>1, <2>2 DEF CarriesCredit, Owner, Delta
  <2>3. CASE order[r] = NoRow
    BY <1>1, <1>2, <1>3, <1>5, <1>7, <2>3 DEF CarriesCredit
  <2> QED BY <2>2, <2>3
<1>8. CASE job[r].op \notin {"place", "grant"}
  BY <1>1, <1>2, <1>3, <1>4, <1>5, <1>8 DEF CarriesCredit
<1> QED BY <1>6, <1>7, <1>8

LEMMA BooksAtCommit ==
  ASSUME IInv, OrdersInv, NEW r \in InFlight, Commit(r), NEW u \in User
  PROVE  /\ CarriesCredit(r) /\ Owner(r) = u =>
              /\ CreditWriters(u)' = CreditWriters(u) \cup {r}
              /\ \/ /\ job[r].op = "grant"
                    /\ Granted(u)' = Granted(u) + Delta(r) /\ Charged(u)' = Charged(u)
                 \/ /\ job[r].op = "place"
                    /\ Granted(u)' = Granted(u) /\ Charged(u)' = Charged(u) - Delta(r)
              /\ Granted(u)' - Charged(u)' = Granted(u) - Charged(u) + Delta(r)
              /\ Granted(u)' \in Int /\ Charged(u)' \in Int
         /\ ~(CarriesCredit(r) /\ Owner(r) = u) =>
              /\ CreditWriters(u)' = CreditWriters(u)
              /\ Granted(u)' = Granted(u) /\ Charged(u)' = Charged(u)
<1> DEFINE grants == [q \in GrantsTo(u) |-> job[q].amount]
           grantsNext == [q \in GrantsTo(u)' |-> job'[q].amount]
           charges == [q \in OrdersOf(u) |-> order[q].total]
           chargesNext == [q \in OrdersOf(u)' |-> order'[q].total]
<1>1. job' = job /\ order' = order
  BY DEF Commit
<1>2. r \notin GrantsTo(u) /\ r \notin OrdersOf(u)
  BY WritersAtCommit DEF CreditWriters
<1>3. /\ Granted(u) = SumFunction(grants) /\ Granted(u)' = SumFunction(grantsNext)
      /\ Charged(u) = SumFunction(charges) /\ Charged(u)' = SumFunction(chargesNext)
  BY DEF Granted, Charged
<1>4. /\ IsFiniteSet(GrantsTo(u)) /\ IsFiniteSet(OrdersOf(u))
      /\ \A q \in GrantsTo(u) : job[q].amount \in Int
      /\ \A q \in OrdersOf(u) : order[q].total \in Int
      /\ Granted(u) \in Int /\ Charged(u) \in Int
  BY CreditSums
<1>5. GrantsTo(u)' = GrantsTo(u) => Granted(u)' = Granted(u)
  BY <1>1, <1>3
<1>6. OrdersOf(u)' = OrdersOf(u) => Charged(u)' = Charged(u)
  BY <1>1, <1>3
<1>7. ASSUME GrantsTo(u)' = GrantsTo(u) \cup {r}, job[r].amount \in Int
      PROVE  Granted(u)' = Granted(u) + job[r].amount
  <2>1. /\ DOMAIN grantsNext = DOMAIN grants \cup {r} /\ r \notin DOMAIN grants
        /\ grantsNext[r] = job[r].amount
        /\ \A q \in DOMAIN grants : grantsNext[q] = grants[q]
        /\ IntOn(grantsNext, DOMAIN grantsNext) /\ IsFiniteSet(DOMAIN grants)
    BY <1>1, <1>2, <1>4, <1>7 DEF IntOn
  <2> HIDE DEF grants, grantsNext
  <2>2. SumFunction(grantsNext) = SumFunction(grants) + grantsNext[r]
    BY <2>1, SumExtends
  <2> QED BY <1>3, <2>1, <2>2
<1>8. ASSUME OrdersOf(u)' = OrdersOf(u) \cup {r}, order[r].total \in Int
      PROVE  Charged(u)' = Charged(u) + order[r].total
  <2>1. /\ DOMAIN chargesNext = DOMAIN charges \cup {r} /\ r \notin DOMAIN charges
        /\ chargesNext[r] = order[r].total
        /\ \A q \in DOMAIN charges : chargesNext[q] = charges[q]
        /\ IntOn(chargesNext, DOMAIN chargesNext) /\ IsFiniteSet(DOMAIN charges)
    BY <1>1, <1>2, <1>4, <1>8 DEF IntOn
  <2> HIDE DEF charges, chargesNext
  <2>2. SumFunction(chargesNext) = SumFunction(charges) + chargesNext[r]
    BY <2>1, SumExtends
  <2> QED BY <1>3, <2>1, <2>2
<1> HIDE DEF grants, grantsNext, charges, chargesNext
<1>9. CASE CarriesCredit(r) /\ Owner(r) = u
  <2>1. Delta(r) \in Int
    BY <1>9, DeltaType DEF CarriesCredit
  <2>2. CASE /\ GrantsTo(u)' = GrantsTo(u) \cup {r} /\ OrdersOf(u)' = OrdersOf(u)
             /\ job'[r].amount = Delta(r) /\ job[r].op = "grant"
    BY <1>1, <1>4, <1>6, <1>7, <1>9, <2>1, <2>2 DEF CreditWriters
  <2>3. CASE /\ GrantsTo(u)' = GrantsTo(u) /\ OrdersOf(u)' = OrdersOf(u) \cup {r}
             /\ order'[r].total = -Delta(r) /\ job[r].op = "place"
    <3>1. order[r].total = -Delta(r) /\ order[r].total \in Int
      BY <1>1, <2>1, <2>3
    <3> QED BY <1>4, <1>5, <1>8, <1>9, <2>1, <2>3, <3>1 DEF CreditWriters
  <2> QED BY <1>9, <2>2, <2>3, WritersAtCommit
<1>10. CASE ~(CarriesCredit(r) /\ Owner(r) = u)
  BY <1>5, <1>6, <1>10, WritersAtCommit DEF CreditWriters
<1> QED BY <1>9, <1>10

\* While r is in flight, the lock of a balance is held by somebody who has yet
\* to publish it.
LEMMA CreditHeldStep ==
  ASSUME IInv, OrdersInv, CreditHeld, [Next]_vars
  PROVE  CreditHeld'
<1>1. ASSUME NEW r \in Request, Begin(r)
      PROVE  CreditHeld'
  <2>1. /\ r \notin InFlight /\ UNCHANGED <<row, latest, writer, mem, order>>
        /\ \A q \in Request \ {r} : pc'[q] = pc[q] /\ job'[q] = job[q]
        /\ \A q \in InFlight : q \in InFlight'
    BY <1>1 DEF Begin, Goto, InFlight, IInv, TypeOK
  <2>2. ASSUME NEW u \in User, NEW q \in Request, writer[u] = q
        PROVE  /\ CarriesCredit(q)' /\ Owner(q)' = u
               /\ pc'[q] \in {"redeem", "commit"}
               /\ latest'[u] = mem'[q].balance
    <3>1. q \in Request \ {r}
      BY <2>1, <2>2 DEF CreditHeld, CarriesCredit
    <3> QED BY <2>1, <2>2, <3>1 DEF CreditHeld, CarriesCredit, Owner
  <2> QED BY <2>1, <2>2 DEF CreditHeld
<1>2. ASSUME NEW r \in InFlight,
             \/ PrivateStep(r) \/ UpdateStock(r) \/ SaveCredit(r) \/ InsertCoupon(r)
             \/ Commit(r) \/ Rollback(r)
      PROVE  CreditHeld'
  <2> SUFFICES ASSUME NEW u \in User, NEW q \in Request, writer'[u] = q
               PROVE  /\ CarriesCredit(q)' /\ Owner(q)' = u
                      /\ pc'[q] \in {"redeem", "commit"}
                      /\ latest'[u] = mem'[q].balance
    BY DEF CreditHeld
  <2>1. u \in Key /\ r \in Request /\ Nobody \notin Request
    BY CheckoutAssumption, NobodyAssumption DEF InFlight
  <2>2. CASE q # r
    <3>1. /\ pc'[q] = pc[q] /\ job'[q] = job[q] /\ mem'[q] = mem[q] /\ order'[q] = order[q]
          /\ (q \in InFlight' <=> q \in InFlight)
      BY <1>2, <2>2, OthersKeepMemory DEF InFlight
    <3>2. writer[u] = q /\ latest'[u] = latest[u]
      <4>1. CASE PrivateStep(r)
        BY <4>1, PrivateRows
      <4>2. CASE UpdateStock(r) \/ SaveCredit(r) \/ InsertCoupon(r)
        <5>1. PICK k \in Key : \E v : Put(r, k, v)
          BY <4>2, WrittenKeys DEF UpdateStock, SaveCredit, InsertCoupon
        <5> QED BY <2>1, <2>2, <5>1 DEF Put, IInv, TypeOK, IsTable
      <4>3. CASE Commit(r)
        BY <2>1, <2>2, <4>3 DEF Commit, Publish, Unlocked
      <4>4. CASE Rollback(r)
        BY <2>1, <2>2, <4>4 DEF Rollback, Discard, Unlocked
      <4> QED BY <1>2, <4>1, <4>2, <4>3, <4>4
    <3> QED BY <3>1, <3>2 DEF CreditHeld, CarriesCredit, Owner
  <2>3. CASE q = r
    <3>1. ~(Commit(r) \/ Rollback(r))
      BY <2>1, <2>3 DEF Commit, Rollback, Publish, Discard, Unlocked
    <3>2. job' = job /\ r \in InFlight'
      BY <1>2, <3>1, StaysInFlight
    <3>3. CASE writer[u] = r /\ (PrivateStep(r) \/ UpdateStock(r) \/ InsertCoupon(r))
      <4>1. /\ CarriesCredit(r) /\ Owner(r) = u /\ pc[r] \in {"redeem", "commit"}
            /\ latest[u] = mem[r].balance
        BY <2>1, <3>3 DEF CreditHeld
      <4>2. RecordRedemption(r)
        BY <3>3, <4>1, Moves DEF PrivateStep
      <4>3. job[r].op = "place" /\ pc[r] = "redeem" /\ pc'[r] = "commit" /\ order[r] # NoRow
        BY <4>1, <4>2, Moves, InFlightFacts DEF CarriesCredit, PlaceControl
      <4> QED BY <2>1, <2>3, <3>2, <4>1, <4>2, <4>3
              DEF RecordRedemption, CarriesCredit, Owner
    <3>4. CASE writer[u] # r /\ (PrivateStep(r) \/ UpdateStock(r) \/ InsertCoupon(r))
      <4>1. CASE PrivateStep(r)
        BY <2>3, <3>4, <4>1, PrivateRows
      <4>2. CASE UpdateStock(r) \/ InsertCoupon(r)
        <5>1. PICK k \in Product \cup Coupon : \E v : Put(r, k, v)
          BY <4>2, WrittenKeys DEF UpdateStock, InsertCoupon
        <5>2. writer'[u] = writer[u]
          BY <2>1, <5>1, CheckoutAssumption DEF Put, IInv, TypeOK
        <5> QED BY <2>3, <3>4, <5>2
      <4> QED BY <3>4, <4>1, <4>2
    <3>5. CASE SaveCredit(r)
      <4>1. /\ job[r].op \in {"place", "grant"} /\ pc[r] = "save"
            /\ pc'[r] \in {"redeem", "commit"} /\ (job[r].op = "grant" => pc'[r] = "commit")
            /\ mem' = mem /\ order' = order
        BY <3>5, Moves DEF SaveCredit, AfterCredit
      <4>2. job[r].op = "place" => order[r] # NoRow
        BY <4>1, InFlightFacts DEF PlaceControl
      <4>3. Put(r, Owner(r), mem[r].balance) /\ Owner(r) \in User \cap Key
        BY <3>5, WrittenKeys DEF SaveCredit
      <4>4. u = Owner(r)
        <5>1. writer[u] # r
          BY <2>1, <4>1 DEF CreditHeld
        <5> QED BY <2>1, <2>3, <4>3, <5>1 DEF Put, IInv, TypeOK
      <4>5. latest'[u] = mem[r].balance
        BY <2>1, <4>3, <4>4 DEF Put, IInv, TypeOK, IsTable
      <4> QED BY <2>3, <3>2, <4>1, <4>2, <4>4, <4>5 DEF CarriesCredit, Owner
    <3> QED BY <1>2, <3>1, <3>3, <3>4, <3>5
  <2> QED BY <2>2, <2>3
<1>3. CASE UNCHANGED vars
  BY <1>3 DEF vars, CreditHeld, CarriesCredit, Owner, InFlight
<1> QED BY <1>1, <1>2, <1>3, StepCases

\* A copy stays good as long as nobody whom its holder has met commits.
LEMMA CreditCopiesOthers ==
  ASSUME IInv, OrdersInv, MetInv, CreditHeld, CreditCopies,
         NEW r \in InFlight,
         \/ PrivateStep(r) \/ UpdateStock(r) \/ SaveCredit(r) \/ InsertCoupon(r)
         \/ Commit(r) \/ Rollback(r),
         NEW q \in Request \ {r}, CarriesCredit(q)',
         met'[q] \cap CreditWriters(Owner(q))' = {}
  PROVE  CreditCopy(q)'
<1>1. /\ pc'[q] = pc[q] /\ job'[q] = job[q] /\ mem'[q] = mem[q] /\ order'[q] = order[q]
      /\ r \in Request /\ met' = met
  BY OthersKeepMemory, StaysInFlight DEF InFlight, Commit, Rollback
<1>2. /\ CarriesCredit(q) /\ q \in InFlight /\ Owner(q)' = Owner(q) /\ Delta(q)' = Delta(q)
      /\ job[q].op \in {"place", "grant"}
  BY <1>1 DEF CarriesCredit, InFlight, Owner, Delta, Total
<1>3. PICK u \in User \cap Key : u = Owner(q)
  BY <1>2, DeltaType
<1>4. met'[q] \cap CreditWriters(u)' = {}
  <2>1. CreditWriters(Owner(q))' = CreditWriters(u)'
    BY <1>2, <1>3 DEF CreditWriters, GrantsTo, OrdersOf
  <2> QED BY <2>1
<1>5. CreditWriters(u) \subseteq CreditWriters(u)'
  <2>1. CASE Commit(r)
    BY <1>3, <2>1, BooksAtCommit
  <2>2. CASE ~Commit(r)
    <3>1. \A p \in Request :
            /\ Committed(p)' <=> Committed(p)
            /\ Committed(p) => job'[p] = job[p] /\ order'[p] = order[p] /\ met'[p] = met[p]
      <4>1. ~Committed(r)
        BY DEF Committed, InFlight, Final
      <4>2. ~Committed(r)'
        BY <1>1, <2>2, StaysInFlight DEF Committed, Rollback, Goto, IInv, TypeOK, Final
      <4> QED BY <1>1, <4>1, <4>2, OthersKeepMemory DEF Committed
    <3> QED BY <1>3, <3>1, SameBooks
  <2> QED BY <2>1, <2>2
<1>6. CreditCopy(q)
  BY <1>1, <1>2, <1>3, <1>4, <1>5 DEF CreditCopies
<1>7. row'[u] = row[u]
  <2>1. CASE Commit(r)
    <3>1. ASSUME writer[u] = r PROVE FALSE
      <4>1. CarriesCredit(r) /\ Owner(r) = u
        BY <1>1, <1>3, <3>1 DEF CreditHeld
      <4>2. r \in CreditWriters(u)'
        BY <1>3, <2>1, <4>1, BooksAtCommit
      <4>3. r \in met[q]
        BY <1>1, <1>2 DEF MetInv
      <4> QED BY <1>1, <1>4, <4>2, <4>3
    <3> QED BY <1>3, <2>1, <3>1 DEF Commit, Publish, Visible
  <2>2. CASE ~Commit(r)
    BY <2>2, PrivateRows
       DEF UpdateStock, SaveCredit, InsertCoupon, Rollback, Put, Discard
  <2> QED BY <2>1, <2>2
<1>8. writer[u] = q => writer'[u] = q
  <2>1. CASE PrivateStep(r)
    BY <2>1, PrivateRows
  <2>2. CASE UpdateStock(r) \/ InsertCoupon(r)
    <3>1. PICK k \in Product \cup Coupon : \E v : Put(r, k, v)
      BY <2>2, WrittenKeys DEF UpdateStock, InsertCoupon
    <3> QED BY <1>3, <3>1, CheckoutAssumption DEF Put, IInv, TypeOK
  <2>3. CASE SaveCredit(r)
    <3>1. Lockable(r, Owner(r)) /\ \E v : Put(r, Owner(r), v)
      BY <2>3 DEF SaveCredit
    <3> QED BY <1>3, <3>1, NobodyAssumption DEF Lockable, Put, IInv, TypeOK
  <2>4. CASE Commit(r) \/ Rollback(r)
    BY <1>3, <2>4 DEF Commit, Rollback, Publish, Discard, Unlocked
  <2> QED BY <2>1, <2>2, <2>3, <2>4
<1> QED BY <1>1, <1>2, <1>3, <1>6, <1>7, <1>8 DEF CreditCopy

\* What the request itself reads and saves.
LEMMA CreditCopiesLocal ==
  ASSUME IInv, OrdersInv, CreditHeld, CreditCopies,
         NEW r \in InFlight,
         PrivateStep(r) \/ UpdateStock(r) \/ SaveCredit(r) \/ InsertCoupon(r),
         CarriesCredit(r)',
         met[r] \cap CreditWriters(Owner(r)) = {}
  PROVE  CreditCopy(r)'
<1> DEFINE u == Owner(r)
<1>1. job' = job /\ r \in Request /\ mem[r] \in Memory /\ Owner(r)' = u
  BY StaysInFlight, InFlightFacts DEF Owner
<1>2. job[r].op \in {"place", "grant"} /\ pc'[r] # "credit"
  BY <1>1 DEF CarriesCredit
<1>3. /\ u \in User \cap Key /\ row' = row
      /\ writer[u] = r => pc[r] \in {"redeem", "commit"}
  BY <1>1, <1>2, DeltaType, PrivateRows
     DEF UpdateStock, SaveCredit, InsertCoupon, Put, CreditHeld
<1>4. CASE ReadCredit(r) \/ ReadForGrant(r)
  <2>1. /\ pc[r] \in {"credit", "grant"} /\ pc'[r] \in {"stock", "fresh"}
    BY <1>4, Moves
  <2>2. Visible(r, u) = row[u] /\ Funds(r) = Balance(row[u])
    BY <1>3, <2>1 DEF Visible, Funds, Balance
  <2>3. mem'[r].balance = Funds(r) + Delta(r)
    <3>1. CASE ReadCredit(r)
      <4>1. mem'[r] = [mem[r] EXCEPT !.balance = Funds(r) - Total(r)]
            /\ job[r].op = "place"
        BY <1>1, <3>1, Moves DEF ReadCredit, IInv, TypeOK
      <4>2. mem'[r].balance = Funds(r) - Total(r)
        BY <1>1, <4>1 DEF Memory
      <4>3. Funds(r) \in Int /\ Total(r) \in Int
        BY <1>2, CreditTypes, DeltaType
      <4> QED BY <4>1, <4>2, <4>3 DEF Delta
    <3>2. CASE ReadForGrant(r)
      <4>1. mem'[r] = [mem[r] EXCEPT !.balance = Funds(r) + job[r].amount]
            /\ job[r].op = "grant"
        BY <1>1, <3>2, Moves DEF ReadForGrant, IInv, TypeOK
      <4>2. mem'[r].balance = Funds(r) + job[r].amount
        BY <1>1, <4>1 DEF Memory
      <4> QED BY <4>1, <4>2 DEF Delta
    <3> QED BY <1>4, <3>1, <3>2
  <2>4. Delta(r)' = Delta(r)
    <3>1. mem'[r].subtotal = mem[r].subtotal /\ mem'[r].percent = mem[r].percent
      BY <1>4, <2>1, KeptMemory, Moves
    <3> QED BY <1>1, <3>1 DEF Delta, Total
  <2> QED BY <1>1, <1>3, <2>1, <2>2, <2>3, <2>4 DEF CreditCopy
<1>5. CASE ~(ReadCredit(r) \/ ReadForGrant(r))
  <2>1. /\ CarriesCredit(r) /\ ~ReadLine(r) /\ ~ReadCoupon(r)
        /\ SelectForStock(r) \/ UpdateStock(r) \/ InsertOrder(r) \/ SelectForCredit(r)
           \/ SaveCredit(r) \/ RecordRedemption(r)
    <3>1. \/ SelectForStock(r) \/ UpdateStock(r) \/ InsertOrder(r) \/ SelectForCredit(r)
          \/ SaveCredit(r) \/ RecordRedemption(r)
      BY <1>1, <1>2, <1>5, Moves DEF PrivateStep, CarriesCredit
    <3> QED BY <1>2, <3>1, Moves DEF CarriesCredit
  <2>2. /\ mem'[r].balance = mem[r].balance /\ mem'[r].subtotal = mem[r].subtotal
        /\ mem'[r].percent = mem[r].percent
    BY <1>5, <2>1, KeptMemory
  <2>3. CreditCopy(r) /\ Delta(r)' = Delta(r)
    BY <1>1, <2>1, <2>2 DEF CreditCopies, Delta, Total
  <2>4. ASSUME pc'[r] \in {"redeem", "commit"}, writer'[u] # r
        PROVE  row[u] = mem[r].balance
    <3>1. CASE SelectForCredit(r)
      <4>1. pc[r] = "fresh" /\ Visible(r, u) = row[u]
        BY <1>3, <3>1 DEF SelectForCredit, Visible
      <4>2. Visible(r, u) = mem[r].balance
        BY <1>1, <2>4, <3>1 DEF SelectForCredit, Goto, IInv, TypeOK
      <4> QED BY <4>1, <4>2
    <3>2. CASE SaveCredit(r)
      BY <1>3, <2>4, <3>2 DEF SaveCredit, Put, IInv, TypeOK
    <3>3. CASE RecordRedemption(r)
      <4>1. pc[r] = "redeem" /\ writer' = writer
        BY <3>3 DEF RecordRedemption
      <4> QED BY <2>3, <2>4, <4>1 DEF CreditCopy
    <3>4. CASE SelectForStock(r) \/ UpdateStock(r) \/ InsertOrder(r)
      <4>1. job[r].op = "place"
        BY <1>2, <3>4, Moves
      <4> QED BY <2>4, <3>4, <4>1, Moves DEF AfterStock
    <3> QED BY <2>1, <3>1, <3>2, <3>3, <3>4
  <2> QED BY <1>1, <1>3, <2>2, <2>3, <2>4 DEF CreditCopy
<1> QED BY <1>4, <1>5

LEMMA CreditCopiesStep ==
  ASSUME IInv, OrdersInv, MetInv, CreditHeld, CreditCopies, [Next]_vars
  PROVE  CreditCopies'
<1>1. ASSUME NEW r \in Request, Begin(r)
      PROVE  CreditCopies'
  <2> SUFFICES ASSUME NEW q \in Request, CarriesCredit(q)',
                      met'[q] \cap CreditWriters(Owner(q))' = {}
               PROVE  CreditCopy(q)'
    BY DEF CreditCopies
  <2>1. /\ pc[r] = "idle" /\ UNCHANGED <<row, latest, writer, mem, order>>
        /\ pc'[r] \in {"lines", "grant", "patch", "apply", "lookup", "commit", "rolledback"}
        /\ \A p \in Request \ {r} : pc'[p] = pc[p] /\ job'[p] = job[p]
        /\ \A p \in Request : met[p] \subseteq met'[p] \/ p = r
    BY <1>1, JobTypes DEF Begin, Goto, Entry, Meet, IInv, TypeOK
  <2>2. q # r
    <3>1. order[r] = NoRow
      BY <2>1 DEF OrdersInv, OrderedFrom
    <3>2. pc'[r] = "commit" => job'[r].op = "place"
      BY <1>1, JobTypes DEF Begin, Goto, Entry, Replayed, IInv, TypeOK
    <3> QED BY <2>1, <3>1, <3>2 DEF CarriesCredit
  <2>3. CarriesCredit(q) /\ Owner(q)' = Owner(q) /\ Delta(q)' = Delta(q)
    BY <2>1, <2>2 DEF CarriesCredit, InFlight, Owner, Delta, Total
  <2>4. PICK u \in User : u = Owner(q)
    BY <2>3, DeltaType DEF CarriesCredit
  <2>5. CreditWriters(u)' = CreditWriters(u)
    BY <1>1, CommittedStay, SameBooks
  <2>6. met[q] \cap CreditWriters(Owner(q)) = {}
    <3>1. CreditWriters(Owner(q))' = CreditWriters(u)'
      BY <2>3, <2>4 DEF CreditWriters, GrantsTo, OrdersOf
    <3> QED BY <2>1, <2>2, <2>4, <2>5, <3>1
  <2> QED BY <2>1, <2>2, <2>3, <2>6 DEF CreditCopies, CreditCopy
<1>2. ASSUME NEW r \in InFlight,
             \/ PrivateStep(r) \/ UpdateStock(r) \/ SaveCredit(r) \/ InsertCoupon(r)
             \/ Commit(r) \/ Rollback(r)
      PROVE  CreditCopies'
  <2> SUFFICES ASSUME NEW q \in Request, CarriesCredit(q)',
                      met'[q] \cap CreditWriters(Owner(q))' = {}
               PROVE  CreditCopy(q)'
    BY DEF CreditCopies
  <2>1. CASE q # r
    BY <1>2, <2>1, CreditCopiesOthers
  <2>2. CASE q = r
    <3>1. ~(Commit(r) \/ Rollback(r))
      BY <2>2 DEF CarriesCredit, Commit, Rollback, Goto, InFlight, Final, IInv, TypeOK
    <3>2. job' = job /\ met' = met /\ r \in Request
      BY <1>2, <3>1, StaysInFlight, InFlightFacts
    <3>3. PICK u \in User : u = Owner(r) /\ Owner(r)' = u
      BY <2>2, <3>2, DeltaType DEF CarriesCredit, Owner
    <3>4. CreditWriters(u)' = CreditWriters(u)
      BY <1>2, <3>1, <3>2, CommittedStay, SameBooks
    <3>5. met[r] \cap CreditWriters(Owner(r)) = {}
      <4>1. CreditWriters(Owner(r))' = CreditWriters(u)'
        BY <3>3 DEF CreditWriters, GrantsTo, OrdersOf
      <4> QED BY <2>2, <3>2, <3>3, <3>4, <4>1
    <3> QED BY <1>2, <2>2, <3>1, <3>5, CreditCopiesLocal
  <2> QED BY <2>1, <2>2
<1>3. CASE UNCHANGED vars
  <2>1. \A u \in User : CreditWriters(u)' = CreditWriters(u)
    BY <1>3, SameBooks DEF vars, Committed
  <2> QED BY <1>3, <2>1 DEF vars, CreditCopies, CreditCopy, CarriesCredit, InFlight,
        Owner, Delta, Total, CreditWriters, GrantsTo, OrdersOf, Orders, OrderVisible, Committed
<1> QED BY <1>1, <1>2, <1>3, StepCases

LEMMA CreditAddsUpStep ==
  ASSUME IInv, OrdersInv, CreditInv, [Next]_vars
  PROVE  CreditAddsUpWhenApart'
<1> SUFFICES ASSUME NEW u \in User, Apart(CreditWriters(u))'
             PROVE  CreditAddsUp(u)'
  BY DEF CreditAddsUpWhenApart, CreditWriters
<1>1. ASSUME row' = row,
             \A q \in Request :
               /\ Committed(q)' <=> Committed(q)
               /\ Committed(q) => job'[q] = job[q] /\ order'[q] = order[q] /\ met'[q] = met[q]
      PROVE  CreditAddsUp(u)'
  <2>1. /\ Apart(CreditWriters(u)) /\ Granted(u)' = Granted(u) /\ Charged(u)' = Charged(u)
    BY <1>1, SameBooks
  <2> QED BY <1>1, <2>1
          DEF CreditInv, CreditAddsUpWhenApart, CreditAddsUp, CreditWriters
<1>2. ASSUME NEW r \in InFlight, Commit(r)
      PROVE  CreditAddsUp(u)'
  <2>1. /\ r \in Request /\ pc[r] = "commit" /\ met' = met /\ u \in Key
        /\ row' = [k \in Key |-> Visible(r, k)]
    BY <1>2, CheckoutAssumption DEF Commit, Publish, InFlight
  <2>2. Granted(u) \in Int /\ Charged(u) \in Int
    BY CreditSums
  <2>3. CASE CarriesCredit(r) /\ Owner(r) = u
    <3>1. /\ CreditWriters(u)' = CreditWriters(u) \cup {r}
          /\ Granted(u)' - Charged(u)' = Granted(u) - Charged(u) + Delta(r)
          /\ Granted(u)' \in Int /\ Charged(u)' \in Int
      BY <1>2, <2>3, BooksAtCommit
    <3>2. Apart(CreditWriters(u)) /\ met[r] \cap CreditWriters(u) = {}
      BY <2>1, <3>1 DEF Apart
    <3>3. CreditAddsUp(u) /\ CreditCopy(r)
      BY <2>1, <2>3, <3>2
         DEF CreditInv, CreditAddsUpWhenApart, CreditCopies, CreditWriters
    <3>4. row'[u] = mem[r].balance
      <4>1. CASE writer[u] = r
        BY <2>1, <4>1 DEF CreditInv, CreditHeld, Visible
      <4>2. CASE writer[u] # r
        BY <2>1, <2>3, <3>3, <4>2 DEF CreditCopy, Visible
      <4> QED BY <4>1, <4>2
    <3>5. mem[r].balance \in Int /\ NoRow \notin Int /\ Delta(r) \in Int
      BY <2>3, InFlightFacts, DeltaType, CheckoutAssumption DEF CarriesCredit, Memory
    <3>6. Balance(row'[u]) = mem[r].balance
      BY <3>4, <3>5 DEF Balance
    <3>7. /\ Balance(row'[u]) = Balance(row[u]) + Delta(r)
          /\ Balance(row[u]) = Balance(InitialRow[u]) + Granted(u) - Charged(u)
      BY <2>3, <3>3, <3>6 DEF CreditCopy, CreditAddsUp
    <3>8. Balance(InitialRow[u]) \in Int
      BY <2>1, CheckoutAssumption DEF RowOK, CreditRow, Balance
    <3>9. CreditAddsUp(u)' <=>
             Balance(row'[u]) = Balance(InitialRow[u]) + Granted(u)' - Charged(u)'
      BY DEF CreditAddsUp, Balance
    <3> QED BY <2>2, <3>1, <3>5, <3>7, <3>8, <3>9
  <2>4. CASE ~(CarriesCredit(r) /\ Owner(r) = u)
    <3>1. /\ CreditWriters(u)' = CreditWriters(u)
          /\ Granted(u)' = Granted(u) /\ Charged(u)' = Charged(u)
      BY <1>2, <2>4, BooksAtCommit
    <3>2. writer[u] # r
      BY <2>1, <2>4 DEF CreditInv, CreditHeld
    <3>3. row'[u] = row[u]
      BY <2>1, <3>2 DEF Visible
    <3>4. Apart(CreditWriters(u))
      BY <2>1, <3>1 DEF Apart
    <3> QED BY <3>1, <3>3, <3>4
            DEF CreditInv, CreditAddsUpWhenApart, CreditAddsUp, CreditWriters, Balance
  <2> QED BY <2>3, <2>4
<1>3. CASE UNCHANGED vars
  BY <1>1, <1>3 DEF vars, Committed
<1> QED BY <1>1, <1>2, <1>3, CommittedStay, StepCases

LEMMA CreditInit == Init => CreditInv
<1> SUFFICES ASSUME Init PROVE CreditInv
  OBVIOUS
<1>1. CreditHeld /\ CreditCopies
  BY NobodyAssumption, CheckoutAssumption
     DEF Init, DatabaseInit, CreditHeld, CreditCopies, CarriesCredit, InFlight
<1>2. CreditAddsUpWhenApart
  <2> SUFFICES ASSUME NEW u \in User PROVE CreditAddsUp(u)
    BY DEF CreditAddsUpWhenApart
  <2>1. GrantsTo(u) = {} /\ OrdersOf(u) = {}
    BY DEF Init, GrantsTo, OrdersOf, Orders, OrderVisible, Committed
  <2>2. Granted(u) = 0 /\ Charged(u) = 0
    BY <2>1, SumOfNone DEF Granted, Charged
  <2>3. Balance(InitialRow[u]) \in Int
    BY CheckoutAssumption DEF RowOK, CreditRow, Balance
  <2> QED BY <2>2, <2>3 DEF CreditAddsUp, Init, DatabaseInit
<1> QED BY <1>1, <1>2 DEF CreditInv

\* If the requests that wrote a balance were served one after the other, it is
\* what was granted less what was charged: no grant or charge is lost.
THEOREM CreditAddsUpApart == Spec => []CreditAddsUpWhenApart
<1> DEFINE Inv == IInv /\ MetInv /\ OrdersInv /\ CreditInv
<1>1. Init => Inv
  BY InitInv, OrdersInit, CreditInit DEF Init, MetInv, InFlight
<1>2. Inv /\ [Next]_vars => Inv'
  BY NextInv, MetStep, OrdersStep, CreditHeldStep, CreditCopiesStep, CreditAddsUpStep
     DEF CreditInv
<1>3. Inv => CreditAddsUpWhenApart
  BY DEF CreditInv
<1> QED BY <1>1, <1>2, <1>3, PTL DEF Spec

-----------------------------------------------------------------------------
(***************************************************************************)
(* Credit when requests overlap: what is saved may rest on an old balance, *)
(* but on one that was in the range, and the range only gets wider.        *)
(***************************************************************************)
InRange(v, u) ==
  /\ v >= Balance(InitialRow[u]) - Charged(u)
  /\ v <= Balance(InitialRow[u]) + Granted(u)

RangeInv ==
  /\ \A r \in Request :
       CarriesCredit(r) => InRange(mem[r].balance - Delta(r), Owner(r))
  /\ \A u \in User : InRange(Balance(row[u]), u)

LEMMA SameGrants ==
  ASSUME NEW r \in Request,
         \/ Begin(r)
         \/ /\ r \in InFlight
            /\ \/ PrivateStep(r) \/ UpdateStock(r) \/ SaveCredit(r) \/ InsertCoupon(r)
               \/ Rollback(r),
         IInv, NEW u \in User
  PROVE  row' = row /\ Granted(u)' = Granted(u) /\ Charged(u)' = Charged(u)
<1>1. /\ row' = row
      /\ \A q \in Request :
           /\ Committed(q)' <=> Committed(q)
           /\ Committed(q) => job'[q] = job[q] /\ order'[q] = order[q] /\ met'[q] = met[q]
  BY CommittedStay
<1> QED BY <1>1, SameBooks

\* A commit adds to what is granted or to what is charged.
LEMMA RangeAtCommit ==
  ASSUME IInv, OrdersInv, NEW r \in InFlight, Commit(r), NEW u \in User
  PROVE  /\ Granted(u) \in Int /\ Charged(u) \in Int
         /\ Granted(u)' \in Int /\ Charged(u)' \in Int
         /\ Granted(u)' >= Granted(u) /\ Charged(u)' >= Charged(u)
         /\ CarriesCredit(r) /\ Owner(r) = u =>
              /\ Charged(u)' >= Charged(u) - Delta(r)
              /\ Granted(u)' >= Granted(u) + Delta(r)
<1>1. Granted(u) \in Int /\ Charged(u) \in Int
  BY CreditSums
<1>2. CASE CarriesCredit(r) /\ Owner(r) = u
  <2>1. /\ Delta(r) \in Int
        /\ job[r].op = "grant" => Delta(r) > 0
        /\ job[r].op = "place" => Delta(r) <= 0
        /\ job[r].op \in {"place", "grant"}
    BY <1>2, CreditTypes, InFlightFacts DEF CarriesCredit, Delta, GrantJob
  <2>2. \/ /\ job[r].op = "grant"
           /\ Granted(u)' = Granted(u) + Delta(r) /\ Charged(u)' = Charged(u)
        \/ /\ job[r].op = "place"
           /\ Granted(u)' = Granted(u) /\ Charged(u)' = Charged(u) - Delta(r)
    BY <1>2, BooksAtCommit
  <2> QED BY <1>1, <2>1, <2>2
<1>3. CASE ~(CarriesCredit(r) /\ Owner(r) = u)
  BY <1>1, <1>3, BooksAtCommit
<1> QED BY <1>2, <1>3

\* The range never gets narrower.
LEMMA RangeWidens ==
  ASSUME IInv, OrdersInv, [Next]_vars, NEW u \in User, NEW v \in Int, InRange(v, u)
  PROVE  InRange(v, u)'
<1>1. /\ Granted(u) \in Int /\ Charged(u) \in Int /\ Balance(InitialRow[u]) \in Int
  BY CreditSums, CheckoutAssumption DEF RowOK, CreditRow, Balance
<1>2. /\ Granted(u)' \in Int /\ Charged(u)' \in Int
      /\ Granted(u)' >= Granted(u) /\ Charged(u)' >= Charged(u)
  <2>1. CASE UNCHANGED vars
    BY <1>1, <2>1, SameBooks DEF vars, Committed
  <2>2. ASSUME NEW r \in InFlight, Commit(r)
        PROVE  /\ Granted(u)' \in Int /\ Charged(u)' \in Int
               /\ Granted(u)' >= Granted(u) /\ Charged(u)' >= Charged(u)
    BY <2>2, RangeAtCommit
  <2> QED BY <1>1, <2>1, <2>2, SameGrants, StepCases
<1> QED BY <1>1, <1>2 DEF InRange

\* Where the balance that a request is to save comes from.
LEMMA CreditCarried ==
  ASSUME IInv, OrdersInv, CreditHeld, [Next]_vars,
         NEW q \in Request, CarriesCredit(q)'
  PROVE  /\ q \in InFlight /\ job[q].op \in {"place", "grant"}
         /\ Owner(q)' = Owner(q) /\ Delta(q)' = Delta(q)
         /\ \/ CarriesCredit(q) /\ mem'[q].balance = mem[q].balance
            \/ mem'[q].balance = Balance(row[Owner(q)]) + Delta(q)
<1>1. ASSUME NEW r \in Request, Begin(r)
      PROVE  CarriesCredit(q) /\ job'[q] = job[q] /\ mem'[q] = mem[q]
  <2>1. /\ pc[r] = "idle" /\ mem' = mem /\ order' = order
        /\ pc'[r] \in {"lines", "grant", "patch", "apply", "lookup", "commit", "rolledback"}
        /\ \A p \in Request \ {r} : pc'[p] = pc[p] /\ job'[p] = job[p]
    BY <1>1, JobTypes DEF Begin, Goto, Entry, IInv, TypeOK
  <2>2. q # r
    <3>1. order[r] = NoRow
      BY <2>1 DEF OrdersInv, OrderedFrom
    <3>2. pc'[r] = "commit" => job'[r].op = "place"
      BY <1>1, JobTypes DEF Begin, Goto, Entry, Replayed, IInv, TypeOK
    <3> QED BY <2>1, <3>1, <3>2 DEF CarriesCredit
  <2> QED BY <2>1, <2>2 DEF CarriesCredit, InFlight
<1>2. ASSUME NEW r \in InFlight,
             \/ PrivateStep(r) \/ UpdateStock(r) \/ SaveCredit(r) \/ InsertCoupon(r)
             \/ Commit(r) \/ Rollback(r),
             q # r
      PROVE  CarriesCredit(q) /\ job'[q] = job[q] /\ mem'[q] = mem[q]
  BY <1>2, OthersKeepMemory DEF CarriesCredit, InFlight
<1>3. ASSUME q \in InFlight,
             \/ PrivateStep(q) \/ UpdateStock(q) \/ SaveCredit(q) \/ InsertCoupon(q)
             \/ Commit(q) \/ Rollback(q)
      PROVE  /\ job[q].op \in {"place", "grant"} /\ job'[q] = job[q]
             /\ Delta(q)' = Delta(q)
             /\ \/ CarriesCredit(q) /\ mem'[q].balance = mem[q].balance
                \/ mem'[q].balance = Balance(row[Owner(q)]) + Delta(q)
  <2>1. ~(Commit(q) \/ Rollback(q))
    BY DEF CarriesCredit, Commit, Rollback, Goto, InFlight, Final, IInv, TypeOK
  <2>2. job' = job /\ mem[q] \in Memory /\ job[q].op \in {"place", "grant"}
        /\ pc'[q] # "credit"
    <3>1. job' = job /\ mem[q] \in Memory
      BY <1>3, <2>1, StaysInFlight, InFlightFacts
    <3> QED BY <3>1 DEF CarriesCredit
  <2>3. Owner(q) \in User \cap Key /\ Delta(q) \in Int /\ Funds(q) \in Int
    BY <1>3, <2>2, CreditTypes, DeltaType
  <2>4. CASE ReadCredit(q) \/ ReadForGrant(q)
    <3>1. pc[q] \in {"credit", "grant"}
      BY <1>3, <2>4, Moves
    <3>2. Funds(q) = Balance(row[Owner(q)])
      BY <2>3, <3>1 DEF CreditHeld, Visible, Funds, Balance
    <3>3. mem'[q].balance = Funds(q) + Delta(q)
      <4>1. CASE ReadCredit(q)
        <5>1. mem'[q] = [mem[q] EXCEPT !.balance = Funds(q) - Total(q)]
              /\ job[q].op = "place"
          BY <1>3, <4>1, Moves DEF ReadCredit, IInv, TypeOK
        <5>2. mem'[q].balance = Funds(q) - Total(q)
          BY <2>2, <5>1 DEF Memory
        <5>3. Total(q) \in Int
          BY <1>3, <2>2, DeltaType
        <5> QED BY <2>3, <5>1, <5>2, <5>3 DEF Delta
      <4>2. CASE ReadForGrant(q)
        <5>1. mem'[q] = [mem[q] EXCEPT !.balance = Funds(q) + job[q].amount]
              /\ job[q].op = "grant"
          BY <1>3, <4>2, Moves DEF ReadForGrant, IInv, TypeOK
        <5>2. mem'[q].balance = Funds(q) + job[q].amount
          BY <2>2, <5>1 DEF Memory
        <5> QED BY <5>1, <5>2 DEF Delta
      <4> QED BY <2>4, <4>1, <4>2
    <3>4. mem'[q].subtotal = mem[q].subtotal /\ mem'[q].percent = mem[q].percent
      BY <1>3, <2>1, <2>4, <3>1, KeptMemory, Moves
    <3>5. Delta(q)' = Delta(q)
      BY <2>2, <3>4 DEF Delta, Total
    <3> QED BY <2>2, <3>2, <3>3, <3>5
  <2>5. CASE ~(ReadCredit(q) \/ ReadForGrant(q))
    <3>1. \/ SelectForStock(q) \/ UpdateStock(q) \/ InsertOrder(q) \/ SelectForCredit(q)
          \/ SaveCredit(q) \/ RecordRedemption(q)
      BY <1>3, <2>1, <2>2, <2>5, Moves DEF PrivateStep, CarriesCredit
    <3>2. CarriesCredit(q) /\ ~ReadLine(q) /\ ~ReadCoupon(q)
      BY <1>3, <2>2, <3>1, Moves DEF CarriesCredit
    <3>3. /\ mem'[q].balance = mem[q].balance /\ mem'[q].subtotal = mem[q].subtotal
          /\ mem'[q].percent = mem[q].percent
      BY <1>3, <2>1, <2>5, <3>2, KeptMemory
    <3> QED BY <2>2, <3>2, <3>3 DEF Delta, Total
  <2> QED BY <2>4, <2>5
<1>4. CASE UNCHANGED vars
  BY <1>4 DEF vars, CarriesCredit, InFlight, Owner, Delta, Total
<1>5. ASSUME CarriesCredit(q), job'[q] = job[q], mem'[q] = mem[q]
      PROVE  /\ q \in InFlight /\ job[q].op \in {"place", "grant"}
             /\ Owner(q)' = Owner(q) /\ Delta(q)' = Delta(q)
             /\ mem'[q].balance = mem[q].balance
  BY <1>5 DEF CarriesCredit, Owner, Delta, Total
<1>6. ASSUME q \in InFlight, job'[q] = job[q] PROVE Owner(q)' = Owner(q)
  BY <1>6 DEF Owner
<1> QED BY <1>1, <1>2, <1>3, <1>4, <1>5, <1>6, StepCases

LEMMA RangeStep ==
  ASSUME IInv, OrdersInv, CreditHeld, RangeInv, [Next]_vars
  PROVE  RangeInv'
<1>1. ASSUME NEW r \in Request, CarriesCredit(r)'
      PROVE  InRange(mem[r].balance - Delta(r), Owner(r))'
  <2>1. /\ r \in InFlight /\ job[r].op \in {"place", "grant"}
        /\ Owner(r)' = Owner(r) /\ Delta(r)' = Delta(r)
        /\ \/ CarriesCredit(r) /\ mem'[r].balance = mem[r].balance
           \/ mem'[r].balance = Balance(row[Owner(r)]) + Delta(r)
    BY <1>1, CreditCarried
  <2>2. PICK u \in User \cap Key : u = Owner(r)
    BY <2>1, DeltaType
  <2>3. /\ mem[r].balance \in Int /\ Delta(r) \in Int /\ Balance(row[u]) \in Int
    <3>1. row[u] \in CreditRow \cup {NoRow}
      BY <2>2 DEF RowOK, IInv, TypeOK
    <3>2. mem[r] \in Memory /\ Delta(r) \in Int
      BY <2>1, InFlightFacts, DeltaType
    <3> QED BY <3>1, <3>2 DEF Memory, CreditRow, Balance
  <2>4. PICK v \in Int : v = mem'[r].balance - Delta(r) /\ InRange(v, u)
    <3>1. CASE CarriesCredit(r) /\ mem'[r].balance = mem[r].balance
      BY <2>2, <2>3, <3>1 DEF RangeInv
    <3>2. CASE mem'[r].balance = Balance(row[Owner(r)]) + Delta(r)
      BY <2>2, <2>3, <3>2 DEF RangeInv
    <3> QED BY <2>1, <3>1, <3>2
  <2>5. InRange(v, u)'
    BY <2>4, RangeWidens
  <2> QED BY <2>1, <2>2, <2>4, <2>5 DEF InRange, Charged, Granted, GrantsTo, OrdersOf
<1>2. ASSUME NEW u \in User
      PROVE  InRange(Balance(row[u]), u)'
  <2>1. u \in Key /\ row[u] \in CreditRow \cup {NoRow}
    BY CheckoutAssumption DEF RowOK, IInv, TypeOK
  <2>2. CASE row'[u] = row[u]
    <3>1. PICK v \in Int : v = Balance(row[u])
      BY <2>1 DEF CreditRow, Balance
    <3>2. InRange(v, u)'
      BY <3>1, RangeWidens DEF RangeInv
    <3> QED BY <2>2, <3>1, <3>2 DEF InRange, Balance
  <2>3. ASSUME NEW r \in InFlight, Commit(r), writer[u] = r
        PROVE  InRange(Balance(row[u]), u)'
    <3>1. CarriesCredit(r) /\ Owner(r) = u /\ latest[u] = mem[r].balance
      BY <2>3 DEF CreditHeld, InFlight
    <3>2. row'[u] = mem[r].balance
      BY <2>1, <2>3, <3>1 DEF Commit, Publish, Visible
    <3>3. mem[r].balance \in Int /\ Delta(r) \in Int /\ NoRow \notin Int
      BY <3>1, InFlightFacts, DeltaType, CheckoutAssumption DEF CarriesCredit, Memory
    <3>4. Balance(row'[u]) = mem[r].balance
      BY <3>2, <3>3 DEF Balance
    <3>5. InRange(mem[r].balance - Delta(r), u)
      BY <3>1 DEF RangeInv, CarriesCredit, InFlight
    <3>6. Balance(InitialRow[u]) \in Int
      BY <2>1, CheckoutAssumption DEF RowOK, CreditRow, Balance
    <3>7. /\ Granted(u) \in Int /\ Charged(u) \in Int
          /\ Granted(u)' \in Int /\ Charged(u)' \in Int
          /\ Granted(u)' >= Granted(u) /\ Charged(u)' >= Charged(u)
          /\ Charged(u)' >= Charged(u) - Delta(r) /\ Granted(u)' >= Granted(u) + Delta(r)
      BY <2>3, <3>1, RangeAtCommit
    <3> QED BY <3>3, <3>4, <3>5, <3>6, <3>7 DEF InRange
  <2>4. ASSUME NEW r \in InFlight, Commit(r), writer[u] # r
        PROVE  row'[u] = row[u]
    BY <2>1, <2>4 DEF Commit, Publish, Visible
  <2>5. CASE UNCHANGED vars
    BY <2>2, <2>5 DEF vars
  <2> QED BY <2>2, <2>3, <2>4, <2>5, SameGrants, StepCases
<1> QED BY <1>1, <1>2 DEF RangeInv

LEMMA RangeInit == Init => RangeInv
<1> SUFFICES ASSUME Init PROVE RangeInv
  OBVIOUS
<1>1. \A r \in Request : ~CarriesCredit(r)
  BY DEF Init, CarriesCredit, InFlight
<1>2. ASSUME NEW u \in User PROVE InRange(Balance(row[u]), u)
  <2>1. GrantsTo(u) = {} /\ OrdersOf(u) = {}
    BY DEF Init, GrantsTo, OrdersOf, Orders, OrderVisible, Committed
  <2>2. Granted(u) = 0 /\ Charged(u) = 0
    BY <2>1, SumOfNone DEF Granted, Charged
  <2>3. Balance(InitialRow[u]) \in Int
    BY CheckoutAssumption DEF RowOK, CreditRow, Balance
  <2> QED BY <2>2, <2>3 DEF InRange, Init, DatabaseInit
<1> QED BY <1>1, <1>2 DEF RangeInv

\* However requests overlap, a balance loses at most what was charged and gains
\* at most what was granted.
THEOREM CreditStaysBounded == Spec => []CreditStaysInRange
<1> DEFINE Inv == IInv /\ OrdersInv /\ CreditHeld /\ RangeInv
<1>1. Init => Inv
  BY InitInv, OrdersInit, CreditInit, RangeInit DEF CreditInv
<1>2. Inv /\ [Next]_vars => Inv'
  BY NextInv, OrdersStep, CreditHeldStep, RangeStep
<1>3. Inv => CreditStaysInRange
  BY DEF RangeInv, InRange, CreditStaysInRange
<1> QED BY <1>1, <1>2, <1>3, PTL DEF Spec

-----------------------------------------------------------------------------
(***************************************************************************)
(* Stock: a checkout copies a product, compares and decrements the copy,   *)
(* and saves it statements later; a patch does the same with a product     *)
(* whose stock it may leave alone.  As long as nobody it has met wrote the *)
(* product, a copy has the committed stock, and then what is saved adds up.*)
(***************************************************************************)
Asked(r, p) == {i \in DOMAIN job[r].lines : job[r].lines[i].product = p}

Once(r, p) == \A i, j \in Asked(r, p) : i = j

\* The loop that saves the copies has come past line i.
Decremented(r, i) ==
  \/ pc[r] \in {"stock", "update"} /\ i < mem[r].line
  \/ pc[r] \in {"order", "fresh", "save", "redeem", "commit"}

Unmet(r, p) == met[r] \cap StockWriters(p) = {}

Touches(r, p) ==
  /\ r \in InFlight
  /\ \/ /\ job[r].op = "place" /\ Asked(r, p) # {}
        /\ pc[r] \in {"stock", "update", "order", "fresh", "save", "redeem", "commit"}
        /\ pc[r] = "commit" => order[r] # NoRow
     \/ job[r].op = "patch" /\ job[r].product = p /\ pc[r] = "commit"

StockHeld == \A p \in Product : \A r \in Request : writer[p] = r => Touches(r, p)

LineCopy(r, i, p) ==
  /\ mem[r].copies[i].stock = row[p].stock
  /\ IF Decremented(r, i)
     THEN /\ writer[p] = r
          /\ latest[p].stock = row[p].stock - job[r].lines[i].quantity
     ELSE writer[p] # r
  /\ pc[r] = "update" /\ i = mem[r].line => "stock" \in mem[r].dirty

LinesOK(r) ==
  /\ pc[r] \in {"coupon", "redeemed", "credit"} => mem[r].line = 1
  /\ \A p \in Product : \A i \in DOMAIN mem[r].copies :
       job[r].lines[i].product = p =>
         /\ job[r].lines[i].quantity > 0
         /\ Once(r, p) /\ Unmet(r, p) => LineCopy(r, i, p)

LinesInv == \A r \in InFlight : job[r].op = "place" => LinesOK(r)

PatchCopy(r, p) ==
  /\ pc[r] \in {"stock", "update"} =>
       mem[r].copies[1].stock = row[p].stock /\ writer[p] # r
  /\ pc[r] = "update" => "stock" \notin mem[r].dirty
  /\ pc[r] = "commit" /\ writer[p] = r => latest[p].stock = row[p].stock

PatchesInv ==
  \A r \in InFlight : \A p \in Product :
    /\ job[r].op = "patch" /\ job[r].product = p /\ job[r].stock = NoRow
    /\ Unmet(r, p)
    => PatchCopy(r, p)

StockInv == StockHeld /\ LinesInv /\ PatchesInv /\ StockAddsUpWhenApart

LEMMA SameStockBooks ==
  ASSUME \A q \in Request :
           /\ Committed(q)' <=> Committed(q)
           /\ Committed(q) => job'[q] = job[q] /\ order'[q] = order[q] /\ met'[q] = met[q]
  PROVE  \A p \in Product :
           /\ StockWriters(p)' = StockWriters(p) /\ Sold(p)' = Sold(p)
           /\ StockSet(p)' <=> StockSet(p)
           /\ RepeatedLine(p)' <=> RepeatedLine(p)
           /\ Apart(StockWriters(p))' <=> Apart(StockWriters(p))
<1> SUFFICES ASSUME NEW p \in Product
             PROVE  /\ StockWriters(p)' = StockWriters(p) /\ Sold(p)' = Sold(p)
                    /\ StockSet(p)' <=> StockSet(p)
                    /\ RepeatedLine(p)' <=> RepeatedLine(p)
                    /\ Apart(StockWriters(p))' <=> Apart(StockWriters(p))
  OBVIOUS
<1>1. Orders' = Orders
  BY SameBooks
<1>2. \A q \in Orders : LinesOf(q, p)' = LinesOf(q, p) /\ Units(q, p)' = Units(q, p)
  BY DEF Orders, OrderVisible, LinesOf, Units
<1>3. StockWriters(p)' = StockWriters(p)
  BY <1>1, <1>2 DEF StockWriters
<1>4. \A q \in StockWriters(p) : job'[q] = job[q] /\ met'[q] = met[q]
  BY DEF StockWriters, Orders, OrderVisible
<1>5. Sold(p)' = Sold(p)
  <2>1. [q \in Orders' |-> Units(q, p)'] = [q \in Orders |-> Units(q, p)]
    BY <1>1, <1>2
  <2> QED BY <2>1 DEF Sold
<1>6. RepeatedLine(p)' <=> RepeatedLine(p)
  BY <1>1, <1>2 DEF RepeatedLine
<1> QED BY <1>3, <1>4, <1>5, <1>6 DEF StockSet, Apart

LEMMA StockSums ==
  ASSUME IInv, OrdersInv, NEW p \in Product
  PROVE  /\ IsFiniteSet(Orders) /\ Sold(p) \in Int
         /\ \A q \in Request : order[q] # NoRow => Units(q, p) \in Int
<1>1. IsFiniteSet(Orders)
  <2>1. Orders \subseteq Begun
    BY DEF Orders, OrderVisible, Committed, Begun
  <2> QED BY <2>1, FS_Subset DEF OrdersInv
<1>2. ASSUME NEW q \in Request, order[q] # NoRow
      PROVE  Units(q, p) \in Int
  <2> DEFINE f == [i \in LinesOf(q, p) |-> order[q].lines[i].quantity]
  <2>1. order[q].lines \in Seq(OrderLine)
    BY <1>2 DEF IInv, TypeOK, OrderRow
  <2>2. LinesOf(q, p) \subseteq 1..Len(order[q].lines)
    BY <2>1 DEF LinesOf
  <2>3. IsFiniteSet(1..Len(order[q].lines))
    BY <2>1, FS_Interval
  <2>4. IsFiniteSet(DOMAIN f) /\ IntOn(f, DOMAIN f)
    <3>1. IsFiniteSet(LinesOf(q, p))
      BY <2>2, <2>3, FS_Subset
    <3>2. ASSUME NEW i \in LinesOf(q, p) PROVE order[q].lines[i].quantity \in Int
      <4>1. order[q].lines[i] \in OrderLine
        BY <2>1, <2>2, <3>2
      <4> QED BY <4>1 DEF OrderLine
    <3> QED BY <3>1, <3>2 DEF IntOn
  <2> HIDE DEF f
  <2>5. SumFunction(f) \in Int
    BY <2>4, SumIsInt
  <2> QED BY <2>5 DEF Units, f
<1>3. Sold(p) \in Int
  <2> DEFINE f == [q \in Orders |-> Units(q, p)]
  <2>1. IsFiniteSet(DOMAIN f) /\ IntOn(f, DOMAIN f)
    BY <1>1, <1>2 DEF IntOn, Orders, OrderVisible
  <2> HIDE DEF f
  <2>2. SumFunction(f) \in Int
    BY <2>1, SumIsInt
  <2> QED BY <2>2 DEF Sold, f
<1> QED BY <1>1, <1>2, <1>3

\* What a commit adds to the books of a product.
LEMMA StockBooksAtCommit ==
  ASSUME IInv, OrdersInv, NEW r \in InFlight, Commit(r), NEW p \in Product
  PROVE  /\ StockWriters(p)' = StockWriters(p) \cup (IF Touches(r, p) THEN {r} ELSE {})
         /\ Orders' = Orders \cup (IF order[r] # NoRow THEN {r} ELSE {})
         /\ r \notin StockWriters(p) /\ r \notin Orders
         /\ \A q \in Request : LinesOf(q, p)' = LinesOf(q, p) /\ Units(q, p)' = Units(q, p)
         /\ order[r] # NoRow => LinesOf(r, p) = Asked(r, p)
         /\ order[r] = NoRow => Sold(p)' = Sold(p)
         /\ order[r] # NoRow => Sold(p)' = Sold(p) + Units(r, p)
<1>1. /\ r \in Request /\ pc[r] = "commit" /\ pc'[r] = "committed"
      /\ UNCHANGED <<job, order>>
      /\ \A q \in Request \ {r} : pc'[q] = pc[q]
      /\ job[r].op \in {"place", "grant", "patch", "apply", "create"}
  BY InFlightFacts DEF Commit, Goto, IInv, TypeOK
<1>2. \A q \in Request : LinesOf(q, p)' = LinesOf(q, p) /\ Units(q, p)' = Units(q, p)
  BY <1>1 DEF LinesOf, Units
<1>3. /\ Orders' = Orders \cup (IF order[r] # NoRow THEN {r} ELSE {})
      /\ r \notin StockWriters(p) /\ r \notin Orders
  BY <1>1 DEF Orders, OrderVisible, Committed, StockWriters
<1>4. order[r] # NoRow => LinesOf(r, p) = Asked(r, p) /\ job[r].op = "place"
  <2>1. order[r] # NoRow => OrderedFrom(r)
    BY <1>1 DEF OrdersInv
  <2> QED BY <2>1 DEF OrderedFrom, SameCart, LinesOf, Asked
<1>5. StockWriters(p)' = StockWriters(p) \cup (IF Touches(r, p) THEN {r} ELSE {})
  <2>1. Touches(r, p) <=> \/ order[r] # NoRow /\ LinesOf(r, p) # {}
                          \/ job[r].op = "patch" /\ job[r].product = p
    BY <1>1, <1>4 DEF Touches
  <2> QED BY <1>1, <1>2, <1>3, <2>1 DEF StockWriters, Committed
<1> DEFINE sales == [q \in Orders |-> Units(q, p)]
           salesNext == [q \in Orders' |-> Units(q, p)']
<1>6. Sold(p) = SumFunction(sales) /\ Sold(p)' = SumFunction(salesNext)
  BY DEF Sold
<1>7. ASSUME order[r] = NoRow PROVE Sold(p)' = Sold(p)
  <2>1. Orders' = Orders /\ Orders \subseteq Request
    BY <1>3, <1>7 DEF Orders
  <2>2. salesNext = sales
    BY <1>2, <2>1
  <2> QED BY <1>6, <2>2
<1>8. ASSUME order[r] # NoRow PROVE Sold(p)' = Sold(p) + Units(r, p)
  <2>1. Orders' = Orders \cup {r} /\ Orders' \subseteq Request
    BY <1>3, <1>8 DEF Orders
  <2>2. IsFiniteSet(Orders) /\ \A q \in Orders \cup {r} : Units(q, p) \in Int
    BY <1>1, <1>8, StockSums DEF Orders, OrderVisible
  <2>3. /\ DOMAIN salesNext = DOMAIN sales \cup {r} /\ r \notin DOMAIN sales
        /\ salesNext[r] = Units(r, p)
        /\ \A q \in DOMAIN sales : salesNext[q] = sales[q]
        /\ IntOn(salesNext, DOMAIN salesNext) /\ IsFiniteSet(DOMAIN sales)
    BY <1>2, <1>3, <2>1, <2>2 DEF IntOn
  <2> HIDE DEF sales, salesNext
  <2>4. SumFunction(salesNext) = SumFunction(sales) + salesNext[r]
    BY <2>3, SumExtends
  <2> QED BY <1>6, <2>3, <2>4
<1> QED BY <1>2, <1>3, <1>4, <1>5, <1>7, <1>8

LEMMA StockHeldStep ==
  ASSUME IInv, StockHeld, [Next]_vars
  PROVE  StockHeld'
<1>1. ASSUME NEW r \in Request, Begin(r)
      PROVE  StockHeld'
  <2>1. /\ r \notin InFlight /\ UNCHANGED <<writer, order>>
        /\ \A q \in Request \ {r} : pc'[q] = pc[q] /\ job'[q] = job[q]
        /\ \A q \in InFlight : q \in InFlight'
    BY <1>1 DEF Begin, Goto, InFlight, IInv, TypeOK
  <2>2. ASSUME NEW p \in Product, NEW q \in Request, writer[p] = q
        PROVE  Touches(q, p)'
    <3>1. q \in Request \ {r} /\ Touches(q, p)
      BY <2>1, <2>2 DEF StockHeld, Touches
    <3> QED BY <2>1, <3>1 DEF Touches, Asked
  <2> QED BY <2>1, <2>2 DEF StockHeld
<1>2. ASSUME NEW r \in InFlight,
             \/ PrivateStep(r) \/ UpdateStock(r) \/ SaveCredit(r) \/ InsertCoupon(r)
             \/ Commit(r) \/ Rollback(r)
      PROVE  StockHeld'
  <2> SUFFICES ASSUME NEW p \in Product, NEW q \in Request, writer'[p] = q
               PROVE  Touches(q, p)'
    BY DEF StockHeld
  <2>1. p \in Key /\ r \in Request /\ Nobody \notin Request
    BY CheckoutAssumption, NobodyAssumption DEF InFlight
  <2>2. CASE q # r
    <3>1. /\ pc'[q] = pc[q] /\ job'[q] = job[q] /\ order'[q] = order[q]
          /\ (q \in InFlight' <=> q \in InFlight)
      BY <1>2, <2>2, OthersKeepMemory DEF InFlight
    <3>2. writer[p] = q
      <4>1. CASE PrivateStep(r)
        BY <4>1, PrivateRows
      <4>2. CASE UpdateStock(r) \/ SaveCredit(r) \/ InsertCoupon(r)
        <5>1. PICK k \in Key : \E v : Put(r, k, v)
          BY <4>2, WrittenKeys DEF UpdateStock, SaveCredit, InsertCoupon
        <5> QED BY <2>1, <2>2, <5>1 DEF Put, IInv, TypeOK
      <4>3. CASE Commit(r) \/ Rollback(r)
        BY <2>1, <2>2, <4>3 DEF Commit, Rollback, Publish, Discard, Unlocked
      <4> QED BY <1>2, <4>1, <4>2, <4>3
    <3> QED BY <3>1, <3>2 DEF StockHeld, Touches, Asked
  <2>3. CASE q = r
    <3>1. PrivateStep(r) \/ UpdateStock(r) \/ SaveCredit(r) \/ InsertCoupon(r)
      BY <1>2, <2>1, <2>3 DEF Commit, Rollback, Publish, Discard, Unlocked
    <3>2. job' = job /\ r \in InFlight' /\ Asked(r, p)' = Asked(r, p)
      BY <3>1, StaysInFlight DEF Asked
    <3>3. CASE UpdateStock(r) /\ CurrentProduct(r) = p
      <4>1. pc[r] = "update" /\ pc'[r] = AfterStock(r) /\ job[r].op \in {"place", "patch"}
        BY <3>3, Moves
      <4>2. CASE job[r].op = "place"
        <5>1. mem[r].line \in Asked(r, p)
          BY <3>3, <4>1, <4>2, InFlightFacts
             DEF CurrentProduct, CartLine, Asked, PlaceControl, PlaceJob
        <5>2. pc'[r] \in {"stock", "order"}
          BY <4>1, <4>2 DEF AfterStock
        <5> QED BY <2>3, <3>2, <4>2, <5>1, <5>2 DEF Touches
      <4>3. CASE job[r].op = "patch"
        <5>1. pc'[r] = "commit"
          BY <4>1, <4>3, InFlightFacts DEF AfterStock, LastCopy
        <5> QED BY <2>3, <3>2, <3>3, <4>3, <5>1 DEF Touches, CurrentProduct
      <4> QED BY <4>1, <4>2, <4>3
    <3>4. CASE ~(UpdateStock(r) /\ CurrentProduct(r) = p)
      <4>1. writer[p] = r
        <5>1. CASE PrivateStep(r)
          BY <2>3, <5>1, PrivateRows
        <5>2. CASE UpdateStock(r) \/ SaveCredit(r) \/ InsertCoupon(r)
          <6>1. PICK k \in Key : k # p /\ \E v : Put(r, k, v)
            <7>1. CASE UpdateStock(r)
              BY <3>4, <7>1, WrittenKeys DEF UpdateStock
            <7>2. CASE SaveCredit(r)
              BY <7>2, WrittenKeys, CheckoutAssumption DEF SaveCredit
            <7>3. CASE InsertCoupon(r)
              BY <7>3, WrittenKeys, CheckoutAssumption DEF InsertCoupon
            <7> QED BY <5>2, <7>1, <7>2, <7>3
          <6> QED BY <2>1, <2>3, <6>1 DEF Put, IInv, TypeOK
        <5> QED BY <3>1, <5>1, <5>2
      <4>2. Touches(r, p)
        BY <2>3, <4>1 DEF StockHeld
      <4>3. /\ job[r].op = "place" /\ Asked(r, p) # {}
            /\ pc[r] \in {"stock", "update", "order", "fresh", "save", "redeem"}
            /\ \/ SelectForStock(r) \/ UpdateStock(r) \/ InsertOrder(r)
               \/ SelectForCredit(r) \/ SaveCredit(r) \/ RecordRedemption(r)
        BY <3>1, <4>2, Moves DEF Touches, PrivateStep
      <4>4. CASE SelectForStock(r) \/ UpdateStock(r) \/ InsertOrder(r)
        <5>1. pc'[r] \in {"stock", "update", "order", "fresh"}
          BY <4>3, <4>4, Moves DEF AfterStock
        <5> QED BY <2>3, <3>2, <4>3, <5>1 DEF Touches
      <4>5. CASE SelectForCredit(r) \/ SaveCredit(r) \/ RecordRedemption(r)
        <5>1. pc[r] \in {"fresh", "save", "redeem"} /\ pc'[r] \in {"save", "redeem", "commit"}
          BY <4>5, Moves DEF AfterCredit
        <5>2. order[r] # NoRow /\ order' = order
          BY <4>3, <4>5, <5>1, InFlightFacts
             DEF PlaceControl, SelectForCredit, SaveCredit, RecordRedemption
        <5> QED BY <2>3, <3>2, <4>3, <5>1, <5>2 DEF Touches
      <4> QED BY <4>3, <4>4, <4>5
    <3> QED BY <3>3, <3>4
  <2> QED BY <2>2, <2>3
<1>3. CASE UNCHANGED vars
  BY <1>3 DEF vars, StockHeld, Touches, Asked, InFlight
<1> QED BY <1>1, <1>2, <1>3, StepCases

\* Nobody whom q has not met changes a row, a lock or a version that q relies
\* on and commits it.
LEMMA StockBeside ==
  ASSUME IInv, OrdersInv, MetInv, StockHeld,
         NEW r \in InFlight,
         \/ PrivateStep(r) \/ UpdateStock(r) \/ SaveCredit(r) \/ InsertCoupon(r)
         \/ Commit(r) \/ Rollback(r),
         NEW q \in InFlight \ {r}, NEW p \in Product, Unmet(q, p)'
  PROVE  /\ Unmet(q, p) /\ row'[p] = row[p]
         /\ writer'[p] = q <=> writer[p] = q
         /\ writer[p] = q => latest'[p] = latest[p]
<1>1. p \in Key /\ r \in Request /\ Nobody \notin Request /\ q \in Request
  BY CheckoutAssumption, NobodyAssumption DEF InFlight
<1>2. met' = met
  BY StaysInFlight DEF Commit, Rollback
<1>3. CASE Commit(r)
  <2>1. Unmet(q, p)
    BY <1>2, <1>3, StockBooksAtCommit DEF Unmet
  <2>2. ASSUME writer[p] = r PROVE FALSE
    <3>1. r \in StockWriters(p)'
      BY <1>1, <1>3, <2>2, StockBooksAtCommit DEF StockHeld
    <3>2. r \in met[q]
      BY DEF MetInv
    <3> QED BY <1>2, <3>1, <3>2 DEF Unmet
  <2> QED BY <1>1, <1>3, <2>1, <2>2 DEF Commit, Publish, Visible, Unlocked
<1>4. CASE ~Commit(r)
  <2>1. row' = row /\ Unmet(q, p)
    BY <1>1, <1>2, <1>4, CommittedStay, SameStockBooks DEF Unmet
  <2>2. CASE PrivateStep(r)
    BY <2>1, <2>2, PrivateRows
  <2>3. CASE UpdateStock(r) \/ SaveCredit(r) \/ InsertCoupon(r)
    <3>1. PICK k \in Key : (k = p => Lockable(r, p)) /\ \E v : Put(r, k, v)
      BY <2>3, WrittenKeys DEF UpdateStock, SaveCredit, InsertCoupon
    <3> QED BY <1>1, <2>1, <3>1 DEF Put, Lockable, IInv, TypeOK
  <2>4. CASE Rollback(r)
    BY <1>1, <2>1, <2>4 DEF Rollback, Discard, Unlocked
  <2> QED BY <1>4, <2>2, <2>3, <2>4
<1> QED BY <1>3, <1>4

\* A copy of a request that does not move.
LEMMA LineBeside ==
  ASSUME NEW q, NEW i, NEW p \in Product,
         pc'[q] = pc[q], job'[q] = job[q], mem'[q] = mem[q],
         row'[p] = row[p], writer'[p] = q <=> writer[p] = q,
         writer[p] = q => latest'[p] = latest[p],
         LineCopy(q, i, p)
  PROVE  LineCopy(q, i, p)'
BY DEF LineCopy, Decremented

\* The lines of a cart whose copies were read.
LEMMA LineTypes ==
  ASSUME IInv, OrdersInv, NEW r \in InFlight, job[r].op = "place",
         NEW i \in DOMAIN mem[r].copies,
         pc[r] = "commit" => order[r] # NoRow
  PROVE  /\ mem[r].copies \in Seq(ProductRow) /\ i \in 1..Len(mem[r].copies)
         /\ mem[r].copies[i] \in ProductRow
         /\ job[r].lines[i] \in Line /\ i \in DOMAIN job[r].lines
         /\ job[r].lines[i].product \in Product \cap Key
         /\ job[r].lines[i].quantity \in Int
<1>1. /\ mem[r].copies \in Seq(ProductRow) /\ job[r].lines \in Seq(Line)
      /\ pc[r] \in Reaches("place") /\ PlaceControl(r) /\ r \in Request
  BY InFlightFacts DEF Memory, PlaceJob
<1>2. Len(mem[r].copies) <= Len(job[r].lines)
  <2>1. CASE pc[r] = "lines"
    BY <1>1, <2>1 DEF PlaceControl
  <2>2. CASE pc[r] \in {"coupon", "redeemed", "credit", "stock", "update", "order"}
    BY <1>1, <2>2 DEF PlaceControl
  <2>3. CASE pc[r] \in {"fresh", "save", "redeem", "commit"}
    <3>1. OrderedFrom(r)
      BY <1>1, <2>3 DEF OrdersInv, PlaceControl
    <3> QED BY <1>1, <3>1 DEF OrderedFrom
  <2> QED BY <1>1, <2>1, <2>2, <2>3 DEF Reaches
<1>3. i \in 1..Len(mem[r].copies) /\ i \in 1..Len(job[r].lines)
  BY <1>1, <1>2
<1>4. job[r].lines[i] \in Line /\ mem[r].copies[i] \in ProductRow
  BY <1>1, <1>3
<1> QED BY <1>1, <1>3, <1>4, CheckoutAssumption DEF Line

\* ReadLine appends a copy of the committed row.
LEMMA LinesRead ==
  ASSUME IInv, OrdersInv, StockHeld, LinesInv, NEW r \in InFlight, ReadLine(r),
         \A p \in Product : Unmet(r, p)' => Unmet(r, p)
  PROVE  LinesOK(r)'
<1> DEFINE n == mem[r].line
<1>1. /\ job' = job /\ r \in Request /\ mem[r] \in Memory /\ job[r].op = "place"
      /\ pc[r] = "lines" /\ pc'[r] \in {"lines", "coupon", "credit"}
      /\ UNCHANGED <<row, latest, writer>>
  BY StaysInFlight, InFlightFacts, Moves, PrivateRows DEF PrivateStep
<1>2. /\ CartLine(r) = job[r].lines[n] /\ CartLine(r).quantity > 0
      /\ CartLine(r).product \in Product \cap Key
      /\ Len(mem[r].copies) = n - 1 /\ n \in Nat
  BY <1>1, CartLineType, InFlightFacts
     DEF ReadLine, LineAccepted, CartLine, PlaceControl, PlaceJob, Memory
<1>3. writer[CartLine(r).product] # r
  BY <1>1, <1>2 DEF StockHeld, Touches
<1>4. /\ mem'[r].copies = Append(mem[r].copies, row[CartLine(r).product])
      /\ pc'[r] \in {"coupon", "credit"} => mem'[r].line = 1
  <2> DEFINE a == Append(mem[r].copies, row[CartLine(r).product])
             b == mem[r].subtotal + row[CartLine(r).product].price * CartLine(r).quantity
             last == n = Len(job[r].lines)
             c == IF last THEN 1 ELSE n + 1
  <2>1. mem'[r] = [mem[r] EXCEPT !.copies = a, !.subtotal = b, !.line = c]
    BY <1>1, <1>3 DEF ReadLine, Visible, IInv, TypeOK
  <2>2. ~last => pc'[r] = "lines"
    BY <1>1 DEF ReadLine, Goto, IInv, TypeOK
  <2> HIDE DEF a, b, last
  <2>3. mem'[r].copies = a /\ mem'[r].line = c
    BY <1>1, <2>1 DEF Memory
  <2> QED BY <2>2, <2>3 DEF a
<1>5. pc'[r] # "redeemed"
  BY <1>1
<1>6. ASSUME NEW p \in Product, NEW i \in DOMAIN mem'[r].copies,
             job[r].lines[i].product = p
      PROVE  /\ job[r].lines[i].quantity > 0
             /\ Once(r, p)' /\ Unmet(r, p)' => LineCopy(r, i, p)'
  <2>1. mem[r].copies \in Seq(ProductRow) /\ row[CartLine(r).product] \in ProductRow
    BY <1>1, <1>2 DEF Memory, IInv, TypeOK, RowOK
  <2>2. CASE i \in DOMAIN mem[r].copies
    <3>1. mem'[r].copies[i] = mem[r].copies[i]
      BY <1>4, <2>1, <2>2
    <3>2. /\ job[r].lines[i].quantity > 0
          /\ Once(r, p)' /\ Unmet(r, p)' => LineCopy(r, i, p)
      BY <1>1, <1>6, <2>2 DEF LinesInv, LinesOK, Once, Asked
    <3>3. ~Decremented(r, i) /\ ~Decremented(r, i)'
      BY <1>1 DEF Decremented
    <3> QED BY <1>1, <3>1, <3>2, <3>3 DEF LineCopy
  <2>3. CASE i \notin DOMAIN mem[r].copies
    <3>1. i = n /\ mem'[r].copies[i] = row[p]
      BY <1>2, <1>4, <1>6, <2>1, <2>3
    <3>2. ~Decremented(r, i)'
      BY <1>1 DEF Decremented
    <3> QED BY <1>1, <1>2, <1>3, <1>6, <3>1, <3>2 DEF LineCopy
  <2> QED BY <2>2, <2>3
<1> QED BY <1>1, <1>4, <1>5, <1>6 DEF LinesOK

\* The line whose copy is saved next.
LEMMA LineAtHand ==
  ASSUME IInv, NEW r \in InFlight, job[r].op = "place",
         pc[r] \in {"stock", "update"}
  PROVE  /\ mem[r].line \in DOMAIN mem[r].copies
         /\ mem[r].line \in DOMAIN job[r].lines
         /\ CurrentProduct(r) = job[r].lines[mem[r].line].product
         /\ CurrentProduct(r) \in Product \cap Key
         /\ job[r].lines[mem[r].line].quantity \in Int
         /\ mem[r].copies[mem[r].line] \in ProductRow
         /\ Saved(r).stock =
              mem[r].copies[mem[r].line].stock - job[r].lines[mem[r].line].quantity
<1>1. /\ mem[r].copies \in Seq(ProductRow) /\ job[r].lines \in Seq(Line)
      /\ mem[r].line \in 1..Len(mem[r].copies) /\ mem[r].line \in 1..Len(job[r].lines)
      /\ CurrentProduct(r) \in Product \cap Key
      /\ mem[r].copies[mem[r].line] \in ProductRow
      /\ CartLine(r).quantity \in Int
  BY InFlightFacts, CopyTypes, CartLineType DEF Memory, PlaceJob, PlaceControl
<1>2. Saved(r).stock = mem[r].copies[mem[r].line].stock - CartLine(r).quantity
  BY <1>1 DEF Saved, ProductRow
<1> QED BY <1>1, <1>2 DEF CartLine, CurrentProduct

\* The loop comes past one line, whether or not it is updated.
LEMMA LoopTurns ==
  ASSUME IInv, NEW r \in InFlight, job[r].op = "place",
         pc[r] \in {"stock", "update"},
         mem'[r].line = NextCopy(r), pc'[r] = AfterStock(r),
         NEW i \in DOMAIN mem[r].copies
  PROVE  /\ i = mem[r].line => Decremented(r, i)' /\ ~Decremented(r, i)
         /\ i # mem[r].line => (Decremented(r, i)' <=> Decremented(r, i))
<1>1. /\ mem[r].copies \in Seq(ProductRow)
      /\ mem[r].line \in 1..Len(mem[r].copies) /\ i \in 1..Len(mem[r].copies)
  BY InFlightFacts, CopyTypes DEF Memory
<1>2. CASE LastCopy(r)
  BY <1>1, <1>2 DEF AfterStock, LastCopy, Decremented
<1>3. CASE ~LastCopy(r)
  BY <1>1, <1>3 DEF AfterStock, NextCopy, Decremented
<1> QED BY <1>2, <1>3

LEMMA LinesSelected ==
  ASSUME IInv, OrdersInv, LinesInv, NEW r \in InFlight, SelectForStock(r),
         job[r].op = "place",
         \A p \in Product : Unmet(r, p)' => Unmet(r, p)
  PROVE  LinesOK(r)'
<1> DEFINE n == mem[r].line
           dirty == Differing(Saved(r), Visible(r, CurrentProduct(r)))
<1>1. /\ job' = job /\ r \in Request /\ mem[r] \in Memory /\ pc[r] = "stock"
      /\ UNCHANGED <<row, latest, writer>>
  BY StaysInFlight, InFlightFacts, Moves, PrivateRows DEF PrivateStep
<1>2. pc'[r] \in {"stock", "update", "order"} /\ mem'[r].copies = mem[r].copies
  BY <1>1, KeptMemory, Moves DEF PrivateStep, AfterStock
<1>3. \/ /\ dirty = {} /\ mem'[r].line = NextCopy(r) /\ pc'[r] = AfterStock(r)
         /\ AfterStock(r) # "update"
      \/ /\ dirty # {} /\ mem'[r].dirty = dirty /\ mem'[r].line = n
         /\ pc'[r] = "update"
  <2>1. CASE dirty = {}
    <3>1. mem'[r] = [mem[r] EXCEPT !.line = NextCopy(r)] /\ pc'[r] = AfterStock(r)
      BY <1>1, <2>1 DEF SelectForStock, Goto, IInv, TypeOK
    <3> QED BY <1>1, <2>1, <3>1 DEF Memory, AfterStock
  <2>2. CASE dirty # {}
    <3>1. mem'[r] = [mem[r] EXCEPT !.dirty = dirty] /\ pc'[r] = "update"
      BY <1>1, <2>2 DEF SelectForStock, Goto, IInv, TypeOK
    <3> QED BY <1>1, <2>2, <3>1 DEF Memory
  <2> QED BY <2>1, <2>2
<1>4. ASSUME NEW p \in Product, NEW i \in DOMAIN mem[r].copies,
             job[r].lines[i].product = p
      PROVE  /\ job[r].lines[i].quantity > 0
             /\ Once(r, p)' /\ Unmet(r, p)' => LineCopy(r, i, p)'
  <2>1. /\ job[r].lines[i].quantity > 0
        /\ Once(r, p)' /\ Unmet(r, p)' => LineCopy(r, i, p)
    BY <1>1, <1>4 DEF LinesInv, LinesOK, Once, Asked
  <2> SUFFICES ASSUME LineCopy(r, i, p) PROVE LineCopy(r, i, p)'
    BY <2>1
  <2>2. CASE i = n
    <3>1. /\ CurrentProduct(r) = p /\ p \in Key
          /\ Saved(r).stock = mem[r].copies[n].stock - job[r].lines[n].quantity
          /\ job[r].lines[n].quantity \in Int
          /\ mem[r].copies[n].stock \in Int
      BY <1>1, <1>4, <2>2, LineAtHand DEF ProductRow
    <3>2. ~Decremented(r, i)
      BY <1>1, <2>2 DEF Decremented, Memory
    <3>3. Visible(r, p) = row[p] /\ mem[r].copies[n].stock = row[p].stock
      BY <2>2, <3>2 DEF LineCopy, Visible
    <3>4. Saved(r).stock # Visible(r, p).stock
      BY <2>1, <2>2, <3>1, <3>3
    <3>5. "stock" \in dirty
      BY <3>1, <3>4 DEF Differing, Column
    <3>6. ~Decremented(r, i)'
      BY <1>1, <1>3, <2>2, <3>5 DEF Decremented, Memory
    <3> HIDE DEF dirty
    <3> QED BY <1>1, <1>2, <1>3, <3>2, <3>5, <3>6 DEF LineCopy
  <2>3. CASE i # n
    <3>1. Decremented(r, i)' <=> Decremented(r, i)
      <4>1. CASE pc'[r] = "update"
        BY <1>1, <1>3, <4>1 DEF Decremented
      <4>2. CASE pc'[r] # "update"
        BY <1>1, <1>3, <2>3, <4>2, LoopTurns
      <4> QED BY <4>1, <4>2
    <3>2. ~(pc'[r] = "update" /\ i = mem'[r].line)
      BY <1>3, <2>3
    <3> QED BY <1>1, <1>2, <3>1, <3>2 DEF LineCopy
  <2> QED BY <2>2, <2>3
<1> QED BY <1>1, <1>2, <1>4 DEF LinesOK

LEMMA LinesUpdated ==
  ASSUME IInv, OrdersInv, LinesInv, NEW r \in InFlight, UpdateStock(r),
         job[r].op = "place",
         \A p \in Product : Unmet(r, p)' => Unmet(r, p)
  PROVE  LinesOK(r)'
<1> DEFINE n == mem[r].line
<1>1. /\ job' = job /\ r \in Request /\ mem[r] \in Memory /\ pc[r] = "update"
      /\ pc'[r] = AfterStock(r) /\ row' = row
  BY StaysInFlight, InFlightFacts, Moves DEF UpdateStock, Put
<1>2. pc'[r] \in {"stock", "order"} /\ mem'[r].copies = mem[r].copies
  BY <1>1, KeptMemory, Moves DEF AfterStock
<1>3. mem'[r].line = NextCopy(r)
  <2>1. mem'[r] = [mem[r] EXCEPT !.dirty = {}, !.line = NextCopy(r)]
    BY <1>1 DEF UpdateStock, IInv, TypeOK
  <2> QED BY <1>1, <2>1 DEF Memory
<1>4. ASSUME NEW p \in Product, NEW i \in DOMAIN mem[r].copies,
             job[r].lines[i].product = p
      PROVE  /\ job[r].lines[i].quantity > 0
             /\ Once(r, p)' /\ Unmet(r, p)' => LineCopy(r, i, p)'
  <2>1. /\ job[r].lines[i].quantity > 0
        /\ Once(r, p)' /\ Unmet(r, p)' => Once(r, p) /\ LineCopy(r, i, p)
    BY <1>1, <1>4 DEF LinesInv, LinesOK, Once, Asked
  <2> SUFFICES ASSUME Once(r, p), LineCopy(r, i, p) PROVE LineCopy(r, i, p)'
    BY <2>1
  <2>2. /\ i = n => Decremented(r, i)' /\ ~Decremented(r, i)
        /\ i # n => (Decremented(r, i)' <=> Decremented(r, i))
    BY <1>1, <1>3, LoopTurns
  <2>3. /\ CurrentProduct(r) = job[r].lines[n].product /\ n \in DOMAIN job[r].lines
        /\ n \in DOMAIN mem[r].copies /\ CurrentProduct(r) \in Key
        /\ Saved(r).stock = mem[r].copies[n].stock - job[r].lines[n].quantity
    BY <1>1, LineAtHand
  <2>4. p \in Key /\ i \in DOMAIN job[r].lines
    BY <1>1, <1>4, LineTypes
  <2>5. CASE i = n
    <3>1. /\ latest'[p] = Overwrite(latest[p], Saved(r), mem[r].dirty)
          /\ writer'[p] = r
      BY <1>4, <2>3, <2>4, <2>5 DEF UpdateStock, Put, IInv, TypeOK, IsTable
    <3>2. "stock" \in mem[r].dirty /\ mem[r].copies[i].stock = row[p].stock
      BY <1>1, <2>5 DEF LineCopy
    <3>3. latest'[p].stock = row[p].stock - job[r].lines[i].quantity
      BY <2>3, <2>5, <3>1, <3>2 DEF Overwrite
    <3> QED BY <1>1, <1>2, <2>2, <2>5, <3>1, <3>2, <3>3 DEF LineCopy
  <2>6. CASE i # n
    <3>1. CurrentProduct(r) # p
      BY <1>4, <2>3, <2>4, <2>6 DEF Once, Asked
    <3>2. latest'[p] = latest[p] /\ writer'[p] = writer[p]
      BY <2>3, <2>4, <3>1 DEF UpdateStock, Put, IInv, TypeOK, IsTable
    <3> QED BY <1>1, <1>2, <2>2, <2>6, <3>2 DEF LineCopy
  <2> QED BY <2>5, <2>6
<1> QED BY <1>1, <1>2, <1>4 DEF LinesOK

LEMMA LinesKept ==
  ASSUME IInv, OrdersInv, StockHeld, LinesInv, NEW r \in InFlight,
         \/ ReadCoupon(r) \/ CheckRedeemed(r) \/ ReadCredit(r) \/ InsertOrder(r)
         \/ SelectForCredit(r) \/ SaveCredit(r) \/ RecordRedemption(r),
         job[r].op = "place",
         \A p \in Product : Unmet(r, p)' => Unmet(r, p)
  PROVE  LinesOK(r)'
<1>1. /\ job' = job /\ r \in Request /\ mem[r] \in Memory /\ row' = row
      /\ mem'[r].copies = mem[r].copies
      /\ mem'[r].line = mem[r].line /\ mem'[r].dirty = mem[r].dirty
      /\ LinesOK(r)
  <2>1. PrivateStep(r) \/ SaveCredit(r)
    BY DEF PrivateStep
  <2>2. ~(ReadLine(r) \/ SelectForStock(r) \/ UpdateStock(r) \/ ReadForPatch(r))
    BY Moves
  <2> QED BY <2>1, <2>2, StaysInFlight, InFlightFacts, KeptMemory, PrivateRows
          DEF SaveCredit, Put, LinesInv
<1>2. \/ /\ pc[r] \in {"coupon", "redeemed", "credit"} /\ mem[r].line = 1
         /\ pc'[r] \in {"redeemed", "credit", "stock"}
      \/ /\ pc[r] \in {"order", "fresh", "save", "redeem"}
         /\ pc'[r] \in {"fresh", "save", "redeem", "commit"}
  <2>1. CASE ReadCoupon(r) \/ CheckRedeemed(r) \/ ReadCredit(r)
    BY <1>1, <2>1, Moves DEF LinesOK
  <2>2. CASE InsertOrder(r) \/ SelectForCredit(r) \/ SaveCredit(r) \/ RecordRedemption(r)
    BY <2>2, Moves DEF AfterCredit
  <2> QED BY <2>1, <2>2
<1>3. pc[r] # "commit"
  BY <1>2
<1>4. ASSUME NEW p \in Product, NEW i \in DOMAIN mem[r].copies,
             job[r].lines[i].product = p
      PROVE  /\ job[r].lines[i].quantity > 0
             /\ Once(r, p)' /\ Unmet(r, p)' => LineCopy(r, i, p)'
  <2>1. /\ job[r].lines[i].quantity > 0
        /\ Once(r, p)' /\ Unmet(r, p)' => LineCopy(r, i, p)
    BY <1>1, <1>4 DEF LinesOK, Once, Asked
  <2> SUFFICES ASSUME LineCopy(r, i, p) PROVE LineCopy(r, i, p)'
    BY <2>1
  <2>2. p \in Key /\ i \in 1..Len(mem[r].copies) /\ mem[r].copies \in Seq(ProductRow)
    BY <1>3, <1>4, LineTypes
  <2>3. Decremented(r, i)' <=> Decremented(r, i)
    BY <1>1, <1>2, <2>2 DEF Decremented
  <2>4. writer'[p] = writer[p] /\ latest'[p] = latest[p]
    <3>1. CASE SaveCredit(r)
      <4>1. PICK k \in User \cap Key : \E v : Put(r, k, v)
        BY <3>1, WrittenKeys DEF SaveCredit
      <4>2. k # p
        BY <4>1, CheckoutAssumption
      <4> QED BY <2>2, <4>1, <4>2 DEF Put, IInv, TypeOK, IsTable
    <3>2. CASE ~SaveCredit(r)
      BY <3>2, PrivateRows DEF PrivateStep
    <3> QED BY <3>1, <3>2
  <2> QED BY <1>1, <1>2, <2>3, <2>4 DEF LineCopy
<1> QED BY <1>1, <1>2, <1>4 DEF LinesOK

LEMMA LinesStep ==
  ASSUME IInv, OrdersInv, MetInv, StockHeld, LinesInv, [Next]_vars
  PROVE  LinesInv'
<1>1. ASSUME NEW r \in Request, Begin(r)
      PROVE  LinesInv'
  <2>1. /\ pc[r] = "idle" /\ UNCHANGED <<row, latest, writer, mem>>
        /\ pc'[r] \in {"lines", "grant", "patch", "apply", "lookup", "commit", "rolledback"}
        /\ \A q \in Request \ {r} : pc'[q] = pc[q] /\ job'[q] = job[q] /\ met[q] \subseteq met'[q]
    BY <1>1, JobTypes DEF Begin, Goto, Entry, Meet, IInv, TypeOK
  <2>2. \A p \in Product : StockWriters(p)' = StockWriters(p)
    BY <1>1, CommittedStay, SameStockBooks
  <2> SUFFICES ASSUME NEW q \in InFlight', job'[q].op = "place"
               PROVE  LinesOK(q)'
    BY DEF LinesInv
  <2>3. q \in Request
    BY DEF InFlight
  <2>4. CASE q = r
    <3>1. mem'[q].copies = <<>>
      BY <2>1, <2>4 DEF IInv, ControlOK, RequestControl, InFlight, Blank
    <3> QED BY <2>1, <2>4, <3>1 DEF LinesOK
  <2>5. CASE q # r
    <3>1. q \in InFlight /\ LinesOK(q)
      BY <2>1, <2>3, <2>5 DEF InFlight, LinesInv
    <3>2. \A p \in Product : Once(q, p)' /\ Unmet(q, p)' => Once(q, p) /\ Unmet(q, p)
      BY <2>1, <2>2, <2>3, <2>5 DEF Once, Asked, Unmet
    <3>3. ASSUME NEW p \in Product, NEW i, LineCopy(q, i, p) PROVE LineCopy(q, i, p)'
      BY <2>1, <2>3, <2>5, <3>3, LineBeside
    <3> QED BY <2>1, <2>3, <2>5, <3>1, <3>2, <3>3 DEF LinesOK
  <2> QED BY <2>4, <2>5
<1>2. ASSUME NEW r \in InFlight,
             \/ PrivateStep(r) \/ UpdateStock(r) \/ SaveCredit(r) \/ InsertCoupon(r)
             \/ Commit(r) \/ Rollback(r)
      PROVE  LinesInv'
  <2> SUFFICES ASSUME NEW q \in InFlight', job'[q].op = "place"
               PROVE  LinesOK(q)'
    BY DEF LinesInv
  <2>1. CASE q # r
    <3>1. /\ q \in Request /\ pc'[q] = pc[q] /\ job'[q] = job[q] /\ mem'[q] = mem[q]
          /\ q \in InFlight
      BY <1>2, <2>1, OthersKeepMemory DEF InFlight
    <3>2. LinesOK(q)
      BY <3>1 DEF LinesInv
    <3>3. ASSUME NEW p \in Product, NEW i, Unmet(q, p)', Unmet(q, p) => LineCopy(q, i, p)
          PROVE  LineCopy(q, i, p)'
      <4>1. /\ Unmet(q, p) /\ row'[p] = row[p]
            /\ writer'[p] = q <=> writer[p] = q
            /\ writer[p] = q => latest'[p] = latest[p]
        BY <1>2, <2>1, <3>1, <3>3, StockBeside
      <4> QED BY <3>1, <3>3, <4>1, LineBeside
    <3>4. \A p \in Product : Once(q, p)' <=> Once(q, p)
      BY <3>1 DEF Once, Asked
    <3> QED BY <3>1, <3>2, <3>3, <3>4 DEF LinesOK
  <2>2. CASE q = r
    <3>1. ~(Commit(r) \/ Rollback(r))
      BY <2>2 DEF Commit, Rollback, Goto, InFlight, Final, IInv, TypeOK
    <3>2. job' = job /\ met' = met /\ r \in Request
      BY <1>2, <3>1, StaysInFlight, InFlightFacts
    <3>3. \A p \in Product : Unmet(r, p)' => Unmet(r, p)
      BY <1>2, <3>1, <3>2, CommittedStay, SameStockBooks DEF Unmet
    <3>4. \/ ReadLine(r) \/ SelectForStock(r) \/ UpdateStock(r)
          \/ ReadCoupon(r) \/ CheckRedeemed(r) \/ ReadCredit(r) \/ InsertOrder(r)
          \/ SelectForCredit(r) \/ SaveCredit(r) \/ RecordRedemption(r)
      BY <1>2, <2>2, <3>1, <3>2, Moves DEF PrivateStep
    <3> QED BY <2>2, <3>2, <3>3, <3>4, LinesRead, LinesSelected, LinesUpdated, LinesKept
  <2> QED BY <2>1, <2>2
<1>3. CASE UNCHANGED vars
  <2>1. \A p \in Product : StockWriters(p)' = StockWriters(p)
    BY <1>3, SameStockBooks DEF vars, Committed
  <2> QED BY <1>3, <2>1 DEF vars, LinesInv, LinesOK, LineCopy, Decremented, Unmet, Once,
        Asked, InFlight
<1> QED BY <1>1, <1>2, <1>3, StepCases

\* A patch that leaves the stock alone saves the stock it read.
LEMMA PatchesLocal ==
  ASSUME IInv, NoStrayVersions, StockHeld, PatchesInv, NEW r \in InFlight,
         PrivateStep(r) \/ UpdateStock(r) \/ SaveCredit(r) \/ InsertCoupon(r),
         job[r].op = "patch", job[r].stock = NoRow,
         NEW p \in Product, job[r].product = p,
         Unmet(r, p)
  PROVE  PatchCopy(r, p)'
<1>1. /\ job' = job /\ r \in Request /\ mem[r] \in Memory /\ p \in Key
      /\ CurrentProduct(r) = p /\ mem[r].line = 1 /\ row' = row
      /\ PatchCopy(r, p) /\ Nobody \notin Request
      /\ ReadForPatch(r) \/ SelectForStock(r) \/ UpdateStock(r)
  <2>1. ReadForPatch(r) \/ SelectForStock(r) \/ UpdateStock(r)
    BY Moves DEF PrivateStep
  <2> QED BY <2>1, StaysInFlight, InFlightFacts, PrivateRows, CheckoutAssumption,
             NobodyAssumption
          DEF UpdateStock, Put, PatchesInv, CurrentProduct, PrivateStep
<1>2. CASE ReadForPatch(r)
  <2>1. pc[r] = "patch" /\ pc'[r] = "stock" /\ UNCHANGED <<row, latest, writer>>
    BY <1>2, Moves DEF ReadForPatch
  <2>2. writer[p] # r
    BY <1>1, <2>1 DEF StockHeld, Touches
  <2> DEFINE copy == [stock |-> Patched(row[p].stock, job[r].stock),
                      price |-> Patched(row[p].price, job[r].price),
                      active |-> Patched(row[p].active, job[r].active)]
  <2>3. mem'[r] = [mem[r] EXCEPT !.copies = <<copy>>]
    BY <1>1, <1>2, <2>2 DEF ReadForPatch, Visible, IInv, TypeOK
  <2>4. copy.stock = row[p].stock
    BY DEF Patched
  <2> HIDE DEF copy
  <2>5. mem'[r].copies[1].stock = row[p].stock
    BY <1>1, <2>3, <2>4 DEF Memory
  <2> QED BY <1>1, <2>1, <2>2, <2>5 DEF PatchCopy
<1>3. CASE SelectForStock(r)
  <2> DEFINE dirty == Differing(Saved(r), Visible(r, CurrentProduct(r)))
  <2>1. /\ pc[r] = "stock" /\ UNCHANGED <<row, latest, writer>>
        /\ mem'[r].copies = mem[r].copies
    <3>1. ~ReadLine(r) /\ ~ReadForPatch(r) /\ PrivateStep(r)
      BY <1>3, Moves DEF PrivateStep
    <3> QED BY <1>3, <3>1, KeptMemory DEF SelectForStock
  <2>2. mem[r].copies[1].stock = row[p].stock /\ writer[p] # r
    BY <1>1, <2>1 DEF PatchCopy
  <2>3. "stock" \notin dirty
    BY <1>1, <2>2 DEF Saved, Visible, Differing
  <2>4. dirty # {} => mem'[r].dirty = dirty
    <3>1. dirty # {} => mem'[r] = [mem[r] EXCEPT !.dirty = dirty]
      BY <1>1, <1>3 DEF SelectForStock, IInv, TypeOK
    <3> QED BY <1>1, <3>1 DEF Memory
  <2>5. pc'[r] = IF dirty = {} THEN "commit" ELSE "update"
    <3>1. AfterStock(r) = "commit"
      BY <1>1, <2>1, InFlightFacts DEF AfterStock, LastCopy
    <3> QED BY <1>1, <1>3, <3>1 DEF SelectForStock, Goto, IInv, TypeOK
  <2> HIDE DEF dirty
  <2> QED BY <2>1, <2>2, <2>3, <2>4, <2>5 DEF PatchCopy
<1>4. CASE UpdateStock(r)
  <2>1. pc[r] = "update" /\ pc'[r] = "commit"
    BY <1>1, <1>4, Moves, InFlightFacts DEF AfterStock, LastCopy
  <2>2. writer[p] # r /\ "stock" \notin mem[r].dirty
    BY <1>1, <2>1 DEF PatchCopy
  <2>3. latest[p] = row[p]
    BY <1>1, <1>4, <2>2 DEF UpdateStock, Lockable, NoStrayVersions
  <2>4. latest'[p] = Overwrite(latest[p], Saved(r), mem[r].dirty)
    BY <1>1, <1>4 DEF UpdateStock, Put, IInv, TypeOK, IsTable
  <2> QED BY <1>1, <2>1, <2>2, <2>3, <2>4 DEF PatchCopy, Overwrite
<1> QED BY <1>1, <1>2, <1>3, <1>4

LEMMA PatchesStep ==
  ASSUME IInv, NoStrayVersions, OrdersInv, MetInv, StockHeld, PatchesInv, [Next]_vars
  PROVE  PatchesInv'
<1>1. ASSUME NEW r \in Request, Begin(r)
      PROVE  PatchesInv'
  <2>1. /\ pc[r] = "idle" /\ UNCHANGED <<row, latest, writer, mem>>
        /\ pc'[r] \in {"lines", "grant", "patch", "apply", "lookup", "commit", "rolledback"}
        /\ pc'[r] = "commit" => job'[r].op = "place"
        /\ \A q \in Request \ {r} : pc'[q] = pc[q] /\ job'[q] = job[q] /\ met[q] \subseteq met'[q]
    BY <1>1, JobTypes DEF Begin, Goto, Entry, Meet, Replayed, IInv, TypeOK
  <2>2. \A p \in Product : StockWriters(p)' = StockWriters(p)
    BY <1>1, CommittedStay, SameStockBooks
  <2> SUFFICES ASSUME NEW q \in InFlight', NEW p \in Product,
                      job'[q].op = "patch", job'[q].product = p, job'[q].stock = NoRow,
                      Unmet(q, p)'
               PROVE  PatchCopy(q, p)'
    BY DEF PatchesInv
  <2>3. q \in Request
    BY DEF InFlight
  <2>4. CASE q = r
    BY <2>1, <2>4 DEF PatchCopy
  <2>5. CASE q # r
    <3>1. q \in InFlight /\ Unmet(q, p)
      BY <2>1, <2>2, <2>3, <2>5 DEF InFlight, Unmet
    <3> QED BY <2>1, <2>3, <2>5, <3>1 DEF PatchesInv, PatchCopy
  <2> QED BY <2>4, <2>5
<1>2. ASSUME NEW r \in InFlight,
             \/ PrivateStep(r) \/ UpdateStock(r) \/ SaveCredit(r) \/ InsertCoupon(r)
             \/ Commit(r) \/ Rollback(r)
      PROVE  PatchesInv'
  <2> SUFFICES ASSUME NEW q \in InFlight', NEW p \in Product,
                      job'[q].op = "patch", job'[q].product = p, job'[q].stock = NoRow,
                      Unmet(q, p)'
               PROVE  PatchCopy(q, p)'
    BY DEF PatchesInv
  <2>1. CASE q # r
    <3>1. /\ q \in Request /\ pc'[q] = pc[q] /\ job'[q] = job[q] /\ mem'[q] = mem[q]
          /\ q \in InFlight
      BY <1>2, <2>1, OthersKeepMemory DEF InFlight
    <3>2. /\ Unmet(q, p) /\ row'[p] = row[p]
          /\ writer'[p] = q <=> writer[p] = q
          /\ writer[p] = q => latest'[p] = latest[p]
      BY <1>2, <2>1, <3>1, StockBeside
    <3>3. PatchCopy(q, p)
      BY <3>1, <3>2 DEF PatchesInv
    <3> QED BY <3>1, <3>2, <3>3 DEF PatchCopy
  <2>2. CASE q = r
    <3>1. ~(Commit(r) \/ Rollback(r))
      BY <2>2 DEF Commit, Rollback, Goto, InFlight, Final, IInv, TypeOK
    <3>2. job' = job /\ met' = met /\ r \in Request
      BY <1>2, <3>1, StaysInFlight, InFlightFacts
    <3>3. Unmet(r, p)
      BY <1>2, <2>2, <3>1, <3>2, CommittedStay, SameStockBooks DEF Unmet
    <3> QED BY <1>2, <2>2, <3>1, <3>2, <3>3, PatchesLocal
  <2> QED BY <2>1, <2>2
<1>3. CASE UNCHANGED vars
  <2>1. \A p \in Product : StockWriters(p)' = StockWriters(p)
    BY <1>3, SameStockBooks DEF vars, Committed
  <2> QED BY <1>3, <2>1 DEF vars, PatchesInv, PatchCopy, Unmet, InFlight
<1> QED BY <1>1, <1>2, <1>3, StepCases

LEMMA AtMostOne ==
  ASSUME NEW S, IsFiniteSet(S), ~(Cardinality(S) > 1), NEW i \in S, NEW j \in S
  PROVE  i = j
<1>1. Cardinality(S) \in Nat
  BY FS_CardinalityType
<1>2. ASSUME i # j PROVE FALSE
  <2>1. IsFiniteSet({i}) /\ Cardinality({i}) = 1
    BY FS_Singleton
  <2>2. j \notin {i}
    BY <1>2
  <2> DEFINE T == {i} \cup {j}
  <2>3. Cardinality(T) = 2
    BY <2>1, <2>2, FS_AddElement
  <2>4. T \in SUBSET S
    OBVIOUS
  <2>5. Cardinality(T) <= Cardinality(S)
    <3> HIDE DEF T
    <3> QED BY <2>4, FS_Subset
  <2> QED BY <1>1, <2>3, <2>5
<1> QED BY <1>2

LEMMA StockAddsUpStep ==
  ASSUME IInv, OrdersInv, StockInv, [Next]_vars, IInv'
  PROVE  StockAddsUpWhenApart'
<1> SUFFICES ASSUME NEW p \in Product,
                    Apart(StockWriters(p))', ~RepeatedLine(p)', ~StockSet(p)'
             PROVE  StockAddsUp(p)'
  BY DEF StockAddsUpWhenApart
<1>1. ASSUME row' = row,
             \A q \in Request :
               /\ Committed(q)' <=> Committed(q)
               /\ Committed(q) => job'[q] = job[q] /\ order'[q] = order[q] /\ met'[q] = met[q]
      PROVE  StockAddsUp(p)'
  <2>1. /\ Apart(StockWriters(p)) /\ ~RepeatedLine(p) /\ ~StockSet(p)
        /\ Sold(p)' = Sold(p)
    BY <1>1, SameStockBooks
  <2> QED BY <1>1, <2>1 DEF StockInv, StockAddsUpWhenApart, StockAddsUp
<1>2. ASSUME NEW r \in InFlight, Commit(r)
      PROVE  StockAddsUp(p)'
  <2>1. /\ r \in Request /\ pc[r] = "commit" /\ met' = met /\ p \in Key /\ job' = job
        /\ order' = order /\ row' = [k \in Key |-> Visible(r, k)]
    BY <1>2, CheckoutAssumption DEF Commit, Publish, InFlight
  <2>2. /\ row[p].stock \in Int /\ InitialRow[p].stock \in Int /\ Sold(p) \in Int
    BY <2>1, StockSums, CheckoutAssumption DEF IInv, TypeOK, RowOK, ProductRow
  <2>3. /\ StockWriters(p)' = StockWriters(p) \cup (IF Touches(r, p) THEN {r} ELSE {})
        /\ Orders' = Orders \cup (IF order[r] # NoRow THEN {r} ELSE {})
        /\ \A q \in Request : LinesOf(q, p)' = LinesOf(q, p) /\ Units(q, p)' = Units(q, p)
        /\ order[r] # NoRow => LinesOf(r, p) = Asked(r, p)
        /\ order[r] = NoRow => Sold(p)' = Sold(p)
        /\ order[r] # NoRow => Sold(p)' = Sold(p) + Units(r, p)
    BY <1>2, StockBooksAtCommit
  <2>4. Apart(StockWriters(p)) /\ ~RepeatedLine(p) /\ ~StockSet(p)
    BY <2>1, <2>3 DEF Apart, RepeatedLine, StockSet, Orders
  <2>5. StockAddsUp(p)
    BY <2>4 DEF StockInv, StockAddsUpWhenApart
  <2>6. Touches(r, p) => Unmet(r, p)
    BY <2>1, <2>3 DEF Apart, Unmet
  <2>7. ASSUME row'[p].stock = row[p].stock, Sold(p)' = Sold(p)
        PROVE  StockAddsUp(p)'
    BY <2>5, <2>7 DEF StockAddsUp
  <2>8. CASE ~Touches(r, p)
    <3>1. row'[p] = row[p]
      BY <2>1, <2>8 DEF StockInv, StockHeld, Visible
    <3>2. order[r] # NoRow => Units(r, p) = 0
      <4>1. order[r] # NoRow => LinesOf(r, p) = {}
        <5>1. order[r] # NoRow => OrderedFrom(r)
          BY <2>1 DEF OrdersInv
        <5> QED BY <2>1, <2>3, <2>8, <5>1 DEF Touches, OrderedFrom
      <4> QED BY <4>1, SumOfNone DEF Units
    <3> QED BY <2>2, <2>3, <2>7, <3>1, <3>2
  <2>9. CASE Touches(r, p) /\ job[r].op = "patch"
    <3>1. order[r] = NoRow
      BY <2>1, <2>9 DEF OrdersInv, OrderedFrom
    <3>2. job[r].stock = NoRow /\ job[r].product = p
      BY <2>1, <2>3, <2>9 DEF StockSet, Touches
    <3>3. PatchCopy(r, p)
      BY <2>6, <2>9, <3>2 DEF StockInv, PatchesInv
    <3>4. row'[p].stock = row[p].stock
      BY <2>1, <3>3 DEF PatchCopy, Visible
    <3> QED BY <2>3, <2>7, <3>1, <3>4
  <2>10. CASE Touches(r, p) /\ job[r].op # "patch"
    <3>1. job[r].op = "place" /\ Asked(r, p) # {} /\ order[r] # NoRow
      BY <2>1, <2>10 DEF Touches
    <3>2. PICK i \in Asked(r, p) : TRUE
      BY <3>1
    <3>3. /\ mem[r].copies \in Seq(ProductRow) /\ job[r].lines \in Seq(Line)
          /\ Len(mem[r].copies) = Len(job[r].lines) /\ SameCart(r)
      BY <2>1, <3>1, InFlightFacts DEF Memory, PlaceJob, OrdersInv, OrderedFrom
    <3>4. /\ i \in DOMAIN mem[r].copies /\ i \in DOMAIN job[r].lines
          /\ job[r].lines[i].product = p /\ job[r].lines[i].quantity \in Int
          /\ order[r].lines[i].quantity = job[r].lines[i].quantity
      <4>1. i \in DOMAIN job[r].lines /\ job[r].lines[i].product = p
        BY <3>2 DEF Asked
      <4>2. i \in DOMAIN mem[r].copies /\ job[r].lines[i] \in Line
        BY <3>3, <4>1
      <4> QED BY <3>3, <4>1, <4>2 DEF Line, SameCart
    <3>5. \A j \in Asked(r, p) : j = i
      <4>1. r \in Orders' /\ LinesOf(r, p)' = Asked(r, p)
        BY <2>1, <2>3, <3>1
      <4>2. ~(Cardinality(Asked(r, p)) > 1)
        BY <4>1 DEF RepeatedLine
      <4>3. Asked(r, p) \subseteq 1..Len(job[r].lines)
        BY <3>3 DEF Asked
      <4>4. IsFiniteSet(Asked(r, p))
        <5>1. Len(job[r].lines) \in Int
          BY <3>3
        <5>2. IsFiniteSet(1..Len(job[r].lines))
          BY <5>1, FS_Interval
        <5> QED BY <4>3, <5>2, FS_Subset
      <4> QED BY <3>2, <4>2, <4>4, AtMostOne
    <3>6. LineCopy(r, i, p) /\ Decremented(r, i)
      BY <2>1, <2>6, <2>10, <3>1, <3>4, <3>5
         DEF StockInv, LinesInv, LinesOK, Once, Decremented
    <3>7. row'[p].stock = row[p].stock - job[r].lines[i].quantity
      BY <2>1, <3>6 DEF LineCopy, Visible
    <3>8. Units(r, p) = job[r].lines[i].quantity
      <4> DEFINE f == [j \in LinesOf(r, p) |-> order[r].lines[j].quantity]
      <4>1. DOMAIN f = {i} /\ f[i] = job[r].lines[i].quantity /\ f[i] \in Int
        BY <2>3, <3>1, <3>2, <3>4, <3>5
      <4> HIDE DEF f
      <4>2. SumFunction(f) = f[i]
        BY <4>1, SumOfOne
      <4> QED BY <4>1, <4>2 DEF f, Units
    <3>9. Sold(p)' = Sold(p) + job[r].lines[i].quantity
      BY <2>3, <3>1, <3>8
    <3>10. row[p].stock = InitialRow[p].stock - Sold(p)
      BY <2>5 DEF StockAddsUp
    <3>11. row'[p].stock = InitialRow[p].stock - Sold(p)'
      BY <2>2, <3>4, <3>7, <3>9, <3>10
    <3> QED BY <3>11 DEF StockAddsUp
  <2> QED BY <2>8, <2>9, <2>10
<1>3. CASE UNCHANGED vars
  BY <1>1, <1>3 DEF vars, Committed
<1> QED BY <1>1, <1>2, <1>3, CommittedStay, StepCases

LEMMA StockInit == Init => StockInv
<1> SUFFICES ASSUME Init PROVE StockInv
  OBVIOUS
<1>1. StockHeld /\ LinesInv /\ PatchesInv
  BY NobodyAssumption, CheckoutAssumption
     DEF Init, DatabaseInit, StockHeld, LinesInv, PatchesInv, InFlight
<1>2. StockAddsUpWhenApart
  <2> SUFFICES ASSUME NEW p \in Product PROVE StockAddsUp(p)
    BY DEF StockAddsUpWhenApart
  <2>1. Orders = {} /\ InitialRow[p].stock \in Int
    BY CheckoutAssumption
       DEF Init, Orders, OrderVisible, Committed, RowOK, ProductRow
  <2>2. Sold(p) = 0
    BY <2>1, SumOfNone DEF Sold
  <2> QED BY <2>1, <2>2 DEF StockAddsUp, Init, DatabaseInit
<1> QED BY <1>1, <1>2 DEF StockInv

LEMMA StockStep ==
  ASSUME IInv, NoStrayVersions, MetInv, OrdersInv, StockInv, [Next]_vars
  PROVE  StockInv'
<1>1. IInv'
  BY NextInv
<1>2. StockHeld' /\ LinesInv' /\ PatchesInv'
  BY StockHeldStep, LinesStep, PatchesStep DEF StockInv
<1>3. StockAddsUpWhenApart'
  BY <1>1, StockAddsUpStep
<1> QED BY <1>2, <1>3 DEF StockInv

\* If the requests that wrote a product were served one after the other, none
\* listed it twice and no patch set its stock, then what PlaceOrder took out
\* of the stock is what it sold.
THEOREM StockAddsUpApart == Spec => []StockAddsUpWhenApart
<1> DEFINE Inv == IInv /\ NoStrayVersions /\ MetInv /\ OrdersInv /\ StockInv
<1>1. Init => Inv
  BY InitInv, OrdersInit, StockInit
     DEF Init, DatabaseInit, NoStrayVersions, MetInv, InFlight
<1>2. Inv /\ [Next]_vars => Inv'
  BY NextInv, NoStrayVersionsStep, MetStep, OrdersStep, StockStep
<1>3. Inv => StockAddsUpWhenApart
  BY DEF StockInv
<1> QED BY <1>1, <1>2, <1>3, PTL DEF Spec

\* What the clients send: carts that list no product twice, and patches that
\* set no stock.
StockOnlySold ==
  /\ \A j \in Checkouts : \A i, k \in DOMAIN j.lines :
       j.lines[i].product = j.lines[k].product => i = k
  /\ \A j \in Patches : j.stock = NoRow

LEMMA NotRepeated ==
  ASSUME StockOnlySold, IInv, OrdersInv
  PROVE  \A p \in Product : ~RepeatedLine(p) /\ ~StockSet(p)
<1>1. ASSUME NEW q \in Request, job[q] \in Jobs
      PROVE  /\ job[q].op = "place" => job[q] \in Checkouts
             /\ job[q].op = "patch" => job[q] \in Patches
  BY <1>1, CheckoutAssumption
     DEF Jobs, PlaceJob, GrantJob, PatchJob, ApplyJob, CreateJob
<1>2. ASSUME NEW p \in Product, NEW q \in Orders
      PROVE  ~(Cardinality(LinesOf(q, p)) > 1)
  <2>1. /\ q \in Request /\ Committed(q) /\ OrderedFrom(q)
        /\ job[q] \in Jobs
    BY DEF Orders, OrderVisible, OrdersInv, Committed, IInv, TypeOK, ControlOK,
           RequestControl
  <2>2. \A i, k \in LinesOf(q, p) : i = k
    <3>1. job[q] \in Checkouts
      BY <1>1, <2>1 DEF OrderedFrom
    <3> QED BY <2>1, <3>1 DEF StockOnlySold, OrderedFrom, SameCart, LinesOf
  <2>3. CASE LinesOf(q, p) = {}
    BY <2>3, FS_EmptySet
  <2>4. CASE LinesOf(q, p) # {}
    <3>1. PICK i \in LinesOf(q, p) : TRUE
      BY <2>4
    <3>2. LinesOf(q, p) = {i}
      BY <2>2
    <3>3. Cardinality({i}) = 1
      BY FS_Singleton
    <3> QED BY <3>2, <3>3
  <2> QED BY <2>3, <2>4
<1>3. ASSUME NEW p \in Product PROVE ~StockSet(p)
  <2>1. ASSUME NEW q \in StockWriters(p), job[q].op = "patch"
        PROVE  job[q].stock = NoRow
    <3>1. q \in Request /\ job[q] \in Jobs
      BY DEF StockWriters, Committed, IInv, TypeOK, ControlOK, RequestControl
    <3> QED BY <1>1, <2>1, <3>1 DEF StockOnlySold
  <2> QED BY <2>1 DEF StockSet
<1> QED BY <1>2, <1>3 DEF RepeatedLine

\* With one connection to the database, and such clients, no more is sold than
\* was there: what is left is neither negative nor miscounted.
THEOREM NoOversellInTurn ==
  ASSUME MaxInFlight = 1, StocksGiven, StockOnlySold
  PROVE  Spec => []NoOversell
<1> DEFINE Inv == /\ IInv /\ NoStrayVersions /\ MetInv /\ OrdersInv /\ StockInv
                  /\ StockedInv /\ Alone
<1>1. Init => Inv
  <2>1. Init => StockedInv
    BY DEF Init, DatabaseInit, StockedInv, Stocked, StocksGiven, InFlight
  <2> QED BY <2>1, InitInv, OrdersInit, StockInit, AloneInit
          DEF Init, DatabaseInit, NoStrayVersions, MetInv, InFlight
<1>2. Inv /\ [Next]_vars => Inv'
  BY NextInv, NoStrayVersionsStep, MetStep, OrdersStep, StockStep, StockedStep,
     AloneStep
<1>3. Inv => NoOversell
  <2> SUFFICES ASSUME Inv, NEW p \in Product
               PROVE  Sold(p) <= InitialRow[p].stock
    BY DEF NoOversell
  <2>1. Apart(StockWriters(p)) /\ ~RepeatedLine(p) /\ ~StockSet(p)
    BY NotRepeated DEF Alone, Apart, StockWriters
  <2>2. row[p].stock = InitialRow[p].stock - Sold(p) /\ row[p].stock >= 0
    BY <2>1 DEF StockInv, StockAddsUpWhenApart, StockAddsUp, StockedInv, Stocked
  <2>3. row[p].stock \in Int /\ InitialRow[p].stock \in Int /\ Sold(p) \in Int
    BY StockSums, CheckoutAssumption DEF IInv, TypeOK, RowOK, ProductRow
  <2> QED BY <2>2, <2>3
<1> QED BY <1>1, <1>2, <1>3, PTL DEF Spec
=============================================================================
