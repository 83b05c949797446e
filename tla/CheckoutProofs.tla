--------------------------- MODULE CheckoutProofs ---------------------------
(***************************************************************************)
(* Types, control flow and safety of Checkout, for all of its constants.   *)
(* TypeOK is not inductive: that a loop index stays within the cart, that  *)
(* a lookup finds a job of the right shape and that an order exists when   *)
(* its redemption is recorded depend on where each request is, which is    *)
(* ControlOK.  One lemma per action, then NextInv.                         *)
(***************************************************************************)
EXTENDS Checkout, TLAPS

\* The control flow of the use cases: which statements an operation reaches,
\* that the loops stay within the cart and the copies read of it, that a
\* redemption comes after its order.
Reaches(op) ==
  CASE op = "place" -> {"lines", "coupon", "redeemed", "credit", "stock",
                        "update", "order", "fresh", "save", "redeem", "commit"}
    [] op = "grant" -> {"grant", "fresh", "save", "commit"}
    [] op = "patch" -> {"patch", "stock", "update", "commit"}
    [] op = "apply" -> {"apply", "coupon", "redeemed", "redeem", "commit"}
    [] op = "create" -> {"lookup", "insert", "commit"}

PlaceControl(r) ==
  /\ pc[r] \in {"coupon", "redeemed", "redeem"} => job[r].coupon # NoRow
  /\ pc[r] \in {"lines", "coupon", "redeemed", "credit", "stock", "update"} =>
       mem[r].line \in 1..Len(job[r].lines)
  /\ pc[r] = "lines" => Len(mem[r].copies) = mem[r].line - 1
  /\ pc[r] \in {"coupon", "redeemed", "credit", "stock", "update", "order"} =>
       Len(mem[r].copies) = Len(job[r].lines)
  /\ pc[r] \in {"fresh", "save", "redeem"} => order[r] # NoRow

RequestControl(r) ==
  /\ pc[r] = "idle" <=> job[r] = NoRow
  /\ r \notin InFlight => mem[r] = Blank
  /\ r \in InFlight =>
       /\ pc[r] \in Reaches(job[r].op)
       /\ job[r].op = "place" => PlaceControl(r)
       /\ job[r].op = "grant" => job[r].amount > 0
       /\ job[r].op = "create" => job[r].percent \in CouponRow
       /\ job[r].op = "patch" =>
            /\ mem[r].line = 1
            /\ pc[r] \in {"stock", "update"} => Len(mem[r].copies) = 1
       /\ job[r].op = "apply" /\ pc[r] # "apply" => OrderVisible(job[r].order)

ControlOK == \A r \in Request : RequestControl(r)

\* The inductive invariant.
IInv == TypeOK /\ ControlOK

LEMMA JobTypes ==
  ASSUME NEW j \in Jobs
  PROVE  /\ j.op = "place" => j \in PlaceJob
         /\ j.op = "grant" => j \in GrantJob
         /\ j.op = "patch" => j \in PatchJob
         /\ j.op = "apply" => j \in ApplyJob
         /\ j.op = "create" => j \in CreateJob
         /\ j.op \in {"place", "grant", "patch", "apply", "create"}
BY CheckoutAssumption
   DEF Jobs, PlaceJob, GrantJob, PatchJob, ApplyJob, CreateJob

LEMMA BlankType == Blank \in Memory
BY DEF Blank, Memory

LEMMA InitInv == Init => IInv
<1> SUFFICES ASSUME Init PROVE IInv
  OBVIOUS
<1>1. TypeOK
  <2>1. /\ IsTable(row) /\ \A k \in Key : RowOK(k, row[k])
        /\ IsTable(latest) /\ \A k \in Key : RowOK(k, latest[k])
        /\ writer \in [Key -> Request \cup {Nobody}]
    BY CheckoutAssumption DEF Init, DatabaseInit
  <2> QED
    BY <2>1, BlankType DEF Init, TypeOK, Phase, Final
<1>2. ControlOK
  BY DEF Init, ControlOK, RequestControl, InFlight, Final
<1> QED BY <1>1, <1>2 DEF IInv

LEMMA VisibleType ==
  ASSUME TypeOK, NEW r \in Request, NEW k \in Key
  PROVE  RowOK(k, Visible(r, k))
BY DEF TypeOK, Visible

LEMMA PublishTypes ==
  ASSUME TypeOK, NEW r \in Request, Publish(r)
  PROVE  /\ IsTable(row') /\ \A k \in Key : RowOK(k, row'[k])
         /\ IsTable(latest') /\ \A k \in Key : RowOK(k, latest'[k])
         /\ writer' \in [Key -> Request \cup {Nobody}]
BY VisibleType DEF TypeOK, Publish, Unlocked, IsTable

LEMMA DiscardTypes ==
  ASSUME TypeOK, NEW r \in Request, Discard(r)
  PROVE  /\ IsTable(row') /\ \A k \in Key : RowOK(k, row'[k])
         /\ IsTable(latest') /\ \A k \in Key : RowOK(k, latest'[k])
         /\ writer' \in [Key -> Request \cup {Nobody}]
BY DEF TypeOK, Discard, Unlocked, IsTable

LEMMA PutTypes ==
  ASSUME TypeOK, NEW r \in Request, NEW k \in Key, NEW v, RowOK(k, v), Put(r, k, v)
  PROVE  /\ IsTable(row') /\ \A q \in Key : RowOK(q, row'[q])
         /\ IsTable(latest') /\ \A q \in Key : RowOK(q, latest'[q])
         /\ writer' \in [Key -> Request \cup {Nobody}]
BY DEF TypeOK, Put, IsTable

LEMMA OthersControl ==
  ASSUME IInv, NEW r \in Request, pc[r] # "committed",
         \A q \in Request \ {r} :
           pc'[q] = pc[q] /\ job'[q] = job[q] /\ mem'[q] = mem[q] /\ order'[q] = order[q]
  PROVE  \A q \in Request \ {r} : RequestControl(q)'
<1> SUFFICES ASSUME NEW q \in Request \ {r}
             PROVE  RequestControl(q)'
  OBVIOUS
<1>1. RequestControl(q)
  BY DEF IInv, ControlOK
<1>2. q \in InFlight' <=> q \in InFlight
  BY DEF InFlight
<1>3. ASSUME q \in InFlight, job[q].op = "apply", OrderVisible(job[q].order)
      PROVE  OrderVisible(job[q].order)'
  <2>1. job[q] \in Jobs
    BY <1>1, <1>3 DEF RequestControl, InFlight, IInv, TypeOK
  <2>2. job[q].order \in Request \ {r}
    BY <2>1, <1>3, JobTypes DEF ApplyJob, OrderVisible, Committed
  <2> QED BY <2>2, <1>3 DEF OrderVisible, Committed
<1>4. PlaceControl(q) => PlaceControl(q)'
  BY DEF PlaceControl
<1> QED
  BY <1>1, <1>2, <1>3, <1>4 DEF RequestControl

LEMMA InFlightFacts ==
  ASSUME IInv, NEW r \in InFlight
  PROVE  /\ r \in Request
         /\ job[r] \in Jobs /\ mem[r] \in Memory
         /\ pc[r] \in Reaches(job[r].op)
         /\ job[r].op = "place" => job[r] \in PlaceJob /\ PlaceControl(r)
         /\ job[r].op = "grant" => job[r] \in GrantJob /\ job[r].amount > 0
         /\ job[r].op = "patch" =>
              /\ job[r] \in PatchJob /\ mem[r].line = 1
              /\ pc[r] \in {"stock", "update"} => Len(mem[r].copies) = 1
         /\ job[r].op = "apply" =>
              job[r] \in ApplyJob /\ (pc[r] # "apply" => OrderVisible(job[r].order))
         /\ job[r].op = "create" => job[r] \in CreateJob /\ job[r].percent \in CouponRow
         /\ job[r].op \in {"place", "grant", "patch", "apply", "create"}
<1>1. r \in Request /\ RequestControl(r) /\ mem[r] \in Memory
  BY DEF IInv, TypeOK, ControlOK, InFlight
<1>2. job[r] \in Jobs
  BY <1>1 DEF IInv, TypeOK, RequestControl, InFlight
<1> QED
  BY <1>1, <1>2, JobTypes DEF RequestControl

\* A checkout in its loops looks at a line of its cart.
LEMMA CartLineType ==
  ASSUME IInv, NEW r \in InFlight, job[r].op = "place",
         pc[r] \in {"lines", "stock", "update"}
  PROVE  /\ CartLine(r) \in Line
         /\ CartLine(r).product \in Product \cap Key
         /\ CartLine(r).quantity \in Int
<1>1. job[r].lines \in Seq(Line) /\ mem[r].line \in 1..Len(job[r].lines)
  BY InFlightFacts DEF PlaceControl, PlaceJob
<1>2. CartLine(r) \in Line
  BY <1>1 DEF CartLine
<1> QED
  BY <1>2, CheckoutAssumption DEF Line

LEMMA ReadLineInv ==
  ASSUME IInv, NEW r \in Request, ReadLine(r)
  PROVE  IInv'
<1> DEFINE seen == Visible(r, CartLine(r).product)
           last == mem[r].line = Len(job[r].lines)
           copies == Append(mem[r].copies, seen)
           subtotal == mem[r].subtotal + seen.price * CartLine(r).quantity
           line == IF last THEN 1 ELSE mem[r].line + 1
<1>1. r \in InFlight /\ pc[r] = "lines"
  BY DEF ReadLine, InFlight, Final
<1>2. job[r].op = "place" /\ job[r] \in PlaceJob /\ PlaceControl(r) /\ mem[r] \in Memory
  BY <1>1, InFlightFacts DEF Reaches
<1>3. seen \in ProductRow
  BY <1>1, <1>2, CartLineType, VisibleType, CheckoutAssumption DEF RowOK, IInv
<1>4. /\ Len(job[r].lines) \in Nat /\ mem[r].line \in 1..Len(job[r].lines)
      /\ Len(mem[r].copies) = mem[r].line - 1
  BY <1>1, <1>2 DEF PlaceControl, PlaceJob
<1>5. /\ copies \in Seq(ProductRow) /\ Len(copies) = mem[r].line
      /\ subtotal \in Int /\ line \in 1..Len(job[r].lines)
      /\ ~last => Len(copies) = line - 1
  <2>1. copies \in Seq(ProductRow) /\ Len(copies) = mem[r].line
    BY <1>2, <1>3, <1>4 DEF Memory
  <2>2. subtotal \in Int
    BY <1>1, <1>2, <1>3, CartLineType DEF Memory, ProductRow
  <2> QED BY <2>1, <2>2, <1>4
<1>6. /\ mem'[r] = [mem[r] EXCEPT !.copies = copies, !.subtotal = subtotal, !.line = line]
      /\ pc'[r] = IF ~last THEN "lines"
                  ELSE IF job[r].coupon = NoRow THEN "credit" ELSE "coupon"
  BY DEF ReadLine, Goto, IInv, TypeOK
<1> HIDE DEF copies, subtotal, line
<1>7. /\ mem'[r] \in Memory /\ mem'[r].copies = copies /\ mem'[r].line = line
  <2>1. mem[r] \in Memory /\ copies \in Seq(ProductRow) /\ subtotal \in Int /\ line \in Nat \ {0}
    BY <1>2, <1>4, <1>5
  <2>2. mem'[r] = [mem[r] EXCEPT !.copies = copies, !.subtotal = subtotal, !.line = line]
    BY <1>6
  <2>3. mem'[r] \in Memory
    BY <2>1, <2>2 DEF Memory
  <2> QED BY <2>1, <2>2, <2>3 DEF Memory
<1>8. TypeOK'
  BY <1>7 DEF IInv, TypeOK, ReadLine, Goto, Phase
<1>9. RequestControl(r)'
  <2>1. PlaceControl(r)'
    BY <1>2, <1>4, <1>5, <1>6, <1>7 DEF PlaceControl, ReadLine
  <2>2. r \in InFlight'
    BY <1>6 DEF InFlight, Final
  <2> QED
    BY <2>1, <2>2, <1>1, <1>2, <1>6
       DEF RequestControl, Reaches, ReadLine, IInv, ControlOK
<1>10. ControlOK'
  BY <1>1, <1>9, OthersControl DEF ControlOK, ReadLine, Goto, IInv, TypeOK
<1> QED BY <1>8, <1>10 DEF IInv

LEMMA BeginInv ==
  ASSUME IInv, NEW r \in Request, Begin(r)
  PROVE  IInv'
<1>1. PICK j \in Jobs :
        /\ job' = [job EXCEPT ![r] = j]
        /\ pc' = [pc EXCEPT ![r] =
                   IF Replayed(r, j) THEN "commit"
                   ELSE IF Admitted(j) THEN Entry(j.op) ELSE "rolledback"]
  BY DEF Begin, Goto
<1>2. pc[r] = "idle" /\ mem[r] = Blank /\ UNCHANGED <<mem, order>>
  BY DEF Begin, IInv, ControlOK, RequestControl, InFlight
<1>3. job'[r] = j /\ pc'[r] \in {"commit", "rolledback", Entry(j.op)}
  BY <1>1 DEF IInv, TypeOK
<1>4. Entry(j.op) \in {"lines", "grant", "patch", "apply", "lookup"}
  BY JobTypes DEF Entry
<1>5. TypeOK'
  <2>1. met' \in [Request -> SUBSET Request]
    BY DEF Begin, Meet, IInv, TypeOK, InFlight
  <2>2. pc' \in [Request -> Phase]
    BY <1>1, <1>3, <1>4 DEF IInv, TypeOK, Phase, Final
  <2> QED BY <1>1, <2>1, <2>2 DEF Begin, IInv, TypeOK
<1>6. RequestControl(r)'
  <2>1. j # NoRow /\ pc'[r] # "idle"
    BY <1>3, <1>4, CheckoutAssumption
  <2>2. CASE pc'[r] = "commit"
    <3>1. Replayed(r, j)
      BY <1>1, <1>4, <2>2 DEF IInv, TypeOK
    <3> QED
      BY <1>2, <1>3, <2>1, <2>2, <3>1
         DEF RequestControl, PlaceControl, Reaches, InFlight, Final, Replayed
  <2>3. CASE pc'[r] = "rolledback"
    BY <1>2, <1>3, <2>1, <2>3 DEF RequestControl, InFlight, Final
  <2>4. CASE pc'[r] = Entry(j.op) /\ Admitted(j)
    <3>1. j.op = "place" => PlaceControl(r)'
      <4> SUFFICES ASSUME j.op = "place"
                   PROVE  PlaceControl(r)'
        OBVIOUS
      <4>1. pc'[r] = "lines" /\ j.lines \in Seq(Line) /\ j.lines # <<>>
        BY <2>4, JobTypes DEF Entry, Admitted, PlaceAdmitted, PlaceJob
      <4>2. mem'[r].line = 1 /\ Len(mem'[r].copies) = 0
        BY <1>2 DEF Blank
      <4> QED BY <1>3, <4>1, <4>2 DEF PlaceControl
    <3>2. /\ j.op = "grant" => j.amount > 0
          /\ j.op = "create" => j.percent \in CouponRow
      BY <2>4 DEF Admitted, GrantAdmitted, CreateAdmitted, CouponRow
    <3>3. pc'[r] \in Reaches(j.op) /\ ~(pc'[r] \in {"stock", "update"})
          /\ (j.op = "apply" => pc'[r] = "apply")
      BY <2>4, JobTypes DEF Entry, Reaches
    <3>4. mem'[r].line = 1
      BY <1>2 DEF Blank
    <3> QED
      BY <1>2, <1>3, <1>4, <2>1, <2>4, <3>1, <3>2, <3>3, <3>4 DEF RequestControl, InFlight, Final
  <2> QED BY <1>1, <1>3, <2>2, <2>3, <2>4 DEF IInv, TypeOK
<1>7. ControlOK'
  BY <1>1, <1>2, <1>6, OthersControl DEF ControlOK, IInv, TypeOK
<1> QED BY <1>5, <1>7 DEF IInv

LEMMA RollbackInv ==
  ASSUME IInv, NEW r \in InFlight, Rollback(r)
  PROVE  IInv'
<1>1. TypeOK'
  BY DiscardTypes, BlankType DEF IInv, TypeOK, Rollback, Goto, Phase, Final, InFlight
<1>2. RequestControl(r)'
  BY DEF Rollback, Goto, IInv, TypeOK, ControlOK, RequestControl, InFlight, Final
<1>3. ControlOK'
  BY <1>2, OthersControl DEF ControlOK, Rollback, Goto, IInv, TypeOK, InFlight, Final
<1> QED BY <1>1, <1>3 DEF IInv

LEMMA CommitInv ==
  ASSUME IInv, NEW r \in Request, Commit(r)
  PROVE  IInv'
<1>1. TypeOK'
  BY PublishTypes, BlankType DEF IInv, TypeOK, Commit, Goto, Phase, Final
<1>2. RequestControl(r)'
  BY DEF Commit, Goto, IInv, TypeOK, ControlOK, RequestControl, InFlight, Final
<1>3. ControlOK'
  BY <1>2, OthersControl DEF ControlOK, Commit, Goto, IInv, TypeOK
<1> QED BY <1>1, <1>3 DEF IInv
\* The copy that a checkout or a patch saves next, and its product.
LEMMA CopyTypes ==
  ASSUME IInv, NEW r \in InFlight, pc[r] \in {"stock", "update"}
  PROVE  /\ job[r].op \in {"place", "patch"}
         /\ mem[r].line \in 1..Len(mem[r].copies)
         /\ mem[r].copies[mem[r].line] \in ProductRow
         /\ CurrentProduct(r) \in Product \cap Key
         /\ Saved(r) \in ProductRow
<1>1. job[r].op \in {"place", "patch"}
  BY InFlightFacts DEF Reaches
<1>2. mem[r].line \in 1..Len(mem[r].copies)
  <2>1. CASE job[r].op = "place"
    BY <2>1, InFlightFacts DEF PlaceControl
  <2>2. CASE job[r].op = "patch"
    <3>1. mem[r].line = 1 /\ Len(mem[r].copies) = 1
      BY <2>2, InFlightFacts
    <3> QED BY <3>1
  <2> QED BY <1>1, <2>1, <2>2
<1>3. mem[r].copies[mem[r].line] \in ProductRow
  BY <1>2, InFlightFacts DEF Memory
<1>4. CurrentProduct(r) \in Product \cap Key
  <2>1. CASE job[r].op = "place"
    BY <2>1, CartLineType DEF CurrentProduct
  <2>2. CASE job[r].op = "patch"
    BY <2>2, InFlightFacts, CheckoutAssumption DEF CurrentProduct, PatchJob
  <2> QED BY <1>1, <2>1, <2>2
<1>5. Saved(r) \in ProductRow
  <2>1. CASE job[r].op = "place"
    BY <2>1, <1>3, CartLineType DEF Saved, ProductRow
  <2>2. CASE job[r].op = "patch"
    BY <2>2, <1>3 DEF Saved
  <2> QED BY <1>1, <2>1, <2>2
<1> QED BY <1>1, <1>2, <1>3, <1>4, <1>5

\* Where the loop over the copies goes from here.
LEMMA StockLoopControl ==
  ASSUME IInv, NEW r \in InFlight, pc[r] \in {"stock", "update"},
         job' = job, mem'[r] \in Memory, mem'[r].copies = mem[r].copies,
         \/ mem'[r].line = mem[r].line /\ pc'[r] = "update"
         \/ mem'[r].line = NextCopy(r) /\ pc'[r] = AfterStock(r)
  PROVE  RequestControl(r)'
<1>1. /\ job[r].op \in {"place", "patch"}
      /\ mem[r].line \in 1..Len(mem[r].copies) /\ Len(mem[r].copies) \in Nat
  BY CopyTypes, InFlightFacts DEF Memory
<1>2. mem'[r].line \in 1..Len(mem[r].copies)
  BY <1>1 DEF NextCopy, LastCopy
<1>3. pc'[r] \in {"stock", "update"} \cup
                 IF job[r].op = "place" THEN {"order"} ELSE {"commit"}
  BY DEF AfterStock
<1>4. r \in InFlight' /\ job[r] # NoRow
  BY <1>3 DEF InFlight, Final, IInv, ControlOK, RequestControl
<1>5. CASE job[r].op = "place"
  <2>1. PlaceControl(r)'
    BY <1>2, <1>3, <1>5, InFlightFacts DEF PlaceControl
  <2> QED
    BY <1>3, <1>4, <1>5, <2>1 DEF RequestControl, Reaches, InFlight
<1>6. CASE job[r].op = "patch"
  <2>1. mem[r].line = 1 /\ Len(mem[r].copies) = 1
    BY <1>6, InFlightFacts
  <2>2. mem'[r].line = 1
    BY <1>2, <2>1
  <2> QED
    BY <1>3, <1>4, <1>6, <2>1, <2>2 DEF RequestControl, Reaches, InFlight
<1> QED BY <1>1, <1>5, <1>6

LEMMA SelectForStockInv ==
  ASSUME IInv, NEW r \in Request, SelectForStock(r)
  PROVE  IInv'
<1> DEFINE dirty == Differing(Saved(r), Visible(r, CurrentProduct(r)))
<1>1. r \in InFlight /\ pc[r] = "stock" /\ mem[r] \in Memory
  BY DEF SelectForStock, InFlight, Final, IInv, TypeOK
<1>2. mem[r].line \in 1..Len(mem[r].copies)
  BY <1>1, CopyTypes
<1>3. /\ mem'[r] \in Memory /\ mem'[r].copies = mem[r].copies
      /\ \/ mem'[r].line = mem[r].line /\ pc'[r] = "update"
         \/ mem'[r].line = NextCopy(r) /\ pc'[r] = AfterStock(r)
  <2>1. CASE dirty = {}
    <3>1. NextCopy(r) \in Nat \ {0}
      BY <1>1, <1>2 DEF NextCopy
    <3>2. mem'[r] = [mem[r] EXCEPT !.line = NextCopy(r)] /\ pc'[r] = AfterStock(r)
      BY <2>1 DEF SelectForStock, Goto, IInv, TypeOK
    <3> QED BY <1>1, <3>1, <3>2 DEF Memory
  <2>2. CASE dirty # {}
    <3>1. dirty \in SUBSET Column
      BY DEF Differing
    <3>2. mem'[r] = [mem[r] EXCEPT !.dirty = dirty] /\ pc'[r] = "update"
      BY <2>2 DEF SelectForStock, Goto, IInv, TypeOK
    <3> HIDE DEF dirty
    <3> QED BY <1>1, <3>1, <3>2 DEF Memory
  <2> QED BY <2>1, <2>2
<1>4. TypeOK'
  BY <1>3 DEF IInv, TypeOK, SelectForStock, Goto, AfterStock, Phase
<1>5. RequestControl(r)'
  BY <1>1, <1>3, StockLoopControl DEF SelectForStock
<1>6. ControlOK'
  BY <1>1, <1>5, OthersControl DEF ControlOK, SelectForStock, Goto, IInv, TypeOK
<1> QED BY <1>4, <1>6 DEF IInv

LEMMA UpdateStockInv ==
  ASSUME IInv, NEW r \in Request, UpdateStock(r)
  PROVE  IInv'
<1> DEFINE p == CurrentProduct(r)
           value == Overwrite(latest[p], Saved(r), mem[r].dirty)
<1>1. r \in InFlight /\ pc[r] = "update" /\ mem[r] \in Memory
  BY DEF UpdateStock, InFlight, Final, IInv, TypeOK
<1>2. p \in Product \cap Key /\ Saved(r) \in ProductRow
      /\ mem[r].line \in 1..Len(mem[r].copies)
  BY <1>1, CopyTypes
<1>3. RowOK(p, value)
  <2>1. latest[p] \in ProductRow
    BY <1>2 DEF IInv, TypeOK, RowOK
  <2>2. value \in ProductRow
    BY <1>2, <2>1 DEF Overwrite, ProductRow
  <2> QED BY <1>2, <2>2, CheckoutAssumption DEF RowOK
<1>4. /\ mem'[r] \in Memory /\ mem'[r].copies = mem[r].copies
      /\ mem'[r].line = NextCopy(r) /\ pc'[r] = AfterStock(r)
  <2>1. NextCopy(r) \in Nat \ {0}
    BY <1>1, <1>2 DEF NextCopy
  <2>2. mem'[r] = [mem[r] EXCEPT !.dirty = {}, !.line = NextCopy(r)] /\ pc'[r] = AfterStock(r)
    BY DEF UpdateStock, Goto, IInv, TypeOK
  <2> QED BY <1>1, <2>1, <2>2 DEF Memory
<1>5. TypeOK'
  <2>1. Put(r, p, value)
    BY DEF UpdateStock
  <2>2. /\ IsTable(row') /\ \A q \in Key : RowOK(q, row'[q])
        /\ IsTable(latest') /\ \A q \in Key : RowOK(q, latest'[q])
        /\ writer' \in [Key -> Request \cup {Nobody}]
    BY <1>2, <1>3, <2>1, PutTypes DEF IInv
  <2> QED BY <1>4, <2>2 DEF IInv, TypeOK, UpdateStock, Goto, AfterStock, Phase
<1>6. RequestControl(r)'
  BY <1>1, <1>4, StockLoopControl DEF UpdateStock
<1>7. ControlOK'
  BY <1>1, <1>6, OthersControl DEF ControlOK, UpdateStock, Goto, IInv, TypeOK
<1> QED BY <1>5, <1>7 DEF IInv
\* The order that a coupon is applied to stays visible.
LEMMA AppliedOrderStays ==
  ASSUME IInv, NEW r \in InFlight, job[r].op = "apply", OrderVisible(job[r].order),
         order' = order, \A q \in Request \ {r} : pc'[q] = pc[q]
  PROVE  OrderVisible(job[r].order)'  \/ job'[r] # job[r]
<1>1. job[r].order \in Request /\ pc[job[r].order] = "committed"
  BY InFlightFacts DEF ApplyJob, OrderVisible, Committed
<1>2. job[r].order # r
  BY <1>1 DEF InFlight, Final
<1> QED BY <1>1, <1>2 DEF OrderVisible, Committed

LEMMA ReadCouponInv ==
  ASSUME IInv, NEW r \in Request, ReadCoupon(r)
  PROVE  IInv'
<1>1. r \in InFlight /\ pc[r] = "coupon" /\ mem[r] \in Memory
  BY DEF ReadCoupon, InFlight, Final, IInv, TypeOK
<1>2. job[r].op \in {"place", "apply"}
  BY <1>1, InFlightFacts DEF Reaches
<1>3. Visible(r, job[r].coupon) \in 0..100
  <2>1. job[r].coupon \in Coupon
    BY <1>1, <1>2, InFlightFacts DEF PlaceControl, PlaceJob, ApplyJob
  <2>2. Visible(r, job[r].coupon) # NoRow
    BY DEF ReadCoupon, CouponFound
  <2> QED BY <2>1, <2>2, VisibleType, CheckoutAssumption DEF RowOK, CouponRow, IInv
<1>4. mem'[r] = [mem[r] EXCEPT !.percent = Visible(r, job[r].coupon)] /\ pc'[r] = "redeemed"
  BY DEF ReadCoupon, Goto, IInv, TypeOK
<1>5. mem'[r] \in Memory /\ mem'[r].line = mem[r].line /\ mem'[r].copies = mem[r].copies
  BY <1>1, <1>3, <1>4 DEF Memory
<1>6. TypeOK'
  BY <1>5 DEF IInv, TypeOK, ReadCoupon, Goto, Phase
<1>7. RequestControl(r)'
  <2>1. r \in InFlight' /\ job' = job /\ job[r] # NoRow
    BY <1>1, <1>4 DEF InFlight, Final, ReadCoupon, IInv, ControlOK, RequestControl
  <2>2. CASE job[r].op = "place"
    <3>1. PlaceControl(r)'
      BY <1>1, <1>4, <1>5, <2>1, <2>2, InFlightFacts DEF PlaceControl
    <3> QED BY <1>4, <2>1, <2>2, <3>1 DEF RequestControl, Reaches, InFlight
  <2>3. CASE job[r].op = "apply"
    <3>1. OrderVisible(job[r].order)'
      BY <1>1, <2>1, <2>3, InFlightFacts, AppliedOrderStays DEF ReadCoupon, Goto, IInv, TypeOK
    <3> QED BY <1>4, <2>1, <2>3, <3>1 DEF RequestControl, Reaches, InFlight
  <2> QED BY <1>2, <2>2, <2>3
<1>8. ControlOK'
  BY <1>1, <1>7, OthersControl DEF ControlOK, ReadCoupon, Goto, IInv, TypeOK
<1> QED BY <1>6, <1>8 DEF IInv

LEMMA CheckRedeemedInv ==
  ASSUME IInv, NEW r \in Request, CheckRedeemed(r)
  PROVE  IInv'
<1>1. r \in InFlight /\ pc[r] = "redeemed"
  BY DEF CheckRedeemed, InFlight, Final
<1>2. job[r].op \in {"place", "apply"}
  BY <1>1, InFlightFacts DEF Reaches
<1>3. pc'[r] = IF job[r].op = "place" THEN "credit" ELSE "redeem"
  BY DEF CheckRedeemed, Goto, IInv, TypeOK
<1>4. TypeOK'
  BY <1>3 DEF IInv, TypeOK, CheckRedeemed, Goto, Phase
<1>5. RequestControl(r)'
  <2>1. r \in InFlight' /\ job' = job /\ mem' = mem /\ job[r] # NoRow
    BY <1>1, <1>3 DEF InFlight, Final, CheckRedeemed, IInv, ControlOK, RequestControl
  <2>2. CASE job[r].op = "place"
    <3>1. PlaceControl(r)'
      BY <1>1, <1>3, <2>1, <2>2, InFlightFacts DEF PlaceControl
    <3> QED BY <1>3, <2>1, <2>2, <3>1 DEF RequestControl, Reaches, InFlight
  <2>3. CASE job[r].op = "apply"
    <3>1. OrderVisible(job[r].order)'
      BY <1>1, <2>1, <2>3, InFlightFacts, AppliedOrderStays DEF CheckRedeemed, Goto, IInv, TypeOK
    <3> QED BY <1>3, <2>1, <2>3, <3>1 DEF RequestControl, Reaches, InFlight
  <2> QED BY <1>2, <2>2, <2>3
<1>6. ControlOK'
  BY <1>1, <1>5, OthersControl DEF ControlOK, CheckRedeemed, Goto, IInv, TypeOK
<1> QED BY <1>4, <1>6 DEF IInv

\* What a request reads and computes of credits.
LEMMA CreditTypes ==
  ASSUME IInv, NEW r \in InFlight, job[r].op \in {"place", "grant"}
  PROVE  /\ Owner(r) \in User \cap Key
         /\ Visible(r, Owner(r)) \in CreditRow \cup {NoRow}
         /\ Funds(r) \in Int
         /\ Total(r) \in Nat
<1>1. Owner(r) \in User \cap Key
  BY InFlightFacts, CheckoutAssumption DEF Owner, PlaceJob, GrantJob
<1>2. Visible(r, Owner(r)) \in CreditRow \cup {NoRow}
  BY <1>1, VisibleType DEF RowOK, IInv, InFlight
<1>3. Funds(r) \in Int
  BY <1>2 DEF Funds, CreditRow
<1>4. Total(r) \in Nat
  <2>1. mem[r].subtotal \in Int /\ mem[r].percent \in Int
    <3>1. mem[r] \in Memory
      BY InFlightFacts
    <3>2. mem[r].subtotal \in Int /\ mem[r].percent \in 0..100
      BY <3>1 DEF Memory
    <3> QED BY <3>2
  <2>2. mem[r].subtotal - (mem[r].subtotal * mem[r].percent) \div 100 \in Int
    BY <2>1
  <2> QED BY <2>2 DEF Total, Charge
<1> QED BY <1>1, <1>2, <1>3, <1>4

LEMMA ReadCreditInv ==
  ASSUME IInv, NEW r \in Request, ReadCredit(r)
  PROVE  IInv'
<1> DEFINE balance == Funds(r) - Total(r)
<1>1. r \in InFlight /\ pc[r] = "credit" /\ mem[r] \in Memory
  BY DEF ReadCredit, InFlight, Final, IInv, TypeOK
<1>2. job[r].op = "place"
  BY <1>1, InFlightFacts DEF Reaches
<1>3. balance \in Int
  BY <1>1, <1>2, CreditTypes
<1>4. mem'[r] = [mem[r] EXCEPT !.balance = balance] /\ pc'[r] = "stock"
  BY DEF ReadCredit, Goto, IInv, TypeOK
<1> HIDE DEF balance
<1>5. mem'[r] \in Memory /\ mem'[r].line = mem[r].line /\ mem'[r].copies = mem[r].copies
  BY <1>1, <1>3, <1>4 DEF Memory
<1>6. TypeOK'
  BY <1>5 DEF IInv, TypeOK, ReadCredit, Goto, Phase
<1>7. RequestControl(r)'
  <2>1. r \in InFlight' /\ job' = job /\ job[r] # NoRow
    BY <1>1, <1>4 DEF InFlight, Final, ReadCredit, IInv, ControlOK, RequestControl
  <2>2. PlaceControl(r)'
    BY <1>1, <1>2, <1>4, <1>5, <2>1, InFlightFacts DEF PlaceControl
  <2> QED BY <1>2, <1>4, <2>1, <2>2 DEF RequestControl, Reaches, InFlight
<1>8. ControlOK'
  BY <1>1, <1>7, OthersControl DEF ControlOK, ReadCredit, Goto, IInv, TypeOK
<1> QED BY <1>6, <1>8 DEF IInv

LEMMA InsertOrderInv ==
  ASSUME IInv, NEW r \in Request, InsertOrder(r)
  PROVE  IInv'
<1>1. r \in InFlight /\ pc[r] = "order"
  BY DEF InsertOrder, InFlight, Final
<1>2. job[r].op = "place" /\ job[r] \in PlaceJob /\ PlaceControl(r) /\ mem[r] \in Memory
  BY <1>1, InFlightFacts DEF Reaches
<1>3. NewOrder(r) \in OrderRow
  <2>1. /\ Len(mem[r].copies) = Len(job[r].lines) /\ Len(job[r].lines) \in Nat
        /\ mem[r].copies \in Seq(ProductRow) /\ job[r].lines \in Seq(Line)
    BY <1>1, <1>2 DEF PlaceControl, PlaceJob, Memory
  <2>2. ASSUME NEW i \in 1..Len(mem[r].copies)
        PROVE  [product |-> job[r].lines[i].product,
                quantity |-> job[r].lines[i].quantity,
                unit_price |-> mem[r].copies[i].price] \in OrderLine
    <3>1. job[r].lines[i] \in Line /\ mem[r].copies[i] \in ProductRow
      BY <2>1, <2>2
    <3> QED BY <3>1 DEF OrderLine, Line, ProductRow
  <2>3. Total(r) \in Int
    BY <1>1, <1>2, CreditTypes
  <2>4. [i \in 1..Len(mem[r].copies) |->
          [product |-> job[r].lines[i].product,
           quantity |-> job[r].lines[i].quantity,
           unit_price |-> mem[r].copies[i].price]] \in Seq(OrderLine)
    BY <2>1, <2>2
  <2> QED BY <1>2, <2>3, <2>4 DEF NewOrder, OrderRow, PlaceJob
<1>4. pc'[r] = "fresh" /\ order'[r] = NewOrder(r)
  BY DEF InsertOrder, Goto, IInv, TypeOK
<1>5. TypeOK'
  BY <1>3 DEF IInv, TypeOK, InsertOrder, Goto, Phase
<1>6. RequestControl(r)'
  <2>1. r \in InFlight' /\ job' = job /\ mem' = mem /\ job[r] # NoRow
    BY <1>1, <1>4 DEF InFlight, Final, InsertOrder, IInv, ControlOK, RequestControl
  <2>2. order'[r] # NoRow
    BY <1>3, <1>4, CheckoutAssumption
  <2> QED
    BY <1>2, <1>4, <2>1, <2>2 DEF RequestControl, PlaceControl, Reaches, InFlight
<1>7. ControlOK'
  BY <1>1, <1>6, OthersControl DEF ControlOK, InsertOrder, Goto, IInv, TypeOK
<1> QED BY <1>5, <1>7 DEF IInv

LEMMA RememberTypes ==
  ASSUME IInv, NEW r \in InFlight, Remember(r) \/ UNCHANGED results
  PROVE  results' \in [Request -> SUBSET IdempotencyKey]
<1>1. results \in [Request -> SUBSET IdempotencyKey] /\ r \in Request
  BY DEF IInv, TypeOK, InFlight
<1>2. job[r].op = "place" /\ job[r].key # NoRow => job[r].key \in IdempotencyKey
  BY InFlightFacts DEF PlaceJob
<1> QED BY <1>1, <1>2 DEF Remember, UseCase

LEMMA SelectForCreditInv ==
  ASSUME IInv, NEW r \in Request, SelectForCredit(r)
  PROVE  IInv'
<1> DEFINE absent == Visible(r, Owner(r)) = NoRow
<1>1. r \in InFlight /\ pc[r] = "fresh" /\ mem[r] \in Memory
  BY DEF SelectForCredit, InFlight, Final, IInv, TypeOK
<1>2. job[r].op \in {"place", "grant"}
  BY <1>1, InFlightFacts DEF Reaches
<1>3. mem'[r] = [mem[r] EXCEPT !.inserting = absent] /\ pc'[r] \in {AfterCredit(r), "save"}
  BY DEF SelectForCredit, Goto, IInv, TypeOK
<1>4. mem'[r] \in Memory
  <2>1. absent \in BOOLEAN
    OBVIOUS
  <2> HIDE DEF absent
  <2> QED BY <1>1, <1>3, <2>1 DEF Memory
<1>5. TypeOK'
  <2>1. results' \in [Request -> SUBSET IdempotencyKey]
    BY <1>1, RememberTypes DEF SelectForCredit
  <2> QED BY <1>4, <2>1 DEF IInv, TypeOK, SelectForCredit, Goto, AfterCredit, Phase
<1>6. RequestControl(r)'
  <2>1. job' = job /\ job[r] # NoRow /\ order' = order /\ r \in InFlight'
    BY <1>1, <1>3 DEF InFlight, Final, SelectForCredit, AfterCredit, IInv, ControlOK, RequestControl
  <2>2. CASE job[r].op = "place"
    <3>1. PlaceControl(r)'
      BY <1>1, <1>3, <2>1, <2>2, InFlightFacts DEF PlaceControl, AfterCredit
    <3> QED
      BY <1>3, <2>1, <2>2, <3>1 DEF RequestControl, Reaches, InFlight, AfterCredit
  <2>3. CASE job[r].op = "grant"
    BY <1>1, <1>3, <2>1, <2>3, InFlightFacts DEF RequestControl, Reaches, InFlight, AfterCredit
  <2> QED BY <1>2, <2>2, <2>3
<1>7. ControlOK'
  BY <1>1, <1>6, OthersControl DEF ControlOK, SelectForCredit, Goto, IInv, TypeOK
<1> QED BY <1>5, <1>7 DEF IInv

LEMMA SaveCreditInv ==
  ASSUME IInv, NEW r \in Request, SaveCredit(r)
  PROVE  IInv'
<1>1. r \in InFlight /\ pc[r] = "save" /\ mem[r] \in Memory
  BY DEF SaveCredit, InFlight, Final, IInv, TypeOK
<1>2. job[r].op \in {"place", "grant"}
  BY <1>1, InFlightFacts DEF Reaches
<1>3. pc'[r] = AfterCredit(r)
  BY DEF SaveCredit, Goto, IInv, TypeOK
<1>4. TypeOK'
  <2>1. results' \in [Request -> SUBSET IdempotencyKey]
    BY <1>1, RememberTypes DEF SaveCredit
  <2>2. Owner(r) \in User \cap Key /\ mem[r].balance \in CreditRow
    BY <1>1, <1>2, CreditTypes DEF Memory, CreditRow
  <2>3. RowOK(Owner(r), mem[r].balance)
    BY <2>2, CheckoutAssumption DEF RowOK
  <2>4. /\ IsTable(row') /\ \A q \in Key : RowOK(q, row'[q])
        /\ IsTable(latest') /\ \A q \in Key : RowOK(q, latest'[q])
        /\ writer' \in [Key -> Request \cup {Nobody}]
    BY <2>2, <2>3, PutTypes DEF SaveCredit, IInv
  <2> QED BY <2>1, <2>4 DEF IInv, TypeOK, SaveCredit, Goto, AfterCredit, Phase
<1>5. RequestControl(r)'
  <2>1. job' = job /\ job[r] # NoRow /\ order' = order /\ mem' = mem /\ r \in InFlight'
    BY <1>1, <1>3 DEF InFlight, Final, SaveCredit, AfterCredit, IInv, ControlOK, RequestControl
  <2>2. CASE job[r].op = "place"
    <3>1. PlaceControl(r)'
      BY <1>1, <1>3, <2>1, <2>2, InFlightFacts DEF PlaceControl, AfterCredit
    <3> QED
      BY <1>3, <2>1, <2>2, <3>1 DEF RequestControl, Reaches, InFlight, AfterCredit
  <2>3. CASE job[r].op = "grant"
    BY <1>1, <1>3, <2>1, <2>3, InFlightFacts DEF RequestControl, Reaches, InFlight, AfterCredit
  <2> QED BY <1>2, <2>2, <2>3
<1>6. ControlOK'
  BY <1>1, <1>5, OthersControl DEF ControlOK, SaveCredit, Goto, IInv, TypeOK
<1> QED BY <1>4, <1>6 DEF IInv

LEMMA RecordRedemptionInv ==
  ASSUME IInv, NEW r \in Request, RecordRedemption(r)
  PROVE  IInv'
<1>1. r \in InFlight /\ pc[r] = "redeem"
  BY DEF RecordRedemption, InFlight, Final
<1>2. job[r].op \in {"place", "apply"}
  BY <1>1, InFlightFacts DEF Reaches
<1>3. pc'[r] = "commit"
  BY DEF RecordRedemption, Goto, IInv, TypeOK
<1>4. TypeOK'
  <2>1. results' \in [Request -> SUBSET IdempotencyKey]
    BY <1>1, RememberTypes DEF RecordRedemption
  <2>2. CASE job[r].op = "place"
    <3>1. job[r].coupon \in Coupon
      BY <1>1, <2>2, InFlightFacts DEF PlaceJob, PlaceControl
    <3> QED
      BY <1>3, <2>1, <2>2, <3>1
         DEF IInv, TypeOK, RecordRedemption, Goto, Phase, RedemptionRow
  <2>3. CASE job[r].op = "apply"
    <3>1. job[r].coupon \in Coupon /\ job[r].order \in Request
      BY <1>1, <2>3, InFlightFacts DEF ApplyJob
    <3> QED
      BY <1>3, <2>1, <2>3, <3>1
         DEF IInv, TypeOK, RecordRedemption, Goto, Phase, RedemptionRow
  <2> QED BY <1>2, <2>2, <2>3
<1>5. RequestControl(r)'
  <2>1. job' = job /\ job[r] # NoRow /\ mem' = mem /\ r \in InFlight'
    BY <1>1, <1>3 DEF InFlight, Final, RecordRedemption, IInv, ControlOK, RequestControl
  <2>2. CASE job[r].op = "place"
    BY <1>3, <2>1, <2>2 DEF RequestControl, PlaceControl, Reaches, InFlight
  <2>3. CASE job[r].op = "apply"
    <3>1. OrderVisible(job[r].order)'
      BY <1>1, <2>1, <2>3, InFlightFacts, AppliedOrderStays
         DEF RecordRedemption, Goto, IInv, TypeOK
    <3> QED BY <1>3, <2>1, <2>3, <3>1 DEF RequestControl, Reaches, InFlight
  <2> QED BY <1>2, <2>2, <2>3
<1>6. ControlOK'
  BY <1>1, <1>5, OthersControl DEF ControlOK, RecordRedemption, Goto, IInv, TypeOK
<1> QED BY <1>4, <1>6 DEF IInv

LEMMA ReadForGrantInv ==
  ASSUME IInv, NEW r \in Request, ReadForGrant(r)
  PROVE  IInv'
<1> DEFINE balance == Funds(r) + job[r].amount
<1>1. r \in InFlight /\ pc[r] = "grant" /\ mem[r] \in Memory
  BY DEF ReadForGrant, InFlight, Final, IInv, TypeOK
<1>2. job[r].op = "grant" /\ job[r] \in GrantJob
  BY <1>1, InFlightFacts DEF Reaches
<1>3. balance \in Int
  BY <1>1, <1>2, CreditTypes DEF GrantJob
<1>4. mem'[r] = [mem[r] EXCEPT !.balance = balance] /\ pc'[r] = "fresh"
  BY DEF ReadForGrant, Goto, IInv, TypeOK
<1> HIDE DEF balance
<1>5. mem'[r] \in Memory
  BY <1>1, <1>3, <1>4 DEF Memory
<1>6. TypeOK'
  BY <1>5 DEF IInv, TypeOK, ReadForGrant, Goto, Phase
<1>7. RequestControl(r)'
  <2>1. r \in InFlight' /\ job' = job /\ job[r] # NoRow
    BY <1>1, <1>4 DEF InFlight, Final, ReadForGrant, IInv, ControlOK, RequestControl
  <2> QED
    BY <1>1, <1>2, <1>4, <2>1, InFlightFacts DEF RequestControl, Reaches, InFlight
<1>8. ControlOK'
  BY <1>1, <1>7, OthersControl DEF ControlOK, ReadForGrant, Goto, IInv, TypeOK
<1> QED BY <1>6, <1>8 DEF IInv

LEMMA ReadForPatchInv ==
  ASSUME IInv, NEW r \in Request, ReadForPatch(r)
  PROVE  IInv'
<1> DEFINE seen == Visible(r, job[r].product)
           copy == [stock |-> Patched(seen.stock, job[r].stock),
                    price |-> Patched(seen.price, job[r].price),
                    active |-> Patched(seen.active, job[r].active)]
           copies == <<copy>>
<1>1. r \in InFlight /\ pc[r] = "patch" /\ mem[r] \in Memory
  BY DEF ReadForPatch, InFlight, Final, IInv, TypeOK
<1>2. job[r].op = "patch" /\ job[r] \in PatchJob /\ mem[r].line = 1
  BY <1>1, InFlightFacts DEF Reaches
<1>3. copies \in Seq(ProductRow) /\ Len(copies) = 1
  <2>1. job[r].product \in Product
    BY <1>2 DEF PatchJob
  <2>2. seen \in ProductRow
    BY <2>1, VisibleType, CheckoutAssumption DEF RowOK, IInv
  <2>3. copy \in ProductRow
    BY <1>2, <2>2 DEF ProductRow, PatchJob, Patched
  <2> HIDE DEF copy
  <2> QED BY <2>3
<1>4. mem'[r] = [mem[r] EXCEPT !.copies = copies] /\ pc'[r] = "stock"
  BY DEF ReadForPatch, Goto, IInv, TypeOK
<1> HIDE DEF copies
<1>5. mem'[r] \in Memory /\ mem'[r].copies = copies /\ mem'[r].line = 1
  BY <1>1, <1>2, <1>3, <1>4 DEF Memory
<1>6. TypeOK'
  BY <1>5 DEF IInv, TypeOK, ReadForPatch, Goto, Phase
<1>7. RequestControl(r)'
  <2>1. r \in InFlight' /\ job' = job /\ job[r] # NoRow
    BY <1>1, <1>4 DEF InFlight, Final, ReadForPatch, IInv, ControlOK, RequestControl
  <2> QED
    BY <1>2, <1>3, <1>4, <1>5, <2>1 DEF RequestControl, Reaches, InFlight
<1>8. ControlOK'
  BY <1>1, <1>7, OthersControl DEF ControlOK, ReadForPatch, Goto, IInv, TypeOK
<1> QED BY <1>6, <1>8 DEF IInv

LEMMA ReadForApplyInv ==
  ASSUME IInv, NEW r \in Request, ReadForApply(r)
  PROVE  IInv'
<1>1. r \in InFlight /\ pc[r] = "apply"
  BY DEF ReadForApply, InFlight, Final
<1>2. job[r].op = "apply"
  BY <1>1, InFlightFacts DEF Reaches
<1>3. pc'[r] = "coupon"
  BY DEF ReadForApply, Goto, IInv, TypeOK
<1>4. TypeOK'
  BY <1>3 DEF IInv, TypeOK, ReadForApply, Goto, Phase
<1>5. RequestControl(r)'
  <2>1. r \in InFlight' /\ job' = job /\ job[r] # NoRow
    BY <1>1, <1>3 DEF InFlight, Final, ReadForApply, IInv, ControlOK, RequestControl
  <2>2. OrderVisible(job[r].order)'
    BY <1>1, <1>2, <2>1, AppliedOrderStays DEF ReadForApply, OrderReadable, Goto, IInv, TypeOK
  <2> QED BY <1>2, <1>3, <2>1, <2>2 DEF RequestControl, Reaches, InFlight
<1>6. ControlOK'
  BY <1>1, <1>5, OthersControl DEF ControlOK, ReadForApply, Goto, IInv, TypeOK
<1> QED BY <1>4, <1>6 DEF IInv

LEMMA LookUpCodeInv ==
  ASSUME IInv, NEW r \in Request, LookUpCode(r)
  PROVE  IInv'
<1>1. r \in InFlight /\ pc[r] = "lookup" /\ mem[r] \in Memory
  BY DEF LookUpCode, InFlight, Final, IInv, TypeOK
<1>2. job[r].op = "create" /\ job[r].percent \in CouponRow
  BY <1>1, InFlightFacts DEF Reaches
<1>3. mem'[r] = [mem[r] EXCEPT !.inserting = TRUE] /\ pc'[r] = "insert"
  BY DEF LookUpCode, Goto, IInv, TypeOK
<1>4. mem'[r] \in Memory
  BY <1>1, <1>3 DEF Memory
<1>5. TypeOK'
  BY <1>4 DEF IInv, TypeOK, LookUpCode, Goto, Phase
<1>6. RequestControl(r)'
  <2>1. r \in InFlight' /\ job' = job /\ job[r] # NoRow
    BY <1>1, <1>3 DEF InFlight, Final, LookUpCode, IInv, ControlOK, RequestControl
  <2> QED BY <1>2, <1>3, <2>1 DEF RequestControl, Reaches, InFlight
<1>7. ControlOK'
  BY <1>1, <1>6, OthersControl DEF ControlOK, LookUpCode, Goto, IInv, TypeOK
<1> QED BY <1>5, <1>7 DEF IInv

LEMMA InsertCouponInv ==
  ASSUME IInv, NEW r \in Request, InsertCoupon(r)
  PROVE  IInv'
<1>1. r \in InFlight /\ pc[r] = "insert"
  BY DEF InsertCoupon, InFlight, Final
<1>2. job[r].op = "create" /\ job[r] \in CreateJob /\ job[r].percent \in CouponRow
  BY <1>1, InFlightFacts DEF Reaches
<1>3. pc'[r] = "commit"
  BY DEF InsertCoupon, Goto, IInv, TypeOK
<1>4. TypeOK'
  <2>1. job[r].coupon \in Coupon \cap Key
    BY <1>2, CheckoutAssumption DEF CreateJob
  <2>2. RowOK(job[r].coupon, job[r].percent)
    BY <1>2, <2>1, CheckoutAssumption DEF RowOK
  <2>3. /\ IsTable(row') /\ \A q \in Key : RowOK(q, row'[q])
        /\ IsTable(latest') /\ \A q \in Key : RowOK(q, latest'[q])
        /\ writer' \in [Key -> Request \cup {Nobody}]
    BY <2>1, <2>2, PutTypes DEF InsertCoupon, IInv
  <2> QED BY <1>3, <2>3 DEF IInv, TypeOK, InsertCoupon, Goto, Phase
<1>5. RequestControl(r)'
  <2>1. r \in InFlight' /\ job' = job /\ job[r] # NoRow
    BY <1>1, <1>3 DEF InFlight, Final, InsertCoupon, IInv, ControlOK, RequestControl
  <2> QED BY <1>2, <1>3, <2>1 DEF RequestControl, Reaches, InFlight
<1>6. ControlOK'
  BY <1>1, <1>5, OthersControl DEF ControlOK, InsertCoupon, Goto, IInv, TypeOK
<1> QED BY <1>4, <1>6 DEF IInv

\* Only requests in flight are refused, cancelled or failed.
LEMMA RolledBackInFlight ==
  ASSUME IInv, NEW r \in Request, Refuse(r) \/ DeadlockVictim(r) \/ Fail(r)
  PROVE  r \in InFlight /\ Rollback(r)
<1>1. CASE Refuse(r)
  BY <1>1 DEF Refuse, Refused, RecheckFails, Duplicate, Writing, InFlight, Final
<1>2. CASE DeadlockVictim(r)
  <2>1. PICK S \in SUBSET Request : r \in S /\ {Waits[q] : q \in S} = S
    BY <1>2 DEF DeadlockVictim, InCycle
  <2>2. Waits[r] # Nobody
    BY <2>1, NobodyAssumption
  <2>3. Writing(r)
    BY <2>2 DEF Waits
  <2> QED BY <1>2, <2>3 DEF DeadlockVictim, Writing, InFlight, Final
<1>3. CASE Fail(r)
  BY <1>3 DEF Fail
<1> QED BY <1>1, <1>2, <1>3

LEMMA NextInv ==
  ASSUME IInv, [Next]_vars
  PROVE  IInv'
<1>1. ASSUME NEW r \in Request, Begin(r) \/ Step(r) \/ DeadlockVictim(r) \/ Fail(r)
      PROVE  IInv'
  <2>1. CASE Begin(r)
    BY <2>1, BeginInv
  <2>2. CASE Refuse(r) \/ DeadlockVictim(r) \/ Fail(r)
    BY <2>2, RolledBackInFlight, RollbackInv
  <2>3. CASE Step(r) /\ ~Refuse(r)
    BY <2>3, ReadLineInv, ReadCouponInv, CheckRedeemedInv, ReadCreditInv,
       SelectForStockInv, UpdateStockInv, InsertOrderInv, SelectForCreditInv,
       SaveCreditInv, RecordRedemptionInv, ReadForGrantInv, ReadForPatchInv,
       ReadForApplyInv, LookUpCodeInv, InsertCouponInv, CommitInv DEF Step
  <2> QED BY <1>1, <2>1, <2>2, <2>3
<1>2. CASE UNCHANGED vars
  BY <1>2 DEF vars, IInv, TypeOK, ControlOK, RequestControl, PlaceControl, InFlight,
       OrderVisible, Committed
<1> QED BY <1>1, <1>2 DEF Next, Quiesce

\* The requests follow the control flow of their use cases and every variable
\* keeps its type, whatever the products, users, bodies and interleavings.
THEOREM TypeCorrect == Spec => [](TypeOK /\ ControlOK)
<1>1. Init => IInv
  BY InitInv
<1>2. IInv /\ [Next]_vars => IInv'
  BY NextInv
<1>3. IInv => TypeOK /\ ControlOK
  BY DEF IInv
<1> QED BY <1>1, <1>2, <1>3, PTL DEF Spec

-----------------------------------------------------------------------------
(***************************************************************************)
(* The safety properties of Checkout, for every set of requests, products, *)
(* users and coupons and every set of bodies: the row locks leave nothing  *)
(* behind, nobody is in debt, no stock is negative, and a coupon is reused *)
(* only by requests that overlapped.  Each rests on the control invariant  *)
(* above and on a strengthening of its own.                                *)
(***************************************************************************)
\* A statement that writes no shared row.
PrivateStep(r) ==
  \/ ReadLine(r) \/ ReadCoupon(r) \/ CheckRedeemed(r) \/ ReadCredit(r)
  \/ SelectForStock(r) \/ InsertOrder(r) \/ SelectForCredit(r)
  \/ RecordRedemption(r) \/ ReadForGrant(r) \/ ReadForPatch(r)
  \/ ReadForApply(r) \/ LookUpCode(r)

\* What a step does: the cases of every proof below.
LEMMA StepCases ==
  ASSUME IInv, [Next]_vars
  PROVE  \/ UNCHANGED vars
         \/ \E r \in Request :
              \/ Begin(r)
              \/ r \in InFlight /\ (\/ PrivateStep(r) \/ UpdateStock(r)
                                    \/ SaveCredit(r) \/ InsertCoupon(r)
                                    \/ Commit(r) \/ Rollback(r))
<1>1. ASSUME NEW r \in Request, Begin(r) \/ Step(r) \/ DeadlockVictim(r) \/ Fail(r)
      PROVE  \/ Begin(r)
             \/ r \in InFlight /\ (\/ PrivateStep(r) \/ UpdateStock(r)
                                   \/ SaveCredit(r) \/ InsertCoupon(r)
                                   \/ Commit(r) \/ Rollback(r))
  <2>1. CASE Refuse(r) \/ DeadlockVictim(r) \/ Fail(r)
    BY <2>1, RolledBackInFlight
  <2>2. CASE Step(r) /\ ~Refuse(r)
    <3>1. \/ PrivateStep(r) \/ UpdateStock(r) \/ SaveCredit(r) \/ InsertCoupon(r)
          \/ Commit(r)
      BY <2>2 DEF Step, PrivateStep
    <3>2. r \in InFlight
      BY <3>1 DEF PrivateStep, ReadLine, ReadCoupon, CheckRedeemed, ReadCredit,
           SelectForStock, InsertOrder, SelectForCredit, RecordRedemption,
           ReadForGrant, ReadForPatch, ReadForApply, LookUpCode, UpdateStock,
           SaveCredit, InsertCoupon, Commit, InFlight, Final
    <3> QED BY <3>1, <3>2
  <2> QED BY <1>1, <2>1, <2>2
<1> QED BY <1>1 DEF Next, Quiesce

\* A statement that does not end its request leaves the others where they are.
LEMMA StaysInFlight ==
  ASSUME IInv, NEW r \in InFlight,
         PrivateStep(r) \/ UpdateStock(r) \/ SaveCredit(r) \/ InsertCoupon(r)
  PROVE  /\ InFlight' = InFlight
         /\ \A q \in Request \ {r} : pc'[q] = pc[q]
         /\ job' = job /\ met' = met
         /\ pc'[r] \in Phase \ ({"idle"} \cup Final)
<1>1. \E label \in Phase \ ({"idle"} \cup Final) : Goto(r, label)
  BY DEF PrivateStep, ReadLine, ReadCoupon, CheckRedeemed, ReadCredit,
         SelectForStock, InsertOrder, SelectForCredit, RecordRedemption,
         ReadForGrant, ReadForPatch, ReadForApply, LookUpCode, UpdateStock,
         SaveCredit, InsertCoupon, AfterStock, AfterCredit, Phase, Final
<1>2. job' = job /\ met' = met
  BY DEF PrivateStep, ReadLine, ReadCoupon, CheckRedeemed, ReadCredit,
         SelectForStock, InsertOrder, SelectForCredit, RecordRedemption,
         ReadForGrant, ReadForPatch, ReadForApply, LookUpCode, UpdateStock,
         SaveCredit, InsertCoupon
<1> QED BY <1>1, <1>2 DEF Goto, InFlight, IInv, TypeOK, Final

LEMMA PrivateRows ==
  ASSUME NEW r, PrivateStep(r)
  PROVE  UNCHANGED <<row, latest, writer>>
BY DEF PrivateStep, ReadLine, ReadCoupon, CheckRedeemed, ReadCredit,
       SelectForStock, InsertOrder, SelectForCredit, RecordRedemption,
       ReadForGrant, ReadForPatch, ReadForApply, LookUpCode

\* The keys that UPDATEs and INSERTs write.
LEMMA WrittenKeys ==
  ASSUME IInv, NEW r \in InFlight
  PROVE  /\ UpdateStock(r) => CurrentProduct(r) \in Product \cap Key
         /\ SaveCredit(r) => Owner(r) \in User \cap Key
         /\ InsertCoupon(r) => job[r].coupon \in Coupon \cap Key
<1>1. UpdateStock(r) => CurrentProduct(r) \in Product \cap Key
  BY CopyTypes DEF UpdateStock
<1>2. ASSUME SaveCredit(r) PROVE Owner(r) \in User \cap Key
  <2>1. job[r].op \in {"place", "grant"}
    BY <1>2, InFlightFacts DEF Reaches, SaveCredit
  <2> QED BY <2>1, CreditTypes
<1>3. ASSUME InsertCoupon(r) PROVE job[r].coupon \in Coupon \cap Key
  <2>1. job[r].op = "create"
    BY <1>3, InFlightFacts DEF Reaches, InsertCoupon
  <2> QED BY <2>1, InFlightFacts, CheckoutAssumption DEF CreateJob
<1> QED BY <1>1, <1>2, <1>3

-----------------------------------------------------------------------------
LEMMA NoStrayVersionsStep ==
  ASSUME IInv, NoStrayVersions, [Next]_vars
  PROVE  NoStrayVersions'
<1>1. ASSUME NEW r \in Request, Begin(r)
      PROVE  NoStrayVersions'
  <2>1. InFlight \subseteq InFlight'
    BY <1>1 DEF Begin, Goto, InFlight, IInv, TypeOK, Final
  <2> QED BY <1>1, <2>1 DEF Begin, NoStrayVersions
<1>2. ASSUME NEW r \in InFlight, PrivateStep(r)
      PROVE  NoStrayVersions'
  BY <1>2, PrivateRows, StaysInFlight DEF NoStrayVersions
<1>3. ASSUME NEW r \in InFlight, UpdateStock(r) \/ SaveCredit(r) \/ InsertCoupon(r)
      PROVE  NoStrayVersions'
  <2>1. PICK k \in Key : \E v : Put(r, k, v)
    BY <1>3, WrittenKeys DEF UpdateStock, SaveCredit, InsertCoupon
  <2>2. InFlight' = InFlight
    BY <1>3, StaysInFlight
  <2>3. PICK v : Put(r, k, v)
    BY <2>1
  <2>4. /\ row' = row /\ writer'[k] = r
        /\ \A q \in Key \ {k} : latest'[q] = latest[q] /\ writer'[q] = writer[q]
    BY <2>3 DEF Put, IInv, TypeOK, IsTable
  <2>5. r # Nobody
    BY NobodyAssumption DEF InFlight
  <2> QED BY <2>2, <2>4, <2>5 DEF NoStrayVersions
<1>4. ASSUME NEW r \in InFlight, Commit(r)
      PROVE  NoStrayVersions'
  <2>1. InFlight' = InFlight \ {r} /\ r # Nobody
    BY <1>4, NobodyAssumption DEF Commit, Goto, InFlight, IInv, TypeOK, Final
  <2> QED BY <1>4, <2>1 DEF Commit, Publish, Unlocked, Visible, NoStrayVersions
<1>5. ASSUME NEW r \in InFlight, Rollback(r)
      PROVE  NoStrayVersions'
  <2>1. InFlight' = InFlight \ {r} /\ r # Nobody
    BY <1>5, NobodyAssumption DEF Rollback, Goto, InFlight, IInv, TypeOK, Final
  <2> QED BY <1>5, <2>1 DEF Rollback, Discard, Unlocked, NoStrayVersions
<1>6. CASE UNCHANGED vars
  BY <1>6 DEF vars, NoStrayVersions, InFlight
<1> QED BY <1>1, <1>2, <1>3, <1>4, <1>5, <1>6, StepCases

\* Whatever requests, rows and failures: each uncommitted version belongs to a
\* request in flight, and get_session leaves nothing behind.
THEOREM LocksAreReturned == Spec => []NoStrayVersions
<1>1. Init => IInv /\ NoStrayVersions
  BY InitInv DEF Init, DatabaseInit, NoStrayVersions
<1>2. IInv /\ NoStrayVersions /\ [Next]_vars => IInv' /\ NoStrayVersions'
  BY NextInv, NoStrayVersionsStep
<1> QED BY <1>1, <1>2, PTL DEF Spec

-----------------------------------------------------------------------------
(***************************************************************************)
(* Credit: the balance that a request carries to SaveCredit is never       *)
(* negative, since ReadCredit compared it with the charge.                 *)
(***************************************************************************)
Solvent(table) == \A u \in User : table[u] # NoRow => table[u] >= 0

CarriesBalance(r) ==
  /\ job[r].op \in {"place", "grant"}
  /\ pc[r] \in {"stock", "update", "order", "fresh", "save"}

SolventInv ==
  /\ Solvent(row) /\ Solvent(latest)
  /\ \A r \in InFlight : CarriesBalance(r) => mem[r].balance >= 0

LEMMA SolventLocal ==
  ASSUME IInv, SolventInv, NEW r \in InFlight,
         PrivateStep(r) \/ UpdateStock(r) \/ SaveCredit(r) \/ InsertCoupon(r)
  PROVE  \A q \in InFlight' : CarriesBalance(q)' => mem'[q].balance >= 0
<1>1. \A q \in InFlight' \ {r} : CarriesBalance(q)' => mem'[q].balance >= 0
  <2>1. \A q \in Request \ {r} : mem'[q] = mem[q]
    BY DEF PrivateStep, ReadLine, ReadCoupon, CheckRedeemed, ReadCredit,
         SelectForStock, InsertOrder, SelectForCredit, RecordRedemption,
         ReadForGrant, ReadForPatch, ReadForApply, LookUpCode, UpdateStock,
         SaveCredit, InsertCoupon, IInv, TypeOK
  <2>2. InFlight' = InFlight /\ InFlight \subseteq Request /\ job' = job
    BY StaysInFlight DEF InFlight
  <2>3. \A q \in Request \ {r} : pc'[q] = pc[q]
    BY StaysInFlight
  <2> QED BY <2>1, <2>2, <2>3 DEF SolventInv, CarriesBalance
<1>2. ASSUME CarriesBalance(r)' PROVE mem'[r].balance >= 0
  <2>1. job' = job /\ mem[r] \in Memory /\ r \in Request
    BY StaysInFlight, InFlightFacts
  <2>2. Funds(r) \in Int /\ Funds(r) >= 0 /\ Total(r) \in Nat
    <3>1. job[r].op \in {"place", "grant"}
      BY <1>2, <2>1 DEF CarriesBalance
    <3> QED BY <3>1, CreditTypes DEF SolventInv, Solvent, Funds, Visible
  <2>3. CASE ReadCredit(r)
    <3>1. mem'[r] = [mem[r] EXCEPT !.balance = Funds(r) - Total(r)]
      BY <2>1, <2>3 DEF ReadCredit, IInv, TypeOK
    <3>2. Funds(r) >= Total(r)
      BY <2>3 DEF ReadCredit
    <3>3. mem'[r].balance = Funds(r) - Total(r)
      BY <2>1, <3>1 DEF Memory
    <3> QED BY <2>2, <3>2, <3>3
  <2>4. CASE ReadForGrant(r)
    <3>1. mem'[r] = [mem[r] EXCEPT !.balance = Funds(r) + job[r].amount]
      BY <2>1, <2>4 DEF ReadForGrant, IInv, TypeOK
    <3>2. job[r].amount \in Int /\ job[r].amount > 0
      BY <2>4, InFlightFacts DEF ReadForGrant, Reaches, GrantJob
    <3>3. mem'[r].balance = Funds(r) + job[r].amount
      BY <2>1, <3>1 DEF Memory
    <3> QED BY <2>2, <3>2, <3>3
  <2>5. CASE SelectForStock(r) \/ UpdateStock(r) \/ InsertOrder(r) \/ SelectForCredit(r)
    <3>1. CarriesBalance(r)
      BY <1>2, <2>1, <2>5
         DEF CarriesBalance, SelectForStock, UpdateStock, InsertOrder, SelectForCredit
    <3>2. mem'[r].balance = mem[r].balance
      <4>1. CASE SelectForStock(r)
        <5>1. \/ \E n : mem'[r] = [mem[r] EXCEPT !.line = n]
              \/ \E d : mem'[r] = [mem[r] EXCEPT !.dirty = d]
          BY <2>1, <4>1 DEF SelectForStock, IInv, TypeOK
        <5> QED BY <2>1, <5>1 DEF Memory
      <4>2. CASE UpdateStock(r)
        <5>1. \E n : mem'[r] = [mem[r] EXCEPT !.dirty = {}, !.line = n]
          BY <2>1, <4>2 DEF UpdateStock, IInv, TypeOK
        <5> QED BY <2>1, <5>1 DEF Memory
      <4>3. CASE InsertOrder(r)
        BY <4>3 DEF InsertOrder
      <4>4. CASE SelectForCredit(r)
        <5>1. \E b : mem'[r] = [mem[r] EXCEPT !.inserting = b]
          BY <2>1, <4>4 DEF SelectForCredit, IInv, TypeOK
        <5> QED BY <2>1, <5>1 DEF Memory
      <4> QED BY <2>5, <4>1, <4>2, <4>3, <4>4
    <3> QED BY <3>1, <3>2 DEF SolventInv
  <2>6. CASE ~(\/ ReadCredit(r) \/ ReadForGrant(r) \/ SelectForStock(r)
               \/ UpdateStock(r) \/ InsertOrder(r) \/ SelectForCredit(r))
    <3>1. pc'[r] \notin {"stock", "update", "order", "fresh", "save"} \/ job[r].op \notin {"place", "grant"}
      BY <2>1, <2>6, InFlightFacts DEF PrivateStep, ReadLine, ReadCoupon, CheckRedeemed,
         RecordRedemption, ReadForPatch, ReadForApply, LookUpCode, SaveCredit,
         InsertCoupon, AfterCredit, Goto, IInv, TypeOK, Reaches
    <3> QED BY <1>2, <2>1, <3>1 DEF CarriesBalance
  <2> QED BY <2>3, <2>4, <2>5, <2>6
<1> QED BY <1>1, <1>2

LEMMA SolventStep ==
  ASSUME IInv, SolventInv, [Next]_vars
  PROVE  SolventInv'
<1>1. ASSUME NEW r \in Request, Begin(r)
      PROVE  SolventInv'
  <2>1. ~CarriesBalance(r)'
    BY <1>1, JobTypes DEF Begin, CarriesBalance, Goto, Entry, IInv, TypeOK
  <2> QED BY <1>1, <2>1 DEF Begin, Goto, SolventInv, Solvent, CarriesBalance, InFlight, IInv, TypeOK
<1>2. ASSUME NEW r \in InFlight, PrivateStep(r)
      PROVE  SolventInv'
  BY <1>2, PrivateRows, SolventLocal DEF SolventInv, Solvent
<1>3. ASSUME NEW r \in InFlight, UpdateStock(r) \/ InsertCoupon(r)
      PROVE  SolventInv'
  <2>1. PICK k \in Product \cup Coupon : \E v : Put(r, k, v)
    BY <1>3, WrittenKeys DEF UpdateStock, InsertCoupon
  <2>2. Solvent(row') /\ Solvent(latest')
    BY <2>1, CheckoutAssumption DEF Put, SolventInv, Solvent, IInv, TypeOK, IsTable
  <2> QED BY <1>3, <2>2, SolventLocal DEF SolventInv
<1>4. ASSUME NEW r \in InFlight, SaveCredit(r)
      PROVE  SolventInv'
  <2>1. mem[r].balance >= 0 /\ Owner(r) \in User \cap Key
    BY <1>4, InFlightFacts, WrittenKeys DEF SaveCredit, Reaches, SolventInv, CarriesBalance
  <2>2. Solvent(row') /\ Solvent(latest')
    BY <1>4, <2>1, CheckoutAssumption DEF SaveCredit, Put, SolventInv, Solvent, IInv, TypeOK, IsTable
  <2> QED BY <1>4, <2>2, SolventLocal DEF SolventInv
<1>5. ASSUME NEW r \in InFlight, Commit(r) \/ Rollback(r)
      PROVE  SolventInv'
  <2>1. Solvent(row') /\ Solvent(latest')
    BY <1>5, CheckoutAssumption
       DEF Commit, Rollback, Publish, Discard, Visible, SolventInv, Solvent
  <2>2. r \notin InFlight' /\ job' = job /\ InFlight' \subseteq InFlight
    BY <1>5 DEF Commit, Rollback, Goto, InFlight, Final, IInv, TypeOK
  <2>3. \A q \in Request \ {r} : pc'[q] = pc[q] /\ mem'[q] = mem[q]
    BY <1>5 DEF Commit, Rollback, Goto, IInv, TypeOK
  <2> QED BY <2>1, <2>2, <2>3 DEF SolventInv, CarriesBalance, InFlight
<1>6. CASE UNCHANGED vars
  BY <1>6 DEF vars, SolventInv, Solvent, CarriesBalance, InFlight
<1> QED BY <1>1, <1>2, <1>3, <1>4, <1>5, <1>6, StepCases

\* If the seeding leaves nobody in debt, nobody ever is, however checkouts,
\* grants and patches interleave.
THEOREM NobodyInDebt ==
  ASSUME \A u \in User : InitialRow[u] # NoRow => InitialRow[u] >= 0
  PROVE  Spec => []BalanceNonNegative
<1>1. Init => IInv /\ SolventInv
  BY InitInv DEF Init, DatabaseInit, SolventInv, Solvent, InFlight
<1>2. IInv /\ SolventInv /\ [Next]_vars => IInv' /\ SolventInv'
  BY NextInv, SolventStep
<1>3. SolventInv => BalanceNonNegative
  BY DEF SolventInv, Solvent, BalanceNonNegative
<1> QED BY <1>1, <1>2, <1>3, PTL DEF Spec

-----------------------------------------------------------------------------
(***************************************************************************)
(* Stock: what SelectForStock decides to write is never negative, since    *)
(* the copy it decrements passed the re-check.  That the copy may be stale *)
(* does not matter here, only to what the stock adds up to.                *)
(***************************************************************************)
Stocked(table) == \A p \in Product : table[p].stock >= 0

StockedInv ==
  /\ Stocked(row) /\ Stocked(latest)
  /\ \A r \in InFlight :
       /\ pc[r] = "update" => Saved(r).stock >= 0
       /\ pc[r] = "stock" /\ job[r].op = "patch" =>
            mem[r].copies[mem[r].line].stock >= 0

\* The assumption on the bodies and the first rows: neither the seeding nor a
\* patch sets a negative stock (no schema forbids it).
StocksGiven ==
  /\ \A p \in Product : InitialRow[p].stock >= 0
  /\ \A j \in Patches : j.stock # NoRow => j.stock >= 0

LEMMA StockedLocal ==
  ASSUME StocksGiven, IInv, StockedInv, NEW r \in InFlight,
         PrivateStep(r) \/ UpdateStock(r) \/ SaveCredit(r) \/ InsertCoupon(r)
  PROVE  /\ pc'[r] = "update" => Saved(r)'.stock >= 0
         /\ pc'[r] = "stock" /\ job'[r].op = "patch" =>
              mem'[r].copies[mem'[r].line].stock >= 0
<1>1. job' = job /\ mem[r] \in Memory /\ r \in Request
  BY StaysInFlight, InFlightFacts
<1>2. CASE SelectForStock(r)
  <2>1. /\ mem[r].copies[mem[r].line] \in ProductRow
        /\ job[r].op \in {"place", "patch"}
        /\ mem[r].line \in 1..Len(mem[r].copies)
    BY <1>2, CopyTypes DEF SelectForStock
  <2>2. CASE pc'[r] = "update"
    <3>1. \E d : mem'[r] = [mem[r] EXCEPT !.dirty = d]
      BY <1>1, <1>2, <2>2 DEF SelectForStock, AfterStock, Goto, IInv, TypeOK
    <3>2. mem'[r].copies = mem[r].copies /\ mem'[r].line = mem[r].line
      BY <1>1, <3>1 DEF Memory
    <3>3. CASE job[r].op = "place"
      <4>1. CartLine(r).quantity \in Int
        BY <1>2, <3>3, CartLineType DEF SelectForStock
      <4>2. mem[r].copies[mem[r].line].stock >= CartLine(r).quantity
        BY <1>2, <2>1, <3>3, <4>1 DEF SelectForStock, RecheckFails, ProductRow
      <4>3. Saved(r)'.stock = mem[r].copies[mem[r].line].stock - CartLine(r).quantity
        BY <1>1, <2>1, <3>2, <3>3 DEF Saved, CartLine, ProductRow
      <4>4. Saved(r)'.stock >= 0
        BY <2>1, <4>1, <4>2, <4>3 DEF ProductRow
      <4> QED BY <2>2, <4>4
    <3>4. CASE job[r].op = "patch"
      <4>1. mem[r].copies[mem[r].line].stock >= 0
        BY <1>2, <3>4 DEF StockedInv, SelectForStock
      <4>2. Saved(r)' = mem[r].copies[mem[r].line]
        BY <1>1, <3>2, <3>4 DEF Saved
      <4> QED BY <2>2, <4>1, <4>2
    <3> QED BY <2>1, <3>3, <3>4
  <2>3. CASE pc'[r] # "update"
    <3>1. job[r].op # "patch" \/ pc'[r] # "stock"
      <4>1. ASSUME job[r].op = "patch" PROVE pc'[r] = "commit"
        <5>1. mem[r].line = 1 /\ Len(mem[r].copies) = 1
          BY <1>2, <4>1, InFlightFacts DEF SelectForStock
        <5> QED
          BY <1>1, <1>2, <2>3, <4>1, <5>1
             DEF SelectForStock, AfterStock, LastCopy, Goto, IInv, TypeOK
      <4> QED BY <4>1
    <3> QED BY <1>1, <2>3, <3>1
  <2> QED BY <2>2, <2>3
<1>3. CASE UpdateStock(r)
  <2>1. pc'[r] = AfterStock(r)
    BY <1>1, <1>3 DEF UpdateStock, Goto, IInv, TypeOK
  <2>2. ASSUME job[r].op = "patch" PROVE pc'[r] = "commit"
    <3>1. mem[r].line = 1 /\ Len(mem[r].copies) = 1
      BY <1>3, <2>2, InFlightFacts DEF UpdateStock
    <3> QED BY <2>1, <2>2, <3>1 DEF AfterStock, LastCopy
  <2> QED BY <1>1, <2>1, <2>2 DEF AfterStock
<1>4. CASE ReadForPatch(r)
  <2>1. /\ job[r] \in PatchJob /\ job[r] \in Patches /\ mem[r].line = 1
        /\ pc'[r] = "stock"
    <3>1. job[r].op = "patch" /\ job[r] \in Jobs
      BY <1>4, InFlightFacts DEF ReadForPatch, Reaches
    <3>2. job[r] \in Patches
      BY <3>1, CheckoutAssumption DEF Jobs, PlaceJob, GrantJob, ApplyJob, CreateJob
    <3> QED
      BY <1>1, <1>4, <3>1, <3>2, InFlightFacts DEF ReadForPatch, Goto, IInv, TypeOK
  <2> DEFINE seen == Visible(r, job[r].product)
             copy == [stock |-> Patched(seen.stock, job[r].stock),
                      price |-> Patched(seen.price, job[r].price),
                      active |-> Patched(seen.active, job[r].active)]
  <2>2. copy.stock >= 0
    <3>1. seen.stock >= 0
      BY <2>1 DEF PatchJob, StockedInv, Stocked, Visible
    <3> QED BY <2>1, <3>1 DEF Patched, StocksGiven
  <2>3. mem'[r] = [mem[r] EXCEPT !.copies = <<copy>>]
    BY <1>1, <1>4 DEF ReadForPatch, IInv, TypeOK
  <2> HIDE DEF copy
  <2>4. mem'[r].copies = <<copy>> /\ mem'[r].line = 1
    BY <1>1, <2>1, <2>3 DEF Memory
  <2> QED BY <2>1, <2>2, <2>4
<1>5. CASE ReadCredit(r)
  <2>1. pc'[r] = "stock" /\ job[r].op = "place"
    BY <1>1, <1>5, InFlightFacts DEF ReadCredit, Goto, IInv, TypeOK, Reaches
  <2> QED BY <1>1, <2>1
<1>6. CASE ~(SelectForStock(r) \/ UpdateStock(r) \/ ReadForPatch(r) \/ ReadCredit(r))
  <2>1. pc'[r] \notin {"stock", "update"}
    BY <1>1, <1>6
       DEF PrivateStep, ReadLine, ReadCoupon, CheckRedeemed, InsertOrder,
           SelectForCredit, RecordRedemption, ReadForGrant, ReadForApply,
           LookUpCode, SaveCredit, InsertCoupon, AfterCredit, Goto, IInv, TypeOK
  <2> QED BY <2>1
<1> QED BY <1>2, <1>3, <1>4, <1>5, <1>6

\* The locals of the other requests do not change.
LEMMA OthersKeepMemory ==
  ASSUME IInv, NEW r \in InFlight,
         \/ PrivateStep(r) \/ UpdateStock(r) \/ SaveCredit(r) \/ InsertCoupon(r)
         \/ Commit(r) \/ Rollback(r)
  PROVE  \A q \in Request \ {r} :
           /\ pc'[q] = pc[q] /\ job'[q] = job[q] /\ mem'[q] = mem[q]
           /\ order'[q] = order[q] /\ redemption'[q] = redemption[q]
BY DEF PrivateStep, ReadLine, ReadCoupon, CheckRedeemed, ReadCredit, SelectForStock,
       InsertOrder, SelectForCredit, RecordRedemption, ReadForGrant, ReadForPatch,
       ReadForApply, LookUpCode, UpdateStock, SaveCredit, InsertCoupon, Commit,
       Rollback, Goto, IInv, TypeOK

LEMMA StockedOthers ==
  ASSUME IInv, StockedInv, NEW r \in InFlight,
         \/ PrivateStep(r) \/ UpdateStock(r) \/ SaveCredit(r) \/ InsertCoupon(r)
         \/ Commit(r) \/ Rollback(r)
  PROVE  \A q \in InFlight' \ {r} :
           /\ pc'[q] = "update" => Saved(q)'.stock >= 0
           /\ pc'[q] = "stock" /\ job'[q].op = "patch" =>
                mem'[q].copies[mem'[q].line].stock >= 0
<1> SUFFICES ASSUME NEW q \in InFlight' \ {r}
             PROVE  /\ pc'[q] = "update" => Saved(q)'.stock >= 0
                    /\ pc'[q] = "stock" /\ job'[q].op = "patch" =>
                         mem'[q].copies[mem'[q].line].stock >= 0
  OBVIOUS
<1>1. pc'[q] = pc[q] /\ job'[q] = job[q] /\ mem'[q] = mem[q] /\ q \in InFlight
  BY OthersKeepMemory DEF InFlight
<1>2. Saved(q)' = Saved(q)
  BY <1>1 DEF Saved, CartLine
<1> QED BY <1>1, <1>2 DEF StockedInv

LEMMA StockedStep ==
  ASSUME StocksGiven, IInv, StockedInv, [Next]_vars
  PROVE  StockedInv'
<1>1. ASSUME NEW r \in Request, Begin(r)
      PROVE  StockedInv'
  <2>1. pc'[r] \notin {"stock", "update"}
    BY <1>1, JobTypes DEF Begin, Goto, Entry, IInv, TypeOK
  <2>2. \A q \in InFlight' \ {r} : q \in InFlight /\ pc'[q] = pc[q] /\ job'[q] = job[q]
    BY <1>1 DEF Begin, Goto, InFlight, IInv, TypeOK
  <2>3. \A q \in InFlight' \ {r} : Saved(q)' = Saved(q)
    BY <1>1, <2>2 DEF Begin, Saved, CartLine
  <2> QED BY <1>1, <2>1, <2>2, <2>3 DEF Begin, StockedInv, Stocked
<1>2. ASSUME NEW r \in InFlight, PrivateStep(r)
      PROVE  StockedInv'
  <2>1. Stocked(row') /\ Stocked(latest')
    BY <1>2, PrivateRows DEF StockedInv
  <2> QED BY <1>2, <2>1, StockedLocal, StockedOthers DEF StockedInv
<1>3. ASSUME NEW r \in InFlight, UpdateStock(r)
      PROVE  StockedInv'
  <2>1. Stocked(row') /\ Stocked(latest')
    <3> DEFINE p == CurrentProduct(r)
               value == Overwrite(latest[p], Saved(r), mem[r].dirty)
    <3>1. p \in Product \cap Key /\ Put(r, p, value)
      BY <1>3, WrittenKeys DEF UpdateStock
    <3>2. Saved(r).stock >= 0 /\ latest[p].stock >= 0
      BY <1>3, <3>1 DEF UpdateStock, StockedInv, Stocked
    <3>3. value.stock >= 0
      BY <3>2 DEF Overwrite
    <3> HIDE DEF value
    <3> QED BY <3>1, <3>3 DEF Put, StockedInv, Stocked, IInv, TypeOK, IsTable
  <2> QED BY <1>3, <2>1, StockedLocal, StockedOthers DEF StockedInv
<1>4. ASSUME NEW r \in InFlight, SaveCredit(r) \/ InsertCoupon(r)
      PROVE  StockedInv'
  <2>1. PICK k \in User \cup Coupon : \E v : Put(r, k, v)
    BY <1>4, WrittenKeys DEF SaveCredit, InsertCoupon
  <2>2. Stocked(row') /\ Stocked(latest')
    BY <2>1, CheckoutAssumption DEF Put, StockedInv, Stocked, IInv, TypeOK, IsTable
  <2> QED BY <1>4, <2>2, StockedLocal, StockedOthers DEF StockedInv
<1>5. ASSUME NEW r \in InFlight, Commit(r) \/ Rollback(r)
      PROVE  StockedInv'
  <2>1. Stocked(row') /\ Stocked(latest')
    BY <1>5, CheckoutAssumption
       DEF Commit, Rollback, Publish, Discard, Visible, StockedInv, Stocked
  <2>2. r \notin InFlight'
    BY <1>5 DEF Commit, Rollback, Goto, InFlight, Final, IInv, TypeOK
  <2> QED BY <1>5, <2>1, <2>2, StockedOthers DEF StockedInv
<1>6. CASE UNCHANGED vars
  BY <1>6 DEF vars, StockedInv, Stocked, Saved, CartLine, InFlight
<1> QED BY <1>1, <1>2, <1>3, <1>4, <1>5, <1>6, StepCases

\* If neither the seeding nor a patch sets a negative stock, no checkout ever
\* makes one, however it interleaves with others.
THEOREM NoNegativeStock ==
  ASSUME StocksGiven
  PROVE  Spec => []StockNonNegative
<1>1. Init => IInv /\ StockedInv
  BY InitInv DEF Init, DatabaseInit, StockedInv, Stocked, StocksGiven, InFlight
<1>2. IInv /\ StockedInv /\ [Next]_vars => IInv' /\ StockedInv'
  BY NextInv, StockedStep
<1>3. StockedInv => StockNonNegative
  BY DEF StockedInv, Stocked, StockNonNegative
<1> QED BY <1>1, <1>2, <1>3, PTL DEF Spec

-----------------------------------------------------------------------------
(***************************************************************************)
(* Coupons: a request past CheckRedeemed has met every other request whose *)
(* redemption of its coupon is committed, because at its check there was   *)
(* none, and whoever commits while it is in flight has met it.             *)
(***************************************************************************)
MetInv ==
  /\ \A r \in InFlight : \A q \in InFlight \ {r} : q \in met[r]
  /\ \A r, q \in Request : q \in met[r] => r \in met[q]
  /\ \A r \in Request : pc[r] = "idle" => met[r] = {}

Redeemed(r) == Committed(r) /\ redemption[r] # NoRow

\* r looked at the ledger, or has redeemed.
Checked(r) ==
  \/ /\ job[r].op \in {"place", "apply"}
     /\ pc[r] \in {"credit", "stock", "update", "order", "fresh", "save", "redeem"}
  \/ redemption[r] # NoRow

LedgerInv ==
  /\ \A r \in Request :
       redemption[r] # NoRow =>
         /\ pc[r] \in {"commit", "committed"}
         /\ redemption[r].coupon = job[r].coupon
  /\ \A r, q \in Request :
       /\ r # q
       /\ Checked(r)
       /\ Redeemed(q)
       /\ redemption[q].coupon = job[r].coupon
       => q \in met[r]

LEMMA MetStep ==
  ASSUME IInv, MetInv, [Next]_vars
  PROVE  MetInv'
<1>1. ASSUME NEW r \in Request, Begin(r)
      PROVE  MetInv'
  <2>1. pc[r] = "idle" /\ r \notin InFlight /\ met[r] = {}
        /\ \A q \in Request : r \notin met[q]
    BY <1>1 DEF Begin, MetInv, InFlight
  <2>2. /\ InFlight' \subseteq InFlight \cup {r}
        /\ pc'[r] # "idle" /\ \A q \in Request \ {r} : pc'[q] = pc[q]
    BY <1>1, JobTypes DEF Begin, Goto, Entry, InFlight, IInv, TypeOK
  <2>3. /\ met'[r] = InFlight
        /\ \A q \in InFlight : met'[q] = met[q] \cup {r}
        /\ \A q \in Request \ (InFlight \cup {r}) : met'[q] = met[q]
    BY <1>1, <2>1 DEF Begin, Meet, InFlight
  <2>4. \A q \in Request : pc'[q] = "idle" => met'[q] = {}
    BY <2>2, <2>3 DEF MetInv, InFlight
  <2>5. \A p \in InFlight' : \A q \in InFlight' \ {p} : q \in met'[p]
    BY <2>1, <2>2, <2>3 DEF MetInv
  <2>6. \A p, q \in Request : q \in met'[p] => p \in met'[q]
    BY <2>1, <2>3 DEF MetInv
  <2> QED BY <2>4, <2>5, <2>6 DEF MetInv
<1>2. ASSUME NEW r \in InFlight,
             \/ PrivateStep(r) \/ UpdateStock(r) \/ SaveCredit(r) \/ InsertCoupon(r)
      PROVE  MetInv'
  <2>1. InFlight' = InFlight /\ met' = met
        /\ (\A q \in Request \ {r} : pc'[q] = pc[q]) /\ pc'[r] # "idle"
    BY <1>2, StaysInFlight
  <2> QED BY <2>1 DEF MetInv
<1>3. ASSUME NEW r \in InFlight, Commit(r) \/ Rollback(r)
      PROVE  MetInv'
  <2>1. InFlight' \subseteq InFlight /\ met' = met
        /\ (\A q \in Request \ {r} : pc'[q] = pc[q]) /\ pc'[r] # "idle"
    BY <1>3 DEF Commit, Rollback, Goto, InFlight, Final, IInv, TypeOK
  <2> QED BY <2>1 DEF MetInv
<1>4. CASE UNCHANGED vars
  BY <1>4 DEF vars, MetInv, InFlight
<1> QED BY <1>1, <1>2, <1>3, <1>4, StepCases

\* What a request in flight does to its own redemption, and that it passes the
\* ledger only when nobody has redeemed its coupon.
LEMMA CheckingStep ==
  ASSUME IInv, LedgerInv, NEW r \in InFlight,
         PrivateStep(r) \/ UpdateStock(r) \/ SaveCredit(r) \/ InsertCoupon(r)
  PROVE  /\ redemption'[r] # NoRow =>
              pc'[r] = "commit" /\ redemption'[r].coupon = job[r].coupon
         /\ Checked(r)' =>
              \/ Checked(r)
              \/ ~HasBeenRedeemed(job[r].coupon)
              \/ job[r].op = "place" /\ job[r].coupon = NoRow
<1>1. job' = job /\ r \in Request
  BY StaysInFlight, InFlightFacts
<1>2. redemption[r] # NoRow => pc[r] = "commit"
  BY DEF LedgerInv, InFlight, Final
<1>3. pc[r] # "commit"
  BY DEF PrivateStep, ReadLine, ReadCoupon, CheckRedeemed, ReadCredit,
         SelectForStock, InsertOrder, SelectForCredit, RecordRedemption,
         ReadForGrant, ReadForPatch, ReadForApply, LookUpCode, UpdateStock,
         SaveCredit, InsertCoupon
<1>4. redemption[r] = NoRow
  BY <1>2, <1>3
<1>5. CASE RecordRedemption(r)
  <2>1. /\ redemption'[r] = [coupon |-> job[r].coupon,
                             order |-> IF job[r].op = "place" THEN r ELSE job[r].order]
        /\ pc'[r] = "commit" /\ pc[r] = "redeem"
    BY <1>1, <1>5 DEF RecordRedemption, Goto, IInv, TypeOK
  <2>2. job[r].op \in {"place", "apply"}
    BY <2>1, InFlightFacts DEF Reaches
  <2> QED BY <2>1, <2>2 DEF Checked
<1>6. CASE ~RecordRedemption(r)
  <2>1. redemption'[r] = NoRow
    BY <1>4, <1>6 DEF PrivateStep, ReadLine, ReadCoupon, CheckRedeemed, ReadCredit,
         SelectForStock, InsertOrder, SelectForCredit,
         ReadForGrant, ReadForPatch, ReadForApply, LookUpCode, UpdateStock,
         SaveCredit, InsertCoupon
  <2>2. CASE CheckRedeemed(r)
    BY <2>1, <2>2 DEF CheckRedeemed
  <2>3. CASE ReadLine(r)
    <3>1. job[r].op = "place" /\ pc'[r] \in {"lines", "coupon", "credit"}
          /\ (pc'[r] = "credit" => job[r].coupon = NoRow)
      BY <1>1, <2>3, InFlightFacts DEF ReadLine, Goto, IInv, TypeOK, Reaches
    <3> QED BY <2>1, <3>1 DEF Checked
  <2>4. CASE ~CheckRedeemed(r) /\ ~ReadLine(r)
    <3>1. \/ PrivateStep(r) /\ pc[r] \in {"credit", "stock", "fresh", "order"}
          \/ UpdateStock(r) \/ SaveCredit(r)
          \/ ReadForGrant(r) \/ ReadForPatch(r)
          \/ ReadCoupon(r) \/ ReadForApply(r) \/ LookUpCode(r) \/ InsertCoupon(r)
      BY <1>6, <2>4 DEF PrivateStep, ReadCredit, SelectForStock, InsertOrder, SelectForCredit
    <3>2. CASE \/ PrivateStep(r) /\ pc[r] \in {"credit", "stock", "fresh", "order"}
               \/ UpdateStock(r) \/ SaveCredit(r)
      BY <1>1, <2>1, <3>2 DEF UpdateStock, SaveCredit, Checked
    <3>3. CASE ReadForGrant(r) \/ ReadForPatch(r)
      <4>1. job[r].op \in {"grant", "patch"}
        BY <3>3, InFlightFacts DEF ReadForGrant, ReadForPatch, Reaches
      <4> QED BY <1>1, <2>1, <4>1 DEF Checked
    <3>4. CASE ReadCoupon(r) \/ ReadForApply(r) \/ LookUpCode(r) \/ InsertCoupon(r)
      <4>1. pc'[r] \in {"redeemed", "coupon", "insert", "commit"}
        BY <1>1, <3>4
           DEF ReadCoupon, ReadForApply, LookUpCode, InsertCoupon, Goto, IInv, TypeOK
      <4> QED BY <2>1, <4>1 DEF Checked
    <3> QED BY <2>1, <3>1, <3>2, <3>3, <3>4
  <2> QED BY <2>1, <2>2, <2>3, <2>4
<1> QED BY <1>5, <1>6

LEMMA LedgerStep ==
  ASSUME IInv, MetInv, LedgerInv, [Next]_vars
  PROVE  LedgerInv'
<1>1. ASSUME NEW r \in Request, Begin(r)
      PROVE  LedgerInv'
  <2>1. pc[r] = "idle" /\ redemption[r] = NoRow /\ UNCHANGED redemption
    BY <1>1 DEF Begin, LedgerInv
  <2>2. /\ pc'[r] \in {"lines", "grant", "patch", "apply", "lookup", "commit", "rolledback"}
        /\ \A q \in Request \ {r} : pc'[q] = pc[q] /\ job'[q] = job[q]
    BY <1>1, JobTypes DEF Begin, Goto, Entry, IInv, TypeOK
  <2>3. \A q \in Request \ {r} : met[q] \subseteq met'[q]
    BY <1>1 DEF Begin, Meet
  <2>4. ~Checked(r)' /\ ~Redeemed(r)'
    BY <2>1, <2>2 DEF Checked, Redeemed
  <2>5. \A q \in Request \ {r} : (Checked(q)' <=> Checked(q)) /\ (Redeemed(q)' <=> Redeemed(q))
    BY <2>1, <2>2 DEF Checked, Redeemed, Committed
  <2> QED BY <2>1, <2>2, <2>3, <2>4, <2>5 DEF LedgerInv
<1>2. ASSUME NEW r \in InFlight,
             \/ PrivateStep(r) \/ UpdateStock(r) \/ SaveCredit(r) \/ InsertCoupon(r)
      PROVE  LedgerInv'
  <2>1. /\ job' = job /\ met' = met /\ pc'[r] # "committed" /\ r \in Request
        /\ pc[r] # "committed"
    BY <1>2, StaysInFlight DEF InFlight, Final
  <2>2. \A q \in Request \ {r} :
          /\ pc'[q] = pc[q] /\ redemption'[q] = redemption[q]
          /\ (Checked(q)' <=> Checked(q)) /\ (Redeemed(q)' <=> Redeemed(q))
    BY <1>2, OthersKeepMemory DEF Checked, Redeemed, Committed
  <2>3. ~Redeemed(r)'
    BY <2>1 DEF Redeemed, Committed
  <2>4. ASSUME NEW q \in Request \ {r}, Checked(r)', Redeemed(q),
               redemption[q].coupon = job[r].coupon
        PROVE  q \in met[r]
    <3>1. HasBeenRedeemed(job[r].coupon)
      BY <2>4 DEF HasBeenRedeemed, Redeemed
    <3>2. job[r].coupon # NoRow
      <4>1. redemption[q] \in RedemptionRow
        BY <2>4 DEF Redeemed, IInv, TypeOK
      <4> QED BY <2>4, <4>1, CheckoutAssumption DEF RedemptionRow
    <3>3. Checked(r)
      BY <1>2, <2>4, <3>1, <3>2, CheckingStep
    <3> QED BY <2>1, <2>4, <3>3 DEF LedgerInv
  <2>5. redemption'[r] # NoRow =>
          pc'[r] = "commit" /\ redemption'[r].coupon = job[r].coupon
    BY <1>2, CheckingStep
  <2> QED BY <2>1, <2>2, <2>3, <2>4, <2>5 DEF LedgerInv
<1>3. ASSUME NEW r \in InFlight, Commit(r)
      PROVE  LedgerInv'
  <2>1. /\ UNCHANGED <<job, met, redemption>> /\ r \in Request
        /\ pc[r] = "commit" /\ pc'[r] = "committed"
        /\ \A q \in Request \ {r} : pc'[q] = pc[q]
    BY <1>3 DEF Commit, Goto, InFlight, IInv, TypeOK
  <2>2. \A q \in Request : Checked(q)' => Checked(q)
    BY <2>1 DEF Checked
  <2>3. \A q \in Request \ {r} : Redeemed(q)' <=> Redeemed(q)
    BY <2>1 DEF Redeemed, Committed
  <2>4. ASSUME NEW q \in Request \ {r}, Checked(q), redemption[r] # NoRow,
               redemption[r].coupon = job[q].coupon
        PROVE  r \in met[q]
    <3>1. CASE q \in InFlight
      BY <3>1 DEF MetInv
    <3>2. CASE q \notin InFlight
      <4>1. redemption[q] # NoRow /\ Committed(q)
        BY <2>4, <3>2 DEF Checked, LedgerInv, InFlight, Final, Committed
      <4>2. redemption[q].coupon = job[r].coupon
        BY <2>1, <2>4, <4>1 DEF LedgerInv
      <4>3. q \in met[r]
        BY <2>1, <2>4, <4>1, <4>2 DEF LedgerInv, Checked, Redeemed
      <4> QED BY <2>1, <4>3 DEF MetInv
    <3> QED BY <3>1, <3>2
  <2>5. \A q \in Request :
          redemption'[q] # NoRow =>
            pc'[q] \in {"commit", "committed"} /\ redemption'[q].coupon = job'[q].coupon
    BY <2>1 DEF LedgerInv
  <2>6. \A p, q \in Request :
          p # q /\ Checked(p)' /\ Redeemed(q)' /\ redemption'[q].coupon = job'[p].coupon
          => q \in met'[p]
    BY <2>1, <2>2, <2>3, <2>4 DEF LedgerInv, Redeemed
  <2> QED BY <2>5, <2>6 DEF LedgerInv
<1>4. ASSUME NEW r \in InFlight, Rollback(r)
      PROVE  LedgerInv'
  <2>1. /\ UNCHANGED <<job, met>> /\ r \in Request
        /\ redemption'[r] = NoRow /\ pc'[r] = "rolledback"
        /\ \A q \in Request \ {r} : pc'[q] = pc[q] /\ redemption'[q] = redemption[q]
    BY <1>4 DEF Rollback, Goto, InFlight, IInv, TypeOK
  <2>2. ~Checked(r)' /\ ~Redeemed(r)'
    BY <2>1 DEF Checked, Redeemed
  <2>3. \A q \in Request \ {r} : (Checked(q)' <=> Checked(q)) /\ (Redeemed(q)' <=> Redeemed(q))
    BY <2>1 DEF Checked, Redeemed, Committed
  <2> QED BY <2>1, <2>2, <2>3 DEF LedgerInv
<1>5. CASE UNCHANGED vars
  BY <1>5 DEF vars, LedgerInv, Checked, Redeemed, Committed
<1> QED BY <1>1, <1>2, <1>3, <1>4, <1>5, StepCases

\* A coupon is redeemed a second time only by a request that overlapped the
\* first: the ledger check is right for requests served one after the other.
THEOREM CouponReuseOverlaps == Spec => []CouponReuseNeedsOverlap
<1>1. Init => IInv /\ MetInv /\ LedgerInv
  BY InitInv DEF Init, MetInv, LedgerInv, Checked, Redeemed, Committed, InFlight, Final
<1>2. IInv /\ MetInv /\ LedgerInv /\ [Next]_vars => IInv' /\ MetInv' /\ LedgerInv'
  BY NextInv, MetStep, LedgerStep
<1>3. LedgerInv => CouponReuseNeedsOverlap
  BY DEF LedgerInv, Checked, Redeemed, CouponReuseNeedsOverlap
<1> QED BY <1>1, <1>2, <1>3, PTL DEF Spec
-----------------------------------------------------------------------------
(***************************************************************************)
(* Redemptions: one that can be seen belongs to an order that can be seen, *)
(* of the store of its coupon, and the coupon exists.  The three rows are  *)
(* written by different statements, of two requests if the coupon is       *)
(* applied later, and no constraint relates the stores of the first two.   *)
(***************************************************************************)
\* Coupons are never deleted, and only CreateCoupon writes them.
CouponsStay ==
  \A c \in Coupon :
    /\ row[c] # NoRow => latest[c] # NoRow
    /\ writer[c] \in Request => job[writer[c]].op = "create"

\* r found its coupon in the store of its order, and may redeem it.
Found(r) ==
  /\ \/ pc[r] \in {"redeemed", "credit", "stock", "update", "order", "fresh",
                   "save", "redeem"}
     \/ redemption[r] # NoRow
  /\ job[r].op \in {"place", "apply"}
  /\ job[r].coupon # NoRow

Genuine(r) ==
  /\ row[job[r].coupon] # NoRow
  /\ StoreOf[job[r].coupon] = RequestStore(r)

Ordered(r) ==
  /\ pc[r] # "idle"
  /\ job[r].op = "place"
  /\ order[r].store = job[r].store

\* The order that r redeems its coupon for: its own or one it could see.
Redeems(r) ==
  /\ pc[r] \in {"commit", "committed"}
  /\ job[r].coupon # NoRow
  /\ redemption[r].coupon = job[r].coupon
  /\ \/ /\ job[r].op = "place"
        /\ order[r] # NoRow
        /\ redemption[r].order = r
     \/ /\ job[r].op = "apply"
        /\ OrderVisible(job[r].order)
        /\ redemption[r].order = job[r].order

Redeemer(r) ==
  /\ order[r] # NoRow => Ordered(r)
  /\ Found(r) => Genuine(r)
  /\ redemption[r] # NoRow => Redeems(r)

RedeemersInv == \A r \in Request : Redeemer(r)

-----------------------------------------------------------------------------
LEMMA CouponsStayStep ==
  ASSUME IInv, NoStrayVersions, CouponsStay, [Next]_vars
  PROVE  /\ CouponsStay'
         /\ \A c \in Coupon : row[c] # NoRow => row'[c] # NoRow
<1>1. ASSUME NEW r \in Request, Begin(r)
      PROVE  CouponsStay' /\ row' = row
  <2>1. r \notin InFlight /\ UNCHANGED <<row, latest, writer>>
        /\ \A q \in Request \ {r} : job'[q] = job[q]
    BY <1>1 DEF Begin, InFlight, IInv, TypeOK
  <2>2. \A c \in Coupon : writer[c] \in Request => writer[c] # r
    BY <2>1, NobodyAssumption, CheckoutAssumption DEF NoStrayVersions
  <2> QED BY <2>1, <2>2 DEF CouponsStay
<1>2. ASSUME NEW r \in InFlight, PrivateStep(r)
      PROVE  CouponsStay' /\ row' = row
  BY <1>2, PrivateRows, StaysInFlight DEF CouponsStay
<1>3. ASSUME NEW r \in InFlight, UpdateStock(r) \/ SaveCredit(r)
      PROVE  CouponsStay' /\ row' = row
  <2>1. PICK k \in Product \cup User : \E v : Put(r, k, v)
    BY <1>3, WrittenKeys DEF UpdateStock, SaveCredit
  <2>2. row' = row /\ job' = job
        /\ \A c \in Coupon : latest'[c] = latest[c] /\ writer'[c] = writer[c]
    BY <1>3, <2>1, StaysInFlight, CheckoutAssumption DEF Put, IInv, TypeOK, IsTable
  <2> QED BY <2>2 DEF CouponsStay
<1>4. ASSUME NEW r \in InFlight, InsertCoupon(r)
      PROVE  CouponsStay' /\ row' = row
  <2>1. job[r].coupon \in Coupon /\ job[r].op = "create" /\ job[r].percent # NoRow
    BY <1>4, WrittenKeys, InFlightFacts, CheckoutAssumption
       DEF InsertCoupon, Reaches, CouponRow
  <2>2. /\ row' = row /\ job' = job
        /\ latest' = [latest EXCEPT ![job[r].coupon] = job[r].percent]
        /\ writer' = [writer EXCEPT ![job[r].coupon] = r]
    BY <1>4 DEF InsertCoupon, Put
  <2> QED BY <2>1, <2>2, CheckoutAssumption DEF CouponsStay, IInv, TypeOK, IsTable
<1>5. ASSUME NEW r \in InFlight, Commit(r) \/ Rollback(r)
      PROVE  /\ CouponsStay'
             /\ \A c \in Coupon : row[c] # NoRow => row'[c] # NoRow
  <2>1. job' = job /\ Nobody \notin Request
    BY <1>5, NobodyAssumption DEF Commit, Rollback
  <2>2. \A c \in Coupon :
          /\ writer'[c] \in {writer[c], Nobody}
          /\ row[c] # NoRow => row'[c] # NoRow
          /\ row'[c] # NoRow => latest'[c] # NoRow
    <3> SUFFICES ASSUME NEW c \in Coupon
                 PROVE  /\ writer'[c] \in {writer[c], Nobody}
                        /\ row[c] # NoRow => row'[c] # NoRow
                        /\ row'[c] # NoRow => latest'[c] # NoRow
      OBVIOUS
    <3>1. c \in Key
      BY CheckoutAssumption
    <3>2. CASE Commit(r)
      BY <3>1, <3>2 DEF Commit, Publish, Unlocked, Visible, CouponsStay
    <3>3. CASE Rollback(r)
      BY <3>1, <3>3 DEF Rollback, Discard, Unlocked, CouponsStay
    <3> QED BY <1>5, <3>2, <3>3
  <2> QED BY <2>1, <2>2 DEF CouponsStay
<1>6. CASE UNCHANGED vars
  BY <1>6 DEF vars, CouponsStay
<1> QED BY <1>1, <1>2, <1>3, <1>4, <1>5, <1>6, StepCases

\* Nobody changes an order that can be seen.
LEMMA OrdersStay ==
  ASSUME IInv, [Next]_vars, NEW p \in Request, OrderVisible(p)
  PROVE  OrderVisible(p)' /\ order'[p] = order[p]
<1>1. pc[p] = "committed" /\ p \notin InFlight
  BY DEF OrderVisible, Committed, InFlight, Final
<1>2. ASSUME NEW r \in Request, Begin(r)
      PROVE  pc'[p] = pc[p] /\ order' = order
  BY <1>1, <1>2 DEF Begin, Goto, IInv, TypeOK
<1>3. ASSUME NEW r \in InFlight,
             \/ PrivateStep(r) \/ UpdateStock(r) \/ SaveCredit(r) \/ InsertCoupon(r)
             \/ Commit(r) \/ Rollback(r)
      PROVE  pc'[p] = pc[p] /\ order'[p] = order[p]
  BY <1>1, <1>3, OthersKeepMemory
<1>4. CASE UNCHANGED vars
  BY <1>4 DEF vars, OrderVisible, Committed
<1>5. pc'[p] = pc[p] /\ order'[p] = order[p]
  BY <1>2, <1>3, <1>4, StepCases DEF vars
<1> QED BY <1>5 DEF OrderVisible, Committed

LEMMA FoundFacts ==
  ASSUME IInv, RedeemersInv, NEW q \in Request, Found(q)
  PROVE  /\ job[q].coupon \in Coupon
         /\ job[q].op = "apply" => job[q].order \in Request /\ OrderVisible(job[q].order)
<1>1. pc[q] # "idle"
  BY DEF Found, RedeemersInv, Redeemer, Redeems
<1>2. job[q] \in Jobs
  BY <1>1 DEF IInv, TypeOK, ControlOK, RequestControl
<1>3. job[q].coupon \in Coupon /\ (job[q].op = "apply" => job[q].order \in Request)
  BY <1>2, JobTypes DEF Found, PlaceJob, ApplyJob
<1>4. ASSUME job[q].op = "apply" PROVE OrderVisible(job[q].order)
  <2>1. CASE redemption[q] # NoRow
    BY <1>4, <2>1 DEF RedeemersInv, Redeemer, Redeems
  <2>2. CASE redemption[q] = NoRow
    BY <1>4, <2>2, InFlightFacts DEF Found, InFlight, Final
  <2> QED BY <2>1, <2>2
<1> QED BY <1>3, <1>4

\* What r found stays so, whatever the others do.
LEMMA GenuineStays ==
  ASSUME IInv, NoStrayVersions, CouponsStay, RedeemersInv, [Next]_vars,
         NEW q \in Request, Found(q), job'[q] = job[q]
  PROVE  Genuine(q)'
<1>1. Genuine(q) /\ job[q].op \in {"place", "apply"}
  BY DEF RedeemersInv, Redeemer, Found
<1>2. row'[job[q].coupon] # NoRow
  BY <1>1, FoundFacts, CouponsStayStep DEF Genuine
<1>3. RequestStore(q)' = RequestStore(q)
  <2>1. CASE job[q].op = "place"
    BY <2>1 DEF RequestStore
  <2>2. CASE job[q].op = "apply"
    BY <2>2, FoundFacts, OrdersStay DEF RequestStore
  <2> QED BY <1>1, <2>1, <2>2
<1> QED BY <1>1, <1>2, <1>3 DEF Genuine

LEMMA RedeemerOthers ==
  ASSUME IInv, NoStrayVersions, CouponsStay, RedeemersInv, [Next]_vars,
         NEW q \in Request,
         pc'[q] = pc[q], job'[q] = job[q],
         order'[q] = order[q], redemption'[q] = redemption[q]
  PROVE  Redeemer(q)'
<1>1. order'[q] # NoRow => Ordered(q)'
  BY DEF RedeemersInv, Redeemer, Ordered
<1>2. Found(q)' => Genuine(q)'
  BY GenuineStays DEF Found
<1>3. ASSUME redemption[q] # NoRow PROVE Redeems(q)'
  <2>1. Redeems(q) /\ Found(q)
    BY <1>3 DEF RedeemersInv, Redeemer, Redeems, Found
  <2> QED BY <2>1, FoundFacts, OrdersStay DEF Redeems
<1> QED BY <1>1, <1>2, <1>3 DEF Redeemer

\* The request that takes the step.
LEMMA RedeemerLocal ==
  ASSUME IInv, NoStrayVersions, CouponsStay, RedeemersInv, [Next]_vars,
         NEW r \in InFlight,
         PrivateStep(r) \/ UpdateStock(r) \/ SaveCredit(r) \/ InsertCoupon(r)
  PROVE  Redeemer(r)'
<1>1. /\ job' = job /\ r \in Request /\ job[r] \in Jobs
      /\ pc'[r] \in Phase \ ({"idle"} \cup Final) /\ pc[r] # "commit"
  BY StaysInFlight, InFlightFacts
     DEF PrivateStep, ReadLine, ReadCoupon, CheckRedeemed, ReadCredit,
         SelectForStock, InsertOrder, SelectForCredit, RecordRedemption,
         ReadForGrant, ReadForPatch, ReadForApply, LookUpCode, UpdateStock,
         SaveCredit, InsertCoupon
<1>2. redemption[r] = NoRow
  BY <1>1 DEF RedeemersInv, Redeemer, Redeems, InFlight, Final
<1>3. order'[r] # NoRow => Ordered(r)'
  <2>1. CASE InsertOrder(r)
    <3>1. job[r].op = "place"
      BY <2>1, InFlightFacts DEF InsertOrder, Reaches
    <3>2. order'[r].store = job[r].store
      BY <1>1, <2>1 DEF InsertOrder, NewOrder, IInv, TypeOK
    <3> QED BY <1>1, <3>1, <3>2 DEF Ordered
  <2>2. CASE ~InsertOrder(r)
    <3>1. order' = order
      BY <2>2
         DEF PrivateStep, ReadLine, ReadCoupon, CheckRedeemed, ReadCredit,
             SelectForStock, SelectForCredit, RecordRedemption, ReadForGrant,
             ReadForPatch, ReadForApply, LookUpCode, UpdateStock, SaveCredit,
             InsertCoupon
    <3> QED BY <1>1, <3>1 DEF RedeemersInv, Redeemer, Ordered
  <2> QED BY <2>1, <2>2
<1>4. Found(r)' => Genuine(r)'
  <2>1. CASE ReadCoupon(r)
    <3>1. job[r].op \in {"place", "apply"}
      BY <2>1, InFlightFacts DEF ReadCoupon, Reaches
    <3>2. job[r].op = "place" => job[r].coupon # NoRow
      BY <2>1, InFlightFacts DEF ReadCoupon, PlaceControl
    <3>3. job[r].coupon \in Coupon
      BY <1>1, <3>1, <3>2, JobTypes DEF PlaceJob, ApplyJob
    <3>4. row[job[r].coupon] # NoRow /\ StoreOf[job[r].coupon] = RequestStore(r)
      BY <1>1, <2>1, <3>1, <3>3 DEF ReadCoupon, CouponFound, Visible, CouponsStay
    <3>5. row' = row /\ order' = order
      BY <2>1 DEF ReadCoupon
    <3> QED BY <1>1, <3>4, <3>5 DEF Genuine, RequestStore
  <2>2. ASSUME ~ReadCoupon(r), Found(r)' PROVE Found(r)
    <3>1. CASE ReadLine(r)
      <4>1. job[r].op = "place" /\ pc'[r] \in {"lines", "coupon", "credit"}
            /\ (pc'[r] = "credit" => job[r].coupon = NoRow)
            /\ redemption' = redemption
        BY <1>1, <3>1, InFlightFacts DEF ReadLine, Goto, IInv, TypeOK, Reaches
      <4> QED BY <1>1, <1>2, <2>2, <4>1 DEF Found
    <3>2. CASE ReadForGrant(r) \/ ReadForPatch(r)
      <4>1. job[r].op \in {"grant", "patch"}
        BY <3>2, InFlightFacts DEF ReadForGrant, ReadForPatch, Reaches
      <4> QED BY <1>1, <2>2, <4>1 DEF Found
    <3>3. CASE ReadForApply(r) \/ LookUpCode(r) \/ InsertCoupon(r)
      <4>1. pc'[r] \in {"coupon", "insert", "commit"} /\ redemption' = redemption
        BY <1>1, <3>3 DEF ReadForApply, LookUpCode, InsertCoupon, Goto, IInv, TypeOK
      <4> QED BY <1>2, <2>2, <4>1 DEF Found
    <3>4. CASE \/ CheckRedeemed(r) \/ ReadCredit(r) \/ SelectForStock(r)
               \/ UpdateStock(r) \/ InsertOrder(r) \/ SelectForCredit(r)
               \/ SaveCredit(r) \/ RecordRedemption(r)
      <4>1. pc[r] \in {"redeemed", "credit", "stock", "update", "order", "fresh",
                       "save", "redeem"}
        BY <3>4 DEF CheckRedeemed, ReadCredit, SelectForStock, UpdateStock,
             InsertOrder, SelectForCredit, SaveCredit, RecordRedemption
      <4> QED BY <1>1, <2>2, <4>1 DEF Found
    <3> QED BY <2>2, <3>1, <3>2, <3>3, <3>4 DEF PrivateStep
  <2> QED BY <1>1, <2>1, <2>2, GenuineStays
<1>5. ASSUME redemption'[r] # NoRow PROVE Redeems(r)'
  <2>1. RecordRedemption(r)
    BY <1>2, <1>5
       DEF PrivateStep, ReadLine, ReadCoupon, CheckRedeemed, ReadCredit,
           SelectForStock, InsertOrder, SelectForCredit, ReadForGrant,
           ReadForPatch, ReadForApply, LookUpCode, UpdateStock, SaveCredit,
           InsertCoupon
  <2>2. /\ pc[r] = "redeem" /\ pc'[r] = "commit" /\ order' = order
        /\ redemption'[r] = [coupon |-> job[r].coupon,
                             order |-> IF job[r].op = "place" THEN r ELSE job[r].order]
    BY <1>1, <2>1 DEF RecordRedemption, Goto, IInv, TypeOK
  <2>3. CASE job[r].op = "place"
    <3>1. job[r].coupon # NoRow /\ order[r] # NoRow
      BY <2>2, <2>3, InFlightFacts DEF PlaceControl
    <3> QED BY <1>1, <2>2, <2>3, <3>1 DEF Redeems
  <2>4. CASE job[r].op = "apply"
    <3>1. /\ job[r].coupon \in Coupon /\ job[r].order \in Request
          /\ OrderVisible(job[r].order)
      BY <2>2, <2>4, InFlightFacts DEF ApplyJob
    <3>2. ASSUME NEW o \in Request, o = job[r].order
          PROVE  OrderVisible(o)'
      BY <3>1, <3>2, OrdersStay
    <3>3. job[r].coupon # NoRow
      BY <3>1, CheckoutAssumption
    <3>4. job'[r].order = job[r].order /\ job[r].order \in Request
      BY <1>1, <3>1
    <3>5. OrderVisible(job[r].order)'
      BY <3>1, <3>2, <3>4 DEF OrderVisible, Committed
    <3> QED BY <1>1, <2>2, <2>4, <3>3, <3>5 DEF Redeems
  <2>5. job[r].op \in {"place", "apply"}
    BY <2>2, InFlightFacts DEF Reaches
  <2> QED BY <2>3, <2>4, <2>5
<1> QED BY <1>3, <1>4, <1>5 DEF Redeemer

LEMMA RedeemersStep ==
  ASSUME IInv, NoStrayVersions, CouponsStay, RedeemersInv, [Next]_vars
  PROVE  RedeemersInv'
<1>1. ASSUME NEW r \in Request, Begin(r)
      PROVE  RedeemersInv'
  <2>1. pc[r] = "idle" /\ order'[r] = NoRow /\ redemption'[r] = NoRow
    BY <1>1 DEF Begin, RedeemersInv, Redeemer, Ordered, Redeems
  <2>2. pc'[r] \in {"lines", "grant", "patch", "apply", "lookup", "commit", "rolledback"}
    BY <1>1, JobTypes DEF Begin, Goto, Entry, IInv, TypeOK
  <2>3. Redeemer(r)'
    BY <2>1, <2>2 DEF Redeemer, Found
  <2>4. \A q \in Request \ {r} :
          /\ pc'[q] = pc[q] /\ job'[q] = job[q]
          /\ order'[q] = order[q] /\ redemption'[q] = redemption[q]
    BY <1>1 DEF Begin, Goto, IInv, TypeOK
  <2> QED BY <2>3, <2>4, RedeemerOthers DEF RedeemersInv
<1>2. ASSUME NEW r \in InFlight,
             PrivateStep(r) \/ UpdateStock(r) \/ SaveCredit(r) \/ InsertCoupon(r)
      PROVE  RedeemersInv'
  BY <1>2, RedeemerLocal, RedeemerOthers, OthersKeepMemory DEF RedeemersInv
<1>3. ASSUME NEW r \in InFlight, Commit(r)
      PROVE  RedeemersInv'
  <2>1. /\ r \in Request /\ pc[r] = "commit" /\ pc'[r] = "committed"
        /\ UNCHANGED <<job, order, redemption>>
    BY <1>3 DEF Commit, Goto, InFlight, IInv, TypeOK
  <2>2. order'[r] # NoRow => Ordered(r)'
    BY <2>1 DEF RedeemersInv, Redeemer, Ordered
  <2>3. Found(r)' => Genuine(r)'
    BY <2>1, GenuineStays DEF Found
  <2>4. ASSUME redemption[r] # NoRow PROVE Redeems(r)'
    <3>1. Redeems(r) /\ Found(r)
      BY <2>1, <2>4 DEF RedeemersInv, Redeemer, Redeems, Found
    <3> QED BY <2>1, <3>1, FoundFacts, OrdersStay DEF Redeems
  <2>5. Redeemer(r)'
    BY <2>1, <2>2, <2>3, <2>4 DEF Redeemer
  <2> QED BY <1>3, <2>5, RedeemerOthers, OthersKeepMemory DEF RedeemersInv
<1>4. ASSUME NEW r \in InFlight, Rollback(r)
      PROVE  RedeemersInv'
  <2>1. order'[r] = NoRow /\ redemption'[r] = NoRow /\ pc'[r] = "rolledback"
    BY <1>4 DEF Rollback, Goto, InFlight, IInv, TypeOK
  <2>2. Redeemer(r)'
    BY <2>1 DEF Redeemer, Found
  <2> QED BY <1>4, <2>2, RedeemerOthers, OthersKeepMemory DEF RedeemersInv
<1>5. CASE UNCHANGED vars
  BY <1>5
     DEF vars, RedeemersInv, Redeemer, Ordered, Found, Genuine, Redeems,
         RequestStore, OrderVisible, Committed
<1> QED BY <1>1, <1>2, <1>3, <1>4, <1>5, StepCases

\* Every redemption that can be seen has its order and its coupon, both of one
\* store, whatever requests race or fail between the three INSERTs.
THEOREM RedemptionsAreBacked == Spec => []RedemptionsHaveOrders
<1>1. Init => IInv /\ NoStrayVersions /\ CouponsStay /\ RedeemersInv
  <2> SUFFICES ASSUME Init PROVE NoStrayVersions /\ CouponsStay /\ RedeemersInv
    BY InitInv
  <2>1. NoStrayVersions
    BY DEF Init, DatabaseInit, NoStrayVersions
  <2>2. CouponsStay
    BY NobodyAssumption, CheckoutAssumption DEF Init, DatabaseInit, CouponsStay
  <2>3. RedeemersInv
    BY DEF Init, RedeemersInv, Redeemer, Found
  <2> QED BY <2>1, <2>2, <2>3
<1>2. IInv /\ NoStrayVersions /\ CouponsStay /\ RedeemersInv /\ [Next]_vars
        => IInv' /\ NoStrayVersions' /\ CouponsStay' /\ RedeemersInv'
  BY NextInv, NoStrayVersionsStep, CouponsStayStep, RedeemersStep
<1>3. IInv /\ RedeemersInv => RedemptionsHaveOrders
  <2> SUFFICES ASSUME IInv, RedeemersInv, NEW q \in Request,
                      Committed(q), redemption[q] # NoRow
               PROVE  LET o == redemption[q].order
                          c == redemption[q].coupon
                      IN  /\ OrderVisible(o)
                          /\ order[o].store = StoreOf[c]
                          /\ row[c] # NoRow
    BY DEF RedemptionsHaveOrders
  <2>1. Redeems(q) /\ Found(q) /\ Genuine(q)
    BY DEF RedeemersInv, Redeemer, Redeems, Found
  <2>2. CASE job[q].op = "place"
    <3>1. redemption[q].order = q /\ order[q] # NoRow
      BY <2>1, <2>2 DEF Redeems
    <3>2. order[q].store = job[q].store
      BY <3>1 DEF RedeemersInv, Redeemer, Ordered
    <3> QED
      BY <2>1, <2>2, <3>1, <3>2 DEF Redeems, Genuine, RequestStore, OrderVisible
  <2>3. CASE job[q].op = "apply"
    BY <2>1, <2>3 DEF Redeems, Genuine, RequestStore
  <2> QED BY <2>1, <2>2, <2>3 DEF Found
<1> QED BY <1>1, <1>2, <1>3, PTL DEF Spec
=============================================================================
