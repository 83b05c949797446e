---------------------- MODULE CheckoutRefinementProofs ----------------------
(***************************************************************************)
(* With one connection to the database, Checkout implements Shop: each     *)
(* commit is a step of the shop, and every other step changes nothing that *)
(* it shows.  A request that nobody overlaps still sees, at each of its    *)
(* statements, what it saw at the statements before.                       *)
(***************************************************************************)
EXTENDS CheckoutRefinement, CheckoutBooksProofs

\* No cart lists a product twice, and no price is negative to begin with (nor
\* is one that a patch sets: see PatchJob).
CartsAreSets ==
  \A j \in Checkouts : \A i, n \in DOMAIN j.lines :
    j.lines[i].product = j.lines[n].product => i = n
PricesGiven == \A p \in Product : InitialRow[p].price >= 0

-----------------------------------------------------------------------------
(***************************************************************************)
(* What a request that is served alone has read and written so far.        *)
(***************************************************************************)

\* ReadLine accepted line i, and copied the row as it still is.
LineStands(r, i) ==
  LET line == job[r].lines[i]
      copy == mem[r].copies[i]
  IN  /\ copy = row[line.product]
      /\ StoreOf[line.product] = job[r].store
      /\ copy.active /\ copy.stock >= line.quantity

PlaceTurn(r) ==
  /\ \A i \in DOMAIN mem[r].copies : LineStands(r, i)
  /\ pc[r] = "update" => mem[r].dirty \subseteq {"stock"}
  /\ \A p \in Product : latest[p].price = row[p].price /\ latest[p].active = row[p].active
  /\ pc[r] \in {"stock", "update", "order", "fresh", "save", "redeem", "commit"} =>
       mem[r].balance >= 0
  /\ pc[r] = "commit" => order[r] # NoRow

\* The product as the body of a patch wants it.
AsPatched(r) ==
  [stock |-> Patched(row[job[r].product].stock, job[r].stock),
   price |-> Patched(row[job[r].product].price, job[r].price),
   active |-> Patched(row[job[r].product].active, job[r].active)]

PatchTurn(r) ==
  /\ pc[r] \in {"stock", "update"} => mem[r].copies[1] = AsPatched(r)
  /\ pc[r] = "update" => mem[r].dirty = Differing(AsPatched(r), row[job[r].product])
  /\ pc[r] = "commit" => latest[job[r].product] = AsPatched(r)

ApplyTurn(r) ==
  /\ pc[r] # "apply" => OrderReadable(r)
  /\ pc[r] = "commit" => redemption[r] # NoRow

CreateTurn(r) ==
  /\ \A c \in Coupon : writer[c] = r => c = job[r].coupon
  /\ pc[r] = "commit" => writer[job[r].coupon] = r /\ latest[job[r].coupon] = job[r].percent

Turn(r) ==
  /\ Admitted(job[r])
  /\ job[r].op = "place" => PlaceTurn(r)
  /\ job[r].op = "patch" => PatchTurn(r)
  /\ job[r].op = "apply" => ApplyTurn(r)
  /\ job[r].op = "create" => CreateTurn(r)

TurnInv ==
  /\ \A r \in InFlight : Turn(r)
  /\ \A r \in Request : pc[r] = "idle" => results[r] = {}
  /\ \A p \in Product : row[p].price >= 0

\* The invariants that the other theorems rest on.
SerialInv ==
  /\ IInv /\ NoStrayVersions /\ MetInv /\ Alone
  /\ LedgerInv /\ CouponsStay /\ RedeemersInv /\ OrdersInv
  /\ CouponsFixed /\ BillInv /\ CreditInv /\ StockInv

-----------------------------------------------------------------------------
(***************************************************************************)
(* Each statement keeps to that.                                           *)
(***************************************************************************)
LEMMA AloneFacts ==
  ASSUME SerialInv, NEW r \in InFlight
  PROVE  /\ r \in Request /\ r # Nobody
         /\ InFlight = {r}
         /\ \A k \in Key : writer[k] # r => writer[k] = Nobody /\ latest[k] = row[k]
         /\ \A k \in Key : Visible(r, k) = latest[k]
<1>1. r \in Request /\ r # Nobody
  BY NobodyAssumption DEF InFlight
<1>2. InFlight = {r}
  BY <1>1 DEF SerialInv, MetInv, Alone, InFlight
<1>3. \A k \in Key : writer[k] # r => writer[k] = Nobody /\ latest[k] = row[k]
  BY <1>2 DEF SerialInv, NoStrayVersions
<1> QED BY <1>1, <1>2, <1>3 DEF Visible

\* The lines of a cart and the copies made of them.
LEMMA CopyFacts ==
  ASSUME SerialInv, NEW r \in InFlight, job[r].op = "place", Turn(r),
         NEW i \in DOMAIN mem[r].copies
  PROVE  /\ mem[r].copies[i] \in ProductRow
         /\ i \in DOMAIN job[r].lines
         /\ job[r].lines[i].product \in Product \cap Key
         /\ job[r].lines[i].quantity \in Int
BY LineTypes DEF SerialInv, Turn, PlaceTurn

LEMMA PlaceReads ==
  ASSUME SerialInv, NEW r \in InFlight, Turn(r), ReadLine(r)
  PROVE  PlaceTurn(r)'
<1> DEFINE n == mem[r].line
           p == CartLine(r).product
<1>1. /\ job' = job /\ r \in Request /\ mem[r] \in Memory /\ job[r].op = "place"
      /\ pc[r] = "lines" /\ pc'[r] \in {"lines", "coupon", "credit"}
      /\ UNCHANGED <<row, latest, writer>>
  BY StaysInFlight, InFlightFacts, Moves, PrivateRows DEF PrivateStep, SerialInv
<1>2. /\ CartLine(r) = job[r].lines[n] /\ p \in Product \cap Key
      /\ Len(mem[r].copies) = n - 1 /\ n \in Nat
  BY <1>1, CartLineType, InFlightFacts
     DEF CartLine, PlaceControl, PlaceJob, Memory, SerialInv
<1>3. Visible(r, p) = row[p]
  <2>1. writer[p] # r
    BY <1>1, <1>2 DEF SerialInv, StockInv, StockHeld, Touches
  <2> QED BY <2>1 DEF Visible
<1>4. mem'[r].copies = Append(mem[r].copies, row[p])
  <2> DEFINE a == Append(mem[r].copies, row[p])
             b == mem[r].subtotal + row[p].price * CartLine(r).quantity
             c == IF n = Len(job[r].lines) THEN 1 ELSE n + 1
  <2>1. mem'[r] = [mem[r] EXCEPT !.copies = a, !.subtotal = b, !.line = c]
    BY <1>1, <1>3 DEF ReadLine, SerialInv, IInv, TypeOK
  <2> HIDE DEF a, b, c
  <2>2. mem'[r].copies = a
    BY <1>1, <2>1 DEF Memory
  <2> QED BY <2>2 DEF a
<1>5. /\ StoreOf[p] = job[r].store /\ row[p].active
      /\ row[p].stock >= CartLine(r).quantity
  BY <1>3 DEF ReadLine, LineAccepted
<1>6. ASSUME NEW i \in DOMAIN mem'[r].copies
      PROVE  LineStands(r, i)'
  <2>1. mem[r].copies \in Seq(ProductRow) /\ row[p] \in ProductRow
    BY <1>1, <1>2 DEF Memory, SerialInv, IInv, TypeOK, RowOK
  <2>2. CASE i \in DOMAIN mem[r].copies
    <3>1. mem'[r].copies[i] = mem[r].copies[i]
      BY <1>4, <2>1, <2>2
    <3> QED BY <1>1, <2>2, <3>1 DEF Turn, PlaceTurn, LineStands
  <2>3. CASE i \notin DOMAIN mem[r].copies
    <3>1. i = n /\ mem'[r].copies[i] = row[p]
      BY <1>2, <1>4, <2>1, <2>3
    <3> QED BY <1>1, <1>2, <1>5, <3>1 DEF LineStands
  <2> QED BY <2>2, <2>3
<1> QED BY <1>1, <1>6 DEF Turn, PlaceTurn

\* The statements that read or write a product or a balance.
LEMMA PlaceSelects ==
  ASSUME SerialInv, NEW r \in InFlight, Turn(r), job[r].op = "place", SelectForStock(r)
  PROVE  pc'[r] = "update" => mem'[r].dirty \subseteq {"stock"}
<1> DEFINE p == CurrentProduct(r)
           n == mem[r].line
           dirty == Differing(Saved(r), Visible(r, p))
<1>1. /\ r \in Request /\ mem[r] \in Memory /\ pc[r] = "stock"
  BY InFlightFacts, Moves DEF SerialInv
<1>2. /\ n \in DOMAIN mem[r].copies /\ p = job[r].lines[n].product
      /\ p \in Product \cap Key /\ mem[r].copies[n] \in ProductRow
  BY <1>1, LineAtHand DEF SerialInv
<1>3. mem[r].copies[n] = row[p]
  BY <1>2 DEF Turn, PlaceTurn, LineStands
<1>4. Saved(r).price = row[p].price /\ Saved(r).active = row[p].active
  BY <1>2, <1>3 DEF Saved, ProductRow
<1>5. Visible(r, p).price = row[p].price /\ Visible(r, p).active = row[p].active
  BY <1>2, AloneFacts DEF Turn, PlaceTurn
<1>6. dirty \subseteq {"stock"}
  BY <1>4, <1>5 DEF Differing
<1> HIDE DEF dirty
<1>7. pc'[r] = "update" => mem'[r] = [mem[r] EXCEPT !.dirty = dirty]
  BY <1>1 DEF SelectForStock, Goto, AfterStock, SerialInv, IInv, TypeOK, dirty
<1> QED BY <1>1, <1>6, <1>7 DEF Memory

LEMMA PlaceUpdates ==
  ASSUME SerialInv, NEW r \in InFlight, Turn(r), job[r].op = "place", UpdateStock(r)
  PROVE  \A p \in Product : latest'[p].price = row[p].price /\ latest'[p].active = row[p].active
<1> DEFINE p == CurrentProduct(r)
<1>1. /\ mem[r].dirty \subseteq {"stock"} /\ p \in Product \cap Key
      /\ latest[p].price = row[p].price /\ latest[p].active = row[p].active
  BY WrittenKeys, Moves DEF SerialInv, Turn, PlaceTurn
<1>2. latest' = [latest EXCEPT ![p] = Overwrite(latest[p], Saved(r), mem[r].dirty)]
  BY DEF UpdateStock, Put
<1>3. /\ Overwrite(latest[p], Saved(r), mem[r].dirty).price = row[p].price
      /\ Overwrite(latest[p], Saved(r), mem[r].dirty).active = row[p].active
  BY <1>1 DEF Overwrite
<1>4. latest = [k \in Key |-> latest[k]]
  BY DEF SerialInv, IInv, TypeOK, IsTable
<1> QED BY <1>1, <1>2, <1>3, <1>4, CheckoutAssumption DEF Turn, PlaceTurn

LEMMA PlaceStep ==
  ASSUME SerialInv, NEW r \in InFlight, Turn(r), job[r].op = "place",
         PrivateStep(r) \/ UpdateStock(r) \/ SaveCredit(r) \/ InsertCoupon(r)
  PROVE  PlaceTurn(r)'
<1>1. CASE ReadLine(r)
  BY <1>1, PlaceReads
<1>2. CASE ~ReadLine(r)
  <2>1. /\ job' = job /\ r \in Request /\ mem[r] \in Memory /\ row' = row
        /\ PlaceTurn(r)
    BY StaysInFlight, InFlightFacts, PrivateRows
       DEF SerialInv, UpdateStock, SaveCredit, InsertCoupon, Put, Turn
  <2>2. mem'[r].copies = mem[r].copies
    BY <1>2, KeptMemory, Moves DEF SerialInv
  <2>3. \A i \in DOMAIN mem'[r].copies : LineStands(r, i)'
    BY <2>1, <2>2 DEF PlaceTurn, LineStands
  <2>4. pc'[r] = "update" => mem'[r].dirty \subseteq {"stock"}
    <3>1. pc'[r] = "update" => SelectForStock(r)
      BY <1>2, Moves DEF PrivateStep, SerialInv, AfterStock, AfterCredit
    <3> QED BY <3>1, PlaceSelects
  <2>5. \A p \in Product : latest'[p].price = row[p].price /\ latest'[p].active = row[p].active
    <3>1. CASE UpdateStock(r)
      BY <3>1, PlaceUpdates
    <3>2. CASE ~UpdateStock(r)
      <4>1. \A p \in Product : latest'[p] = latest[p]
        <5>1. CASE PrivateStep(r)
          BY <5>1, PrivateRows
        <5>2. CASE SaveCredit(r)
          <6>1. Owner(r) \in User
            BY <5>2, WrittenKeys DEF SerialInv
          <6> QED BY <5>2, <6>1, CheckoutAssumption
                  DEF SaveCredit, Put, SerialInv, IInv, TypeOK, IsTable
        <5>3. ~InsertCoupon(r)
          BY Moves DEF SerialInv
        <5> QED BY <3>2, <5>1, <5>2, <5>3
      <4> QED BY <2>1, <4>1 DEF PlaceTurn
    <3> QED BY <3>1, <3>2
  <2>6. ASSUME pc'[r] \in {"stock", "update", "order", "fresh", "save", "redeem", "commit"}
        PROVE  mem'[r].balance >= 0
    <3>1. CASE ReadCredit(r)
      <4>1. mem'[r] = [mem[r] EXCEPT !.balance = Funds(r) - Total(r)]
            /\ Funds(r) >= Total(r)
        BY <2>1, <3>1 DEF ReadCredit, SerialInv, IInv, TypeOK
      <4>2. Funds(r) \in Int /\ Total(r) \in Int
        BY CreditTypes DEF SerialInv
      <4>3. mem'[r].balance = Funds(r) - Total(r)
        BY <2>1, <4>1 DEF Memory
      <4> QED BY <4>1, <4>2, <4>3
    <3>2. CASE ~ReadCredit(r)
      <4>1. mem'[r].balance = mem[r].balance
        BY <3>2, KeptMemory, Moves DEF SerialInv
      <4>2. pc[r] \in {"stock", "update", "order", "fresh", "save", "redeem", "commit"}
        BY <1>2, <2>6, <3>2, Moves DEF PrivateStep, SerialInv
      <4> QED BY <2>1, <4>1, <4>2 DEF PlaceTurn
    <3> QED BY <3>1, <3>2
  <2>7. pc'[r] = "commit" => order'[r] # NoRow
    <3>1. pc'[r] = "commit" =>
            /\ SelectForCredit(r) \/ SaveCredit(r) \/ RecordRedemption(r)
            /\ pc[r] \in {"fresh", "save", "redeem"}
      BY <1>2, Moves DEF PrivateStep, SerialInv, AfterStock
    <3>2. pc[r] \in {"fresh", "save", "redeem"} => order[r] # NoRow
      BY InFlightFacts DEF PlaceControl, SerialInv
    <3> QED BY <3>1, <3>2 DEF SelectForCredit, SaveCredit, RecordRedemption
  <2> QED BY <2>1, <2>3, <2>4, <2>5, <2>6, <2>7 DEF PlaceTurn
<1> QED BY <1>1, <1>2

LEMMA PatchFacts ==
  ASSUME SerialInv, NEW r \in InFlight, job[r].op = "patch"
  PROVE  /\ job[r] \in PatchJob /\ job[r].product \in Product \cap Key
         /\ row[job[r].product] \in ProductRow /\ AsPatched(r) \in ProductRow
         /\ pc[r] # "commit" => /\ latest[job[r].product] = row[job[r].product]
                                /\ Visible(r, job[r].product) = row[job[r].product]
         /\ pc[r] \in {"stock", "update"} =>
              /\ CurrentProduct(r) = job[r].product /\ LastCopy(r)
              /\ Saved(r) = mem[r].copies[1]
<1> DEFINE p == job[r].product
<1>1. job[r] \in PatchJob /\ p \in Product \cap Key
  BY InFlightFacts, CheckoutAssumption DEF SerialInv, PatchJob
<1>2. row[p] \in ProductRow
  BY <1>1 DEF SerialInv, IInv, TypeOK, RowOK
<1>3. AsPatched(r) \in ProductRow
  BY <1>1, <1>2 DEF AsPatched, Patched, PatchJob, ProductRow
<1>4. pc[r] # "commit" => writer[p] # r
  BY <1>1, AloneFacts DEF SerialInv, StockInv, StockHeld, Touches
<1>5. pc[r] # "commit" => latest[p] = row[p] /\ Visible(r, p) = row[p]
  BY <1>1, <1>4, AloneFacts
<1>6. pc[r] \in {"stock", "update"} =>
        CurrentProduct(r) = p /\ LastCopy(r) /\ Saved(r) = mem[r].copies[1]
  BY InFlightFacts DEF SerialInv, CurrentProduct, LastCopy, Saved
<1> QED BY <1>1, <1>2, <1>3, <1>5, <1>6

LEMMA NothingDiffers ==
  ASSUME NEW a \in ProductRow, NEW b \in ProductRow
  PROVE  /\ Differing(a, b) = {} => a = b
         /\ Overwrite(b, a, Differing(a, b)) = a
<1>1. /\ "stock" \in Differing(a, b) <=> a.stock # b.stock
      /\ "price" \in Differing(a, b) <=> a.price # b.price
      /\ "active" \in Differing(a, b) <=> a.active # b.active
  BY DEF Differing, Column
<1>2. /\ a = [stock |-> a.stock, price |-> a.price, active |-> a.active]
      /\ b = [stock |-> b.stock, price |-> b.price, active |-> b.active]
  BY DEF ProductRow
<1>3. Differing(a, b) = {} => a = b
  BY <1>1, <1>2
<1>4. Overwrite(b, a, Differing(a, b)) =
        [stock |-> a.stock, price |-> a.price, active |-> a.active]
  BY <1>1 DEF Overwrite
<1> QED BY <1>2, <1>3, <1>4

\* A patch writes what its body asks for.
LEMMA PatchStep ==
  ASSUME SerialInv, NEW r \in InFlight, Turn(r), job[r].op = "patch",
         PrivateStep(r) \/ UpdateStock(r) \/ SaveCredit(r) \/ InsertCoupon(r)
  PROVE  PatchTurn(r)'
<1> DEFINE p == job[r].product
           dirty == Differing(AsPatched(r), row[p])
<1>1. /\ job' = job /\ r \in Request /\ mem[r] \in Memory /\ row' = row
      /\ PatchTurn(r)
  BY StaysInFlight, InFlightFacts, PrivateRows
     DEF SerialInv, UpdateStock, SaveCredit, InsertCoupon, Put, Turn
<1>2. AsPatched(r)' = AsPatched(r)
  BY <1>1 DEF AsPatched
<1>3. ReadForPatch(r) \/ SelectForStock(r) \/ UpdateStock(r)
  BY Moves DEF PrivateStep, SerialInv
<1>4. CASE ReadForPatch(r)
  <2>1. pc[r] = "patch" /\ pc'[r] = "stock" /\ Visible(r, p) = row[p]
    BY <1>4, Moves, PatchFacts DEF SerialInv
  <2>2. mem'[r] = [mem[r] EXCEPT !.copies = <<AsPatched(r)>>]
    BY <1>1, <1>4, <2>1 DEF ReadForPatch, AsPatched, SerialInv, IInv, TypeOK
  <2>3. mem'[r].copies = <<AsPatched(r)>>
    BY <1>1, <2>2 DEF Memory
  <2>4. mem'[r].copies[1] = AsPatched(r)
    BY <2>3
  <2> QED BY <1>2, <2>1, <2>4 DEF PatchTurn
<1>5. CASE SelectForStock(r)
  <2>1. /\ pc[r] = "stock" /\ Visible(r, CurrentProduct(r)) = row[p]
        /\ Saved(r) = AsPatched(r) /\ latest'[p] = row[p] /\ LastCopy(r)
        /\ mem[r].copies[1] = AsPatched(r)
    BY <1>1, <1>5, Moves, PatchFacts, PrivateRows DEF SerialInv, PatchTurn, PrivateStep
  <2>2. mem'[r].copies = mem[r].copies
    BY <1>5, <2>1, KeptMemory, Moves DEF SerialInv
  <2>3. CASE dirty = {}
    <3>1. pc'[r] = "commit"
      BY <1>1, <1>5, <2>1, <2>3 DEF SelectForStock, Goto, AfterStock, SerialInv, IInv, TypeOK
    <3>2. AsPatched(r) = row[p]
      BY <2>3, PatchFacts, NothingDiffers
    <3> QED BY <1>1, <1>2, <2>1, <3>1, <3>2 DEF PatchTurn
  <2>4. CASE dirty # {}
    <3>0. Differing(Saved(r), Visible(r, CurrentProduct(r))) = dirty
      BY <2>1
    <3> HIDE DEF dirty
    <3>1. pc'[r] = "update" /\ mem'[r] = [mem[r] EXCEPT !.dirty = dirty]
      BY <1>1, <1>5, <2>4, <3>0 DEF SelectForStock, Goto, SerialInv, IInv, TypeOK
    <3>2. mem'[r].dirty = dirty
      BY <1>1, <3>1 DEF Memory
    <3> QED BY <1>1, <1>2, <2>1, <2>2, <3>1, <3>2 DEF PatchTurn, dirty
  <2> QED BY <2>3, <2>4
<1>6. CASE UpdateStock(r)
  <2>1. /\ pc[r] = "update" /\ CurrentProduct(r) = p /\ latest[p] = row[p]
        /\ Saved(r) = AsPatched(r) /\ mem[r].dirty = dirty
        /\ pc'[r] = "commit" /\ p \in Key
    BY <1>1, <1>6, Moves, PatchFacts DEF SerialInv, PatchTurn, AfterStock
  <2>2. latest' = [latest EXCEPT ![p] = Overwrite(row[p], AsPatched(r), dirty)]
    BY <1>6, <2>1 DEF UpdateStock, Put
  <2>3. Overwrite(row[p], AsPatched(r), dirty) = AsPatched(r)
    BY PatchFacts, NothingDiffers
  <2> HIDE DEF dirty
  <2>4. latest'[p] = AsPatched(r)
    BY <2>1, <2>2, <2>3 DEF SerialInv, IInv, TypeOK, IsTable
  <2> QED BY <1>1, <1>2, <2>1, <2>4 DEF PatchTurn
<1> QED BY <1>3, <1>4, <1>5, <1>6

\* The order that a coupon is applied to stays, and the ledger entry is made.
LEMMA ApplyStep ==
  ASSUME SerialInv, [Next]_vars, NEW r \in InFlight, Turn(r), job[r].op = "apply",
         PrivateStep(r) \/ UpdateStock(r) \/ SaveCredit(r) \/ InsertCoupon(r)
  PROVE  ApplyTurn(r)'
<1>1. /\ job' = job /\ r \in Request /\ ApplyTurn(r) /\ job[r] \in ApplyJob
  BY StaysInFlight, InFlightFacts DEF SerialInv, Turn
<1>2. ReadForApply(r) \/ ReadCoupon(r) \/ CheckRedeemed(r) \/ RecordRedemption(r)
  BY Moves DEF PrivateStep, SerialInv
<1>3. OrderReadable(r)
  BY <1>1, <1>2, Moves DEF ReadForApply, ApplyTurn, SerialInv
<1>4. OrderReadable(r)'
  BY <1>1, <1>3, OrdersStay DEF OrderReadable, SerialInv, ApplyJob
<1>5. pc'[r] = "commit" => redemption'[r] # NoRow
  <2> SUFFICES ASSUME pc'[r] = "commit"
               PROVE  redemption'[r] # NoRow
    OBVIOUS
  <2> DEFINE entry == [coupon |-> job[r].coupon, order |-> job[r].order]
  <2>1. RecordRedemption(r)
    BY <1>2, Moves DEF SerialInv
  <2>2. redemption'[r] = entry
    BY <1>1, <2>1 DEF RecordRedemption, SerialInv, IInv, TypeOK
  <2>3. entry \in RedemptionRow
    BY <1>1 DEF ApplyJob, RedemptionRow
  <2> QED BY <2>2, <2>3, CheckoutAssumption
<1> QED BY <1>4, <1>5 DEF ApplyTurn

LEMMA CreateStep ==
  ASSUME SerialInv, NEW r \in InFlight, Turn(r), job[r].op = "create",
         PrivateStep(r) \/ UpdateStock(r) \/ SaveCredit(r) \/ InsertCoupon(r)
  PROVE  CreateTurn(r)'
<1>1. /\ job' = job /\ r \in Request /\ CreateTurn(r) /\ job[r] \in CreateJob
      /\ job[r].coupon \in Key
  BY StaysInFlight, InFlightFacts, CheckoutAssumption DEF SerialInv, Turn, CreateJob
<1>2. CASE LookUpCode(r)
  <2>1. writer' = writer /\ pc'[r] = "insert"
    BY <1>2, Moves DEF LookUpCode, SerialInv
  <2> QED BY <1>1, <2>1 DEF CreateTurn
<1>3. CASE InsertCoupon(r)
  BY <1>1, <1>3 DEF InsertCoupon, Put, CreateTurn, SerialInv, IInv, TypeOK, IsTable
<1>4. LookUpCode(r) \/ InsertCoupon(r)
  BY Moves DEF PrivateStep, SerialInv
<1> QED BY <1>2, <1>3, <1>4

\* A request begins over committed rows, with nothing remembered.
LEMMA TurnBegins ==
  ASSUME MaxInFlight = 1, SerialInv, TurnInv, NEW r \in Request, Begin(r)
  PROVE  \A q \in InFlight' : Turn(q)'
<1>1. InFlight = {}
  <2>1. Cardinality(InFlight) \in Nat /\ Cardinality(InFlight) < 1
    BY FS_CardinalityType DEF Begin, SerialInv, Alone
  <2>2. Cardinality(InFlight) = 0
    BY <2>1
  <2> QED BY <2>2, FS_EmptySet DEF SerialInv, Alone
<1>2. \A k \in Key : writer[k] = Nobody /\ latest[k] = row[k]
  BY <1>1 DEF SerialInv, NoStrayVersions
<1>3. PICK j \in Jobs :
        /\ job' = [job EXCEPT ![r] = j]
        /\ Goto(r, IF Replayed(r, j) THEN "commit"
                   ELSE IF Admitted(j) THEN Entry(j.op) ELSE "rolledback")
  BY DEF Begin
<1>4. ~Replayed(r, j)
  BY DEF Begin, Replayed, UseCase, TurnInv
<1>5. /\ job'[r] = j /\ mem'[r] = Blank /\ UNCHANGED <<row, latest, writer>>
      /\ pc'[r] = IF Admitted(j) THEN Entry(j.op) ELSE "rolledback"
  BY <1>1, <1>3, <1>4
     DEF Begin, Goto, SerialInv, IInv, TypeOK, ControlOK, RequestControl, InFlight
<1>6. InFlight' \subseteq {r}
  BY <1>1, <1>3 DEF Goto, InFlight, SerialInv, IInv, TypeOK
<1> SUFFICES ASSUME r \in InFlight'
             PROVE  Turn(r)'
  BY <1>6
<1>7. Admitted(j) /\ pc'[r] = Entry(j.op)
  BY <1>5 DEF InFlight, Final
<1>8. Admitted(job[r])'
  BY <1>5, <1>7 DEF Admitted, PlaceAdmitted, GrantAdmitted, PatchAdmitted, CreateAdmitted
<1>9. j.op = "place" => PlaceTurn(r)'
  BY <1>2, <1>5, <1>7, CheckoutAssumption DEF Entry, PlaceTurn, Blank
<1>10. j.op = "patch" => PatchTurn(r)'
  BY <1>5, <1>7 DEF Entry, PatchTurn
<1>11. j.op = "apply" => ApplyTurn(r)'
  BY <1>5, <1>7 DEF Entry, ApplyTurn
<1>12. j.op = "create" => CreateTurn(r)'
  BY <1>2, <1>5, <1>7, CheckoutAssumption, NobodyAssumption DEF Entry, CreateTurn
<1> QED BY <1>5, <1>8, <1>9, <1>10, <1>11, <1>12 DEF Turn

\* A commit leaves prices as they were or as a patch set them.
LEMMA PricesAtCommit ==
  ASSUME SerialInv, TurnInv, NEW r \in InFlight, Commit(r), NEW p \in Product
  PROVE  row'[p].price >= 0
<1>1. /\ row'[p] = Visible(r, p) /\ p \in Key /\ row[p] \in ProductRow
      /\ row[p].price >= 0 /\ Turn(r) /\ pc[r] = "commit"
  BY CheckoutAssumption DEF Commit, Publish, TurnInv, SerialInv, IInv, TypeOK, RowOK
<1>2. CASE writer[p] # r
  BY <1>1, <1>2 DEF Visible
<1>3. CASE writer[p] = r
  <2>1. /\ Visible(r, p) = latest[p]
        /\ \/ job[r].op = "place"
           \/ job[r].op = "patch" /\ job[r].product = p
    BY <1>3, AloneFacts DEF Visible, SerialInv, StockInv, StockHeld, Touches
  <2>2. CASE job[r].op = "place"
    BY <1>1, <2>1, <2>2 DEF Turn, PlaceTurn
  <2>3. CASE job[r].op = "patch" /\ job[r].product = p
    <3>1. latest[p].price = Patched(row[p].price, job[r].price)
      BY <1>1, <2>3 DEF Turn, PatchTurn, AsPatched
    <3>2. job[r].price # NoRow => job[r].price \in Nat
      BY <2>3, PatchFacts DEF PatchJob
    <3>3. CASE job[r].price = NoRow
      BY <1>1, <2>1, <3>1, <3>3 DEF Patched
    <3>4. CASE job[r].price # NoRow
      BY <1>1, <2>1, <3>1, <3>2, <3>4 DEF Patched
    <3> QED BY <3>3, <3>4
  <2> QED BY <2>1, <2>2, <2>3
<1> QED BY <1>2, <1>3

LEMMA TurnStep ==
  ASSUME MaxInFlight = 1, SerialInv, TurnInv, [Next]_vars
  PROVE  TurnInv'
<1>1. ASSUME NEW r \in Request, Begin(r)
      PROVE  TurnInv'
  <2>1. \A q \in Request : pc'[q] = "idle" => pc[q] = "idle"
    BY <1>1 DEF Begin, Goto, SerialInv, IInv, TypeOK
  <2> QED BY <1>1, <2>1, TurnBegins DEF Begin, TurnInv
<1>2. ASSUME NEW r \in InFlight,
             \/ PrivateStep(r) \/ UpdateStock(r) \/ SaveCredit(r) \/ InsertCoupon(r)
      PROVE  TurnInv'
  <2>1. /\ InFlight' = InFlight /\ InFlight = {r} /\ r \in Request /\ job' = job
        /\ Turn(r) /\ row' = row
    BY <1>2, StaysInFlight, AloneFacts, PrivateRows
       DEF SerialInv, TurnInv, UpdateStock, SaveCredit, InsertCoupon, Put
  <2>2. Admitted(job[r])'
    BY <2>1
       DEF Turn, Admitted, PlaceAdmitted, GrantAdmitted, PatchAdmitted, CreateAdmitted
  <2>3. Turn(r)'
    BY <1>2, <2>1, <2>2, PlaceStep, PatchStep, ApplyStep, CreateStep DEF Turn
  <2>4. ASSUME NEW q \in Request, pc'[q] = "idle"
        PROVE  results'[q] = {}
    <3>1. q # r /\ pc[q] = "idle"
      BY <1>2, <2>4, StaysInFlight DEF SerialInv
    <3>2. results' = results \/ \E v : results' = [results EXCEPT ![r] = v]
      BY <1>2 DEF PrivateStep, ReadLine, ReadCoupon, CheckRedeemed, ReadCredit,
           SelectForStock, InsertOrder, SelectForCredit, RecordRedemption,
           ReadForGrant, ReadForPatch, ReadForApply, LookUpCode, UpdateStock,
           SaveCredit, InsertCoupon, Remember, UseCase
    <3> QED BY <2>1, <3>1, <3>2 DEF TurnInv, SerialInv, IInv, TypeOK
  <2> QED BY <2>1, <2>3, <2>4 DEF TurnInv
<1>3. ASSUME NEW r \in InFlight, Commit(r) \/ Rollback(r)
      PROVE  TurnInv'
  <2>1. /\ InFlight' = {} /\ results' = results
        /\ \A q \in Request : pc'[q] = "idle" => pc[q] = "idle"
    BY <1>3, AloneFacts DEF Commit, Rollback, Goto, InFlight, Final, SerialInv, IInv, TypeOK
  <2>2. \A p \in Product : row'[p].price >= 0
    BY <1>3, PricesAtCommit DEF Rollback, Discard, TurnInv
  <2> QED BY <2>1, <2>2 DEF TurnInv
<1>4. CASE UNCHANGED vars
  <2>1. InFlight' = InFlight
    BY <1>4 DEF vars, InFlight
  <2>2. \A r \in InFlight : Turn(r)' <=> Turn(r)
    BY <1>4 DEF vars, Turn, PlaceTurn, LineStands, PatchTurn, AsPatched, ApplyTurn,
         CreateTurn, OrderReadable, OrderVisible, Committed, Admitted, PlaceAdmitted,
         GrantAdmitted, PatchAdmitted, CreateAdmitted
  <2> QED BY <1>4, <2>1, <2>2 DEF vars, TurnInv
<1> QED BY <1>1, <1>2, <1>3, <1>4, StepCases DEF SerialInv

-----------------------------------------------------------------------------
(***************************************************************************)
(* What the shop computes from a cart is what PlaceOrder computed in its   *)
(* loop over the lines.                                                    *)
(***************************************************************************)

\* A sum does not depend on how its terms are named.
LEMMA SumRenamed ==
  ASSUME NEW f, NEW g, NEW h, IsFiniteSet(DOMAIN f), IntOn(f, DOMAIN f),
         \A x, y \in DOMAIN f : h[x] = h[y] => x = y,
         DOMAIN g = {h[x] : x \in DOMAIN f},
         \A x \in DOMAIN f : g[h[x]] = f[x]
  PROVE  SumFunction(g) = SumFunction(f)
<1> DEFINE S == DOMAIN f
           Named(T) == {h[x] : x \in T}
           Bad(T) == SumFunctionOnSet(g, Named(T)) # SumFunctionOnSet(f, T)
           F == {T \in SUBSET S : Bad(T)}
<1>1. F = {}
  <2> SUFFICES ASSUME F # {}
               PROVE  FALSE
    OBVIOUS
  <2>1. F \in SUBSET (SUBSET S)
    OBVIOUS
  <2> HIDE DEF F
  <2>2. PICK T \in F : \A U \in F : U \subseteq T => U = T
    BY <2>1, SmallestSet
  <2>3. T \subseteq S /\ Bad(T) /\ IsFiniteSet(T)
    BY FS_Subset DEF F
  <2>4. T # {}
    <3>1. T = {} => Named(T) = {}
      OBVIOUS
    <3> QED BY <2>3, <3>1, SumEmpty
  <2>5. PICK x \in T : TRUE
    BY <2>4
  <2> DEFINE U == T \ {x}
  <2>6. /\ ~Bad(U) /\ IsFiniteSet(U) /\ U \cup {x} = T /\ x \notin U
        /\ IntOn(f, U \cup {x})
    BY <2>2, <2>3, FS_Subset DEF F, IntOn
  <2>7. SumFunctionOnSet(f, T) = SumFunctionOnSet(f, U) + f[x]
    <3> HIDE DEF U
    <3> QED BY <2>6, SumGrows
  <2>8. SumFunctionOnSet(g, Named(T)) = SumFunctionOnSet(g, Named(U)) + g[h[x]]
    <3>1. Named(T) = Named(U) \cup {h[x]} /\ h[x] \notin Named(U)
      BY <2>3, <2>6
    <3>2. IsFiniteSet(Named(U))
      <4> DEFINE m == [y \in U |-> h[y]]
      <4>1. m \in Surjection(U, Named(U))
        BY DEF Surjection
      <4> HIDE DEF m, U, Named
      <4> QED BY <2>6, <4>1, FS_Surjection
    <3>3. IntOn(g, Named(U) \cup {h[x]})
      BY <2>3, <2>6, <3>1 DEF IntOn
    <3> HIDE DEF Named, U
    <3> QED BY <3>1, <3>2, <3>3, SumGrows
  <2> HIDE DEF U, Named
  <2> QED BY <2>3, <2>6, <2>7, <2>8
<1>2. ~Bad(S)
  BY <1>1
<1> QED BY <1>2 DEF SumFunction

LEMMA SumNatural ==
  ASSUME NEW f, IsFiniteSet(DOMAIN f), \A x \in DOMAIN f : f[x] \in Nat
  PROVE  SumFunction(f) \in Nat
<1> DEFINE S == DOMAIN f
           F == {T \in SUBSET S : SumFunctionOnSet(f, T) \notin Nat}
<1>1. F = {}
  <2> SUFFICES ASSUME F # {}
               PROVE  FALSE
    OBVIOUS
  <2>1. F \in SUBSET (SUBSET S)
    OBVIOUS
  <2> HIDE DEF F
  <2>2. PICK T \in F : \A U \in F : U \subseteq T => U = T
    BY <2>1, SmallestSet
  <2>3. T \subseteq S /\ SumFunctionOnSet(f, T) \notin Nat /\ IsFiniteSet(T)
    BY FS_Subset DEF F
  <2>4. T # {}
    BY <2>3, SumEmpty
  <2>5. PICK x \in T : TRUE
    BY <2>4
  <2> DEFINE U == T \ {x}
  <2>6. SumFunctionOnSet(f, U) \in Nat
    BY <2>2, <2>3, <2>5 DEF F
  <2>7. SumFunctionOnSet(f, T) = f[x] + SumFunctionOnSet(f, U)
    BY <2>3, <2>5, SumTakes DEF IntOn
  <2> HIDE DEF U
  <2> QED BY <2>3, <2>5, <2>6, <2>7
<1> QED BY <1>1 DEF SumFunction

LEMMA DiscountLeaves ==
  ASSUME NEW cents \in Nat, NEW percent \in 0..100
  PROVE  cents - (cents * percent) \div 100 >= 0
<1>1. cents * percent \in Nat /\ cents * percent <= cents * 100
  <2>1. percent \in Nat /\ 100 - percent \in Nat
    OBVIOUS
  <2>2. cents * (100 - percent) >= 0 /\ cents * percent >= 0
    BY <2>1
  <2>3. cents * (100 - percent) = cents * 100 - cents * percent
    BY <2>1
  <2> QED BY <2>1, <2>2, <2>3
<1> DEFINE c == cents * percent
<1> HIDE DEF c
<1>2. c \in Nat /\ c <= cents * 100
  BY <1>1 DEF c
<1>3. c \div 100 <= cents
  BY <1>2
<1> QED BY <1>2, <1>3 DEF c

\* INSTANCE gives the shop sums of its own, and policies of its own.
LEMMA SameSums ==
  ASSUME NEW f
  PROVE  TheShop!SumFunction(f) = SumFunction(f)
BY DEF SumFunction, TheShop!SumFunction, SumFunctionOnSet, TheShop!SumFunctionOnSet,
       FoldFunctionOnSet, TheShop!FoldFunctionOnSet, MapThenFoldSet,
       TheShop!MapThenFoldSet

LEMMA SamePolicies ==
  ASSUME NEW a, NEW x
  PROVE  /\ TheShop!can_place_order(a, x) <=> can_place_order(a, x)
         /\ TheShop!can_grant_credits(a) <=> can_grant_credits(a)
         /\ TheShop!can_write_store_catalog(a, x) <=> can_write_store_catalog(a, x)
         /\ TheShop!can_read_order(a, x) <=> can_read_order(a, x)
         /\ TheShop!can_manage_coupons(a, x) <=> can_manage_coupons(a, x)
BY DEF can_place_order, TheShop!can_place_order,
       can_grant_credits, TheShop!can_grant_credits,
       can_write_store_catalog, TheShop!can_write_store_catalog,
       can_read_order, TheShop!can_read_order, IsGlobal, TheShop!IsGlobal,
       can_manage_coupons, TheShop!can_manage_coupons

\* The cart of a checkout that is about to commit, line by line.
LEMMA CartAtCommit ==
  ASSUME CartsAreSets, SerialInv, NEW r \in InFlight, Turn(r),
         job[r].op = "place", pc[r] = "commit"
  PROVE  /\ order[r] = NewOrder(r)
         /\ DOMAIN mem[r].copies = DOMAIN job[r].lines
         /\ DOMAIN job[r].lines = 1..Len(job[r].lines)
         /\ Len(mem[r].copies) = Len(job[r].lines) /\ Len(job[r].lines) \in Nat \ {0}
         /\ \A i, n \in DOMAIN job[r].lines :
              job[r].lines[i].product = job[r].lines[n].product => i = n
         /\ \A i \in DOMAIN job[r].lines :
              LET line == job[r].lines[i]
              IN  /\ line.product \in Product \cap Key
                  /\ line.quantity \in Nat /\ line.quantity > 0
                  /\ row[line.product] \in ProductRow
                  /\ mem[r].copies[i] = row[line.product]
                  /\ StoreOf[line.product] = job[r].store
                  /\ row[line.product].active
                  /\ row[line.product].stock >= line.quantity
<1>1. /\ r \in Request /\ job[r] \in Jobs /\ job[r] \in PlaceJob
      /\ mem[r] \in Memory
  BY InFlightFacts DEF SerialInv
<1>2. job[r] \in Checkouts
  BY <1>1, CheckoutAssumption DEF Jobs, GrantJob, PatchJob, ApplyJob, CreateJob
<1>3. order[r] # NoRow
  BY DEF Turn, PlaceTurn
<1>4. order[r] = NewOrder(r) /\ Len(mem[r].copies) = Len(job[r].lines)
  BY <1>1, <1>3 DEF SerialInv, OrdersInv, OrderedFrom
<1>5. /\ job[r].lines \in Seq(Line) /\ mem[r].copies \in Seq(ProductRow)
      /\ job[r].lines # <<>>
  BY <1>1 DEF PlaceJob, Memory, Turn, Admitted, PlaceAdmitted
<1>6. /\ DOMAIN mem[r].copies = DOMAIN job[r].lines
      /\ DOMAIN job[r].lines = 1..Len(job[r].lines)
      /\ Len(job[r].lines) \in Nat \ {0}
  BY <1>4, <1>5
<1>7. \A i, n \in DOMAIN job[r].lines :
        job[r].lines[i].product = job[r].lines[n].product => i = n
  BY <1>2 DEF CartsAreSets
<1>8. ASSUME NEW i \in DOMAIN job[r].lines
      PROVE  LET line == job[r].lines[i]
             IN  /\ line.product \in Product \cap Key
                 /\ line.quantity \in Nat /\ line.quantity > 0
                 /\ row[line.product] \in ProductRow
                 /\ mem[r].copies[i] = row[line.product]
                 /\ StoreOf[line.product] = job[r].store
                 /\ row[line.product].active
                 /\ row[line.product].stock >= line.quantity
  <2>1. /\ job[r].lines[i].product \in Product \cap Key
        /\ job[r].lines[i].quantity \in Int
    BY <1>6, <1>8, CopyFacts
  <2>2. job[r].lines[i].quantity > 0
    BY <1>6, <1>8, <2>1 DEF SerialInv, StockInv, LinesInv, LinesOK
  <2>3. LineStands(r, i)
    BY <1>6, <1>8 DEF Turn, PlaceTurn
  <2>4. row[job[r].lines[i].product] \in ProductRow
    BY <2>1 DEF SerialInv, IInv, TypeOK, RowOK
  <2> QED BY <2>1, <2>2, <2>3, <2>4 DEF LineStands
<1> QED BY <1>4, <1>6, <1>7, <1>8

\* What the shop computes of that cart.
LEMMA DemandAtCommit ==
  ASSUME CartsAreSets, SerialInv, NEW r \in InFlight, Turn(r),
         job[r].op = "place", pc[r] = "commit"
  PROVE  /\ TheShop!InCart(job[r]) =
              {job[r].lines[i].product : i \in DOMAIN job[r].lines}
         /\ \A i \in DOMAIN job[r].lines :
              TheShop!Demand(job[r], job[r].lines[i].product) = job[r].lines[i].quantity
<1>1. TheShop!InCart(job[r]) = {job[r].lines[i].product : i \in DOMAIN job[r].lines}
  BY CartAtCommit DEF TheShop!InCart, TheShop!LinesFor
<1>2. ASSUME NEW i \in DOMAIN job[r].lines
      PROVE  TheShop!Demand(job[r], job[r].lines[i].product) = job[r].lines[i].quantity
  <2> DEFINE p == job[r].lines[i].product
             f == [k \in TheShop!LinesFor(job[r], p) |-> job[r].lines[k].quantity]
  <2>1. TheShop!LinesFor(job[r], p) = {i}
    BY CartAtCommit DEF TheShop!LinesFor
  <2>2. DOMAIN f = {i} /\ f[i] = job[r].lines[i].quantity /\ f[i] \in Int
    BY <2>1, CartAtCommit
  <2>3. TheShop!Demand(job[r], p) = TheShop!SumFunction(f)
    BY DEF TheShop!Demand
  <2> HIDE DEF f
  <2> QED BY <2>2, <2>3, SameSums, SumOfOne
<1> QED BY <1>1, <1>2

LEMMA PriceAtCommit ==
  ASSUME CartsAreSets, SerialInv, TurnInv, NEW r \in InFlight,
         job[r].op = "place", pc[r] = "commit"
  PROVE  TheShop!Price(job[r]) = mem[r].subtotal /\ mem[r].subtotal \in Nat
<1> DEFINE f == [i \in DOMAIN mem[r].copies |->
                  mem[r].copies[i].price * job[r].lines[i].quantity]
           g == [p \in TheShop!InCart(job[r]) |->
                  row[p].price * TheShop!Demand(job[r], p)]
           h == [i \in DOMAIN mem[r].copies |-> job[r].lines[i].product]
<1>1. Turn(r)
  BY DEF TurnInv
<1>2. mem[r].subtotal = SumFunction(f)
  BY DEF SerialInv, BillInv, CartSum
<1>3. DOMAIN f = DOMAIN mem[r].copies /\ IsFiniteSet(DOMAIN f)
  BY <1>1, CartAtCommit, FS_Interval
<1>4. \A i \in DOMAIN f : f[i] \in Nat
  <2> SUFFICES ASSUME NEW i \in DOMAIN mem[r].copies
               PROVE  f[i] \in Nat
    BY <1>3
  <2>1. /\ mem[r].copies[i].price = row[job[r].lines[i].product].price
        /\ row[job[r].lines[i].product] \in ProductRow
        /\ row[job[r].lines[i].product].price >= 0
        /\ job[r].lines[i].quantity \in Nat
    BY <1>1, CartAtCommit DEF TurnInv
  <2>2. mem[r].copies[i].price \in Nat
    BY <2>1 DEF ProductRow
  <2>3. f[i] = mem[r].copies[i].price * job[r].lines[i].quantity
    OBVIOUS
  <2> HIDE DEF f
  <2> QED BY <2>1, <2>2, <2>3
<1>5. \A x, y \in DOMAIN f : h[x] = h[y] => x = y
  <2>1. \A x, y \in DOMAIN job[r].lines :
          job[r].lines[x].product = job[r].lines[y].product => x = y
    BY <1>1, CartAtCommit
  <2>2. DOMAIN mem[r].copies = DOMAIN job[r].lines
    BY <1>1, CartAtCommit
  <2> QED BY <1>3, <2>1, <2>2
<1>6. DOMAIN g = {h[x] : x \in DOMAIN f}
  <2>1. /\ DOMAIN g = {job[r].lines[i].product : i \in DOMAIN job[r].lines}
        /\ DOMAIN mem[r].copies = DOMAIN job[r].lines
    BY <1>1, CartAtCommit, DemandAtCommit
  <2> QED BY <1>3, <2>1
<1>7. \A x \in DOMAIN f : g[h[x]] = f[x]
  <2> SUFFICES ASSUME NEW x \in DOMAIN mem[r].copies
               PROVE  g[h[x]] = f[x]
    BY <1>3
  <2>1. x \in DOMAIN job[r].lines
    BY <1>1, CartAtCommit
  <2>2. mem[r].copies[x] = row[job[r].lines[x].product]
    BY <1>1, <2>1, CartAtCommit
  <2>3. /\ TheShop!Demand(job[r], job[r].lines[x].product) = job[r].lines[x].quantity
        /\ job[r].lines[x].product \in TheShop!InCart(job[r])
    BY <1>1, <2>1, DemandAtCommit
  <2> QED BY <2>2, <2>3
<1>8. TheShop!Price(job[r]) = SumFunction(g)
  BY SameSums DEF TheShop!Price
<1> HIDE DEF f, g, h
<1>9. IntOn(f, DOMAIN f)
  BY <1>4 DEF IntOn
<1>10. SumFunction(g) = SumFunction(f)
  BY <1>3, <1>5, <1>6, <1>7, <1>9, SumRenamed
<1>11. SumFunction(f) \in Nat
  BY <1>3, <1>4, SumNatural
<1> QED BY <1>2, <1>8, <1>10, <1>11

LEMMA TotalAtCommit ==
  ASSUME CartsAreSets, SerialInv, TurnInv, NEW r \in InFlight,
         job[r].op = "place", pc[r] = "commit"
  PROVE  /\ TheShop!Total(job[r]) = Total(r)
         /\ job[r].coupon # NoRow <=> redemption[r] # NoRow
<1> DEFINE percent == mem[r].percent
           cents == mem[r].subtotal
<1>1. /\ r \in Request /\ mem[r] \in Memory /\ order[r] # NoRow
      /\ redemption[r] # NoRow <=> job[r].coupon # NoRow
  BY InFlightFacts DEF SerialInv, BillInv, TurnInv, Turn, PlaceTurn
<1>2. percent = IF job[r].coupon = NoRow THEN 0 ELSE row[job[r].coupon]
  BY <1>1 DEF SerialInv, BillInv, Found
<1>3. TheShop!Price(job[r]) = cents /\ cents \in Nat /\ percent \in 0..100
  BY <1>1, PriceAtCommit DEF Memory
<1>4. TheShop!Total(job[r]) = cents - (cents * percent) \div 100
  BY <1>2, <1>3 DEF TheShop!Total, TheShop!Discounted
<1>5. cents - (cents * percent) \div 100 >= 0
  BY <1>3, DiscountLeaves
<1>6. cents - (cents * percent) \div 100 \in Int
  <2>1. cents * percent \in Int
    BY <1>3
  <2> QED BY <1>3, <2>1
<1> DEFINE net == cents - (cents * percent) \div 100
<1>7. Total(r) = IF net > 0 THEN net ELSE 0
  BY DEF Total, Charge
<1>8. TheShop!Total(job[r]) = net /\ net >= 0 /\ net \in Int
  BY <1>4, <1>5, <1>6
<1> HIDE DEF net, cents, percent
<1> QED BY <1>1, <1>7, <1>8

\* The rows that a checkout publishes: its products, its customer's credit.
LEMMA RowsAtCommit ==
  ASSUME CartsAreSets, SerialInv, TurnInv, NEW r \in InFlight,
         job[r].op = "place", pc[r] = "commit", NEW k \in Key
  PROVE  Visible(r, k) =
           IF k \in TheShop!InCart(job[r])
           THEN [row[k] EXCEPT !.stock = @ - TheShop!Demand(job[r], k)]
           ELSE IF k = job[r].actor
           THEN TheShop!Balance(job[r].actor) - TheShop!Total(job[r])
           ELSE row[k]
<1>1. /\ r \in Request /\ Turn(r) /\ PlaceTurn(r) /\ met[r] = {}
      /\ Visible(r, k) = latest[k]
      /\ writer[k] # r => latest[k] = row[k]
  BY AloneFacts, InFlightFacts DEF TurnInv, Turn, SerialInv, Alone
<1>2. job[r] \in PlaceJob /\ job[r].actor \in User
  BY InFlightFacts DEF SerialInv, PlaceJob
<1>3. CASE k \in TheShop!InCart(job[r])
  <2>1. PICK i \in DOMAIN job[r].lines : k = job[r].lines[i].product
    BY <1>1, <1>3, DemandAtCommit
  <2>2. /\ TheShop!Demand(job[r], k) = job[r].lines[i].quantity
        /\ i \in DOMAIN mem[r].copies /\ k \in Product
        /\ Once(r, k) /\ Unmet(r, k) /\ Decremented(r, i)
    BY <1>1, <2>1, CartAtCommit, DemandAtCommit DEF Once, Asked, Unmet, Decremented
  <2>3. LineCopy(r, i, k)
    BY <2>1, <2>2 DEF SerialInv, StockInv, LinesInv, LinesOK
  <2>4. /\ latest[k].stock = row[k].stock - TheShop!Demand(job[r], k)
        /\ latest[k].price = row[k].price /\ latest[k].active = row[k].active
    BY <1>1, <2>2, <2>3 DEF LineCopy, PlaceTurn
  <2>5. latest[k] \in ProductRow /\ row[k] \in ProductRow
    BY <2>2 DEF SerialInv, IInv, TypeOK, RowOK
  <2>6. latest[k] = [row[k] EXCEPT !.stock = @ - TheShop!Demand(job[r], k)]
    BY <2>4, <2>5 DEF ProductRow
  <2> QED BY <1>1, <1>3, <2>6
<1>4. CASE k \notin TheShop!InCart(job[r]) /\ k = job[r].actor
  <2>1. CarriesCredit(r) /\ Owner(r) = k
    BY <1>1, <1>4 DEF CarriesCredit, PlaceTurn, Owner
  <2>2. CreditCopy(r)
    BY <1>1, <2>1 DEF SerialInv, CreditInv, CreditCopies
  <2>3. latest[k] = mem[r].balance
    BY <1>1, <1>2, <1>4, <2>1, <2>2 DEF SerialInv, CreditInv, CreditHeld, CreditCopy
  <2>4. mem[r].balance = Balance(row[k]) - Total(r)
    <3>1. Balance(row[k]) \in Int /\ Total(r) \in Int
      BY <1>2, <1>4, DeltaType DEF SerialInv, IInv, TypeOK, RowOK, Balance, CreditRow
    <3>2. mem[r].balance = Balance(row[k]) + (-Total(r))
      BY <2>1, <2>2 DEF CreditCopy, Delta
    <3> QED BY <3>1, <3>2
  <2>5. Balance(row[k]) = TheShop!Balance(k)
    BY DEF Balance, TheShop!Balance
  <2> QED BY <1>1, <1>4, <2>3, <2>4, <2>5, TotalAtCommit
<1>5. CASE k \notin TheShop!InCart(job[r]) /\ k # job[r].actor
  <2>1. writer[k] # r
    <3>1. CASE k \in Product
      <4>1. Asked(r, k) = {}
        BY <1>1, <1>5, DemandAtCommit DEF Asked
      <4> QED BY <1>1, <3>1, <4>1 DEF SerialInv, StockInv, StockHeld, Touches
    <3>2. CASE k \in User
      BY <1>1, <1>5, <3>2 DEF SerialInv, CreditInv, CreditHeld, Owner
    <3>3. CASE k \in Coupon
      BY <1>1, <3>3 DEF SerialInv, CouponsStay
    <3> QED BY <3>1, <3>2, <3>3, CheckoutAssumption
  <2> QED BY <1>1, <1>5, <2>1
<1> QED BY <1>3, <1>4, <1>5

-----------------------------------------------------------------------------
(***************************************************************************)
(* A commit is a step of the shop.                                         *)
(***************************************************************************)

\* What a commit lets the shop see.
LEMMA CommitMaps ==
  ASSUME SerialInv, NEW r \in InFlight, Commit(r)
  PROVE  /\ r \in Request /\ pc[r] = "commit"
         /\ row' = [k \in Key |-> Visible(r, k)]
         /\ r \notin {q \in Request : Committed(q)}
         /\ {q \in Request : Committed(q)}' = {q \in Request : Committed(q)} \cup {r}
         /\ IfCommitted(order)' = [IfCommitted(order) EXCEPT ![r] = order[r]]
         /\ IfCommitted(redemption)' =
              [IfCommitted(redemption) EXCEPT ![r] = redemption[r]]
         /\ order[r] = NoRow => IfCommitted(order)' = IfCommitted(order)
         /\ redemption[r] = NoRow => IfCommitted(redemption)' = IfCommitted(redemption)
<1>1. /\ r \in Request /\ pc[r] = "commit" /\ pc' = [pc EXCEPT ![r] = "committed"]
      /\ order' = order /\ redemption' = redemption /\ pc \in [Request -> Phase]
      /\ row' = [k \in Key |-> Visible(r, k)]
  BY AloneFacts DEF Commit, Goto, Publish, SerialInv, IInv, TypeOK
<1>2. /\ ~Committed(r) /\ Committed(r)'
      /\ \A q \in Request \ {r} : Committed(q)' <=> Committed(q)
  BY <1>1 DEF Committed
<1>3. IfCommitted(order)' = [IfCommitted(order) EXCEPT ![r] = order[r]]
  BY <1>1, <1>2 DEF IfCommitted
<1>4. IfCommitted(redemption)' = [IfCommitted(redemption) EXCEPT ![r] = redemption[r]]
  BY <1>1, <1>2 DEF IfCommitted
<1>5. order[r] = NoRow => IfCommitted(order)' = IfCommitted(order)
  BY <1>1, <1>2 DEF IfCommitted
<1>6. redemption[r] = NoRow => IfCommitted(redemption)' = IfCommitted(redemption)
  BY <1>1, <1>2 DEF IfCommitted
<1> QED BY <1>1, <1>2, <1>3, <1>4, <1>5, <1>6

\* Only checkouts order, only they and applications redeem.
LEMMA Inserts ==
  ASSUME SerialInv, NEW r \in InFlight
  PROVE  /\ job[r].op # "place" => order[r] = NoRow
         /\ job[r].op \notin {"place", "apply"} => redemption[r] = NoRow
<1>1. r \in Request
  BY AloneFacts
<1> QED BY <1>1 DEF SerialInv, RedeemersInv, Redeemer, Ordered, Redeems

\* A coupon that r found, and that nobody has redeemed.
LEMMA CouponAtCommit ==
  ASSUME SerialInv, NEW r \in InFlight, redemption[r] # NoRow
  PROVE  TheShop!Redeemable(job[r].coupon, RequestStore(r))
<1>1. r \in Request /\ met[r] = {} /\ Redeems(r) /\ Found(r) /\ Genuine(r)
  BY AloneFacts DEF SerialInv, Alone, RedeemersInv, Redeemer, Redeems, Found
<1>2. ASSUME NEW q \in Request, Committed(q), redemption[q] # NoRow
      PROVE  redemption[q].coupon # job[r].coupon
  <2>1. q # r
    BY <1>2 DEF Committed, InFlight, Final
  <2> QED BY <1>1, <1>2, <2>1 DEF SerialInv, LedgerInv, Checked, Redeemed
<1>3. \A q \in Request :
        IfCommitted(redemption)[q] # NoRow =>
          IfCommitted(redemption)[q].coupon # job[r].coupon
  BY <1>2 DEF IfCommitted
<1> QED BY <1>1, <1>3 DEF TheShop!Redeemable, Genuine

LEMMA BuyAtCommit ==
  ASSUME CartsAreSets, SerialInv, TurnInv, NEW r \in InFlight, Commit(r),
         job[r].op = "place"
  PROVE  TheShop!Buy(r, job[r])
<1> DEFINE j == job[r]
<1>1. /\ r \in Request /\ Turn(r) /\ PlaceTurn(r) /\ pc[r] = "commit"
      /\ order[r] # NoRow
  BY CommitMaps DEF TurnInv, Turn, PlaceTurn
<1>2. TheShop!Serve(r)
  BY CommitMaps DEF TheShop!Serve
<1>3. TheShop!can_place_order(Account[j.actor], j.store)
  BY <1>1, SamePolicies DEF Turn, Admitted, PlaceAdmitted
<1>4. TheShop!InCart(j) # {} /\ \A i \in DOMAIN j.lines : j.lines[i].quantity > 0
  <2>1. TheShop!InCart(j) = {j.lines[i].product : i \in DOMAIN j.lines}
    BY <1>1, DemandAtCommit
  <2>2. 1 \in DOMAIN j.lines
    BY <1>1, CartAtCommit
  <2> QED BY <1>1, <2>1, <2>2, CartAtCommit
<1>5. ASSUME NEW p \in TheShop!InCart(j)
      PROVE  StoreOf[p] = j.store /\ row[p].active /\ row[p].stock >= TheShop!Demand(j, p)
  <2>1. PICK i \in DOMAIN j.lines : p = j.lines[i].product
    BY <1>1, <1>5, DemandAtCommit
  <2>2. TheShop!Demand(j, p) = j.lines[i].quantity
    BY <1>1, <2>1, DemandAtCommit
  <2> QED BY <1>1, <2>1, <2>2, CartAtCommit
<1>6. j.coupon # NoRow => TheShop!Redeemable(j.coupon, j.store)
  BY <1>1, CouponAtCommit, TotalAtCommit DEF RequestStore
<1>7. TheShop!Balance(j.actor) >= TheShop!Total(j)
  <2>1. CarriesCredit(r) /\ Owner(r) = j.actor /\ met[r] = {}
    BY <1>1 DEF CarriesCredit, Owner, SerialInv, Alone
  <2>2. mem[r].balance = Balance(row[j.actor]) + (-Total(r))
    BY <1>1, <2>1 DEF SerialInv, CreditInv, CreditCopies, CreditCopy, Delta
  <2>3. j.actor \in User \cap Key /\ Total(r) \in Int
    BY <2>1, DeltaType DEF SerialInv
  <2>4. Balance(row[j.actor]) \in Int
    BY <2>3 DEF SerialInv, IInv, TypeOK, RowOK, Balance, CreditRow
  <2>5. mem[r].balance >= 0
    BY <1>1 DEF PlaceTurn
  <2>6. Balance(row[j.actor]) >= Total(r)
    BY <2>2, <2>3, <2>4, <2>5
  <2>7. TheShop!Balance(j.actor) = Balance(row[j.actor])
    BY DEF Balance, TheShop!Balance
  <2> QED BY <1>1, <2>6, <2>7, TotalAtCommit
<1>8. row' = [k \in Key |->
       IF k \in TheShop!InCart(j)
       THEN [row[k] EXCEPT !.stock = @ - TheShop!Demand(j, k)]
       ELSE IF k = j.actor THEN TheShop!Balance(j.actor) - TheShop!Total(j)
       ELSE row[k]]
  <2>1. row' = [k \in Key |-> Visible(r, k)]
    BY CommitMaps
  <2> QED BY <1>1, <2>1, RowsAtCommit
<1>9. IfCommitted(order)' = [IfCommitted(order) EXCEPT ![r] =
       [store |-> j.store, customer |-> j.actor, total |-> TheShop!Total(j),
        lines |-> [i \in DOMAIN j.lines |->
                    [product |-> j.lines[i].product,
                     quantity |-> j.lines[i].quantity,
                     unit_price |-> row[j.lines[i].product].price]]]]
  <2>1. IfCommitted(order)' = [IfCommitted(order) EXCEPT ![r] = order[r]]
    BY CommitMaps
  <2>2. TheShop!Total(j) = Total(r)
    BY <1>1, TotalAtCommit
  <2>3. /\ order[r] = NewOrder(r) /\ 1..Len(mem[r].copies) = DOMAIN j.lines
        /\ \A i \in DOMAIN j.lines : mem[r].copies[i] = row[j.lines[i].product]
    BY <1>1, CartAtCommit
  <2> QED BY <2>1, <2>2, <2>3 DEF NewOrder
<1>10. IfCommitted(redemption)' = [IfCommitted(redemption) EXCEPT ![r] =
         IF j.coupon = NoRow THEN NoRow ELSE [coupon |-> j.coupon, order |-> r]]
  <2>1. IfCommitted(redemption)' = [IfCommitted(redemption) EXCEPT ![r] = redemption[r]]
    BY CommitMaps
  <2>2. j.coupon = NoRow => redemption[r] = NoRow
    BY <1>1, TotalAtCommit
  <2>3. ASSUME j.coupon # NoRow
        PROVE  redemption[r] = [coupon |-> j.coupon, order |-> r]
    <3>1. redemption[r] # NoRow
      BY <1>1, <2>3, TotalAtCommit
    <3>2. redemption[r] \in RedemptionRow
      BY <1>1, <3>1 DEF SerialInv, IInv, TypeOK
    <3>3. redemption[r].coupon = j.coupon /\ redemption[r].order = r
      BY <1>1, <3>1 DEF SerialInv, RedeemersInv, Redeemer, Redeems
    <3> QED BY <3>2, <3>3 DEF RedemptionRow
  <2> QED BY <2>1, <2>2, <2>3
<1> QED BY <1>2, <1>3, <1>4, <1>5, <1>6, <1>7, <1>8, <1>9, <1>10 DEF TheShop!Buy

LEMMA GrantAtCommit ==
  ASSUME SerialInv, TurnInv, NEW r \in InFlight, Commit(r), job[r].op = "grant"
  PROVE  TheShop!Grant(r, job[r])
<1> DEFINE j == job[r]
<1>1. /\ r \in Request /\ Turn(r) /\ pc[r] = "commit" /\ met[r] = {}
      /\ j \in GrantJob /\ j.user \in User \cap Key
  BY CommitMaps, InFlightFacts, CheckoutAssumption
     DEF TurnInv, SerialInv, Alone, GrantJob
<1>2. TheShop!Serve(r)
  BY CommitMaps DEF TheShop!Serve
<1>3. /\ TheShop!can_grant_credits(Account[j.actor])
      /\ Account[j.actor].role = "customer" => j.actor = j.user
  BY <1>1, SamePolicies DEF Turn, Admitted, GrantAdmitted
<1>4. CarriesCredit(r) /\ Owner(r) = j.user
  BY <1>1 DEF CarriesCredit, Owner
<1>5. CreditCopy(r)
  BY <1>1, <1>4 DEF SerialInv, CreditInv, CreditCopies
<1>6. Visible(r, j.user) = mem[r].balance
  BY <1>1, <1>4, <1>5, AloneFacts
     DEF SerialInv, CreditInv, CreditHeld, CreditCopy, Visible
<1>7. mem[r].balance = TheShop!Balance(j.user) + j.amount
  BY <1>4, <1>5 DEF CreditCopy, Delta, Balance, TheShop!Balance
<1>8. ASSUME NEW k \in Key, k # j.user
      PROVE  Visible(r, k) = row[k]
  <2>1. writer[k] # r
    BY <1>1, <1>4, <1>8, CheckoutAssumption
       DEF SerialInv, StockInv, StockHeld, Touches, CreditInv, CreditHeld, CouponsStay
  <2> QED BY <2>1 DEF Visible
<1>9. row' = [row EXCEPT ![j.user] = TheShop!Balance(j.user) + j.amount]
  <2>1. row' = [k \in Key |-> Visible(r, k)] /\ row = [k \in Key |-> row[k]]
    BY CommitMaps DEF SerialInv, IInv, TypeOK, IsTable
  <2>2. \A k \in Key : Visible(r, k) = IF k = j.user THEN TheShop!Balance(j.user) + j.amount
                                       ELSE row[k]
    BY <1>6, <1>7, <1>8
  <2> QED BY <1>1, <2>1, <2>2
<1>10. /\ IfCommitted(order)' = IfCommitted(order)
       /\ IfCommitted(redemption)' = IfCommitted(redemption)
  BY CommitMaps, Inserts
<1> QED BY <1>2, <1>3, <1>9, <1>10 DEF TheShop!Grant

LEMMA EditAtCommit ==
  ASSUME SerialInv, TurnInv, NEW r \in InFlight, Commit(r), job[r].op = "patch"
  PROVE  TheShop!Edit(r, job[r])
<1> DEFINE j == job[r]
           p == job[r].product
<1>1. /\ r \in Request /\ Turn(r) /\ pc[r] = "commit"
      /\ p \in Product \cap Key
  BY CommitMaps, PatchFacts DEF TurnInv
<1>2. TheShop!Serve(r)
  BY CommitMaps DEF TheShop!Serve
<1>3. TheShop!can_write_store_catalog(Account[j.actor], StoreOf[p])
  BY <1>1, SamePolicies DEF Turn, Admitted, PatchAdmitted
<1>4. Visible(r, p) = AsPatched(r)
  BY <1>1, AloneFacts DEF Turn, PatchTurn
<1>5. ASSUME NEW k \in Key, k # p
      PROVE  Visible(r, k) = row[k]
  <2>1. writer[k] # r
    BY <1>1, <1>5, CheckoutAssumption
       DEF SerialInv, StockInv, StockHeld, Touches, CreditInv, CreditHeld,
           CarriesCredit, CouponsStay
  <2> QED BY <2>1 DEF Visible
<1>6. row' = [row EXCEPT ![p] =
       [stock |-> IF j.stock = NoRow THEN @.stock ELSE j.stock,
        price |-> IF j.price = NoRow THEN @.price ELSE j.price,
        active |-> IF j.active = NoRow THEN @.active ELSE j.active]]
  <2>1. row' = [k \in Key |-> Visible(r, k)] /\ row = [k \in Key |-> row[k]]
    BY CommitMaps DEF SerialInv, IInv, TypeOK, IsTable
  <2>2. \A k \in Key : Visible(r, k) = IF k = p THEN AsPatched(r) ELSE row[k]
    BY <1>4, <1>5
  <2>3. row' = [row EXCEPT ![p] = AsPatched(r)]
    BY <1>1, <2>1, <2>2
  <2> QED BY <2>3 DEF AsPatched, Patched
<1>7. /\ IfCommitted(order)' = IfCommitted(order)
      /\ IfCommitted(redemption)' = IfCommitted(redemption)
  BY CommitMaps, Inserts
<1> QED BY <1>2, <1>3, <1>6, <1>7 DEF TheShop!Edit

LEMMA RedeemAtCommit ==
  ASSUME SerialInv, TurnInv, NEW r \in InFlight, Commit(r), job[r].op = "apply"
  PROVE  TheShop!Redeem(r, job[r])
<1> DEFINE j == job[r]
<1>1. /\ r \in Request /\ Turn(r) /\ pc[r] = "commit" /\ redemption[r] # NoRow
      /\ OrderReadable(r) /\ j.order \in Request
  BY CommitMaps, InFlightFacts DEF TurnInv, Turn, ApplyTurn, SerialInv, ApplyJob
<1>2. TheShop!Serve(r)
  BY CommitMaps DEF TheShop!Serve
<1>3. /\ IfCommitted(order)[j.order] = order[j.order]
      /\ order[j.order] # NoRow
      /\ TheShop!can_read_order(Account[j.actor], order[j.order])
  BY <1>1, SamePolicies DEF OrderReadable, OrderVisible, IfCommitted
<1>4. TheShop!Redeemable(j.coupon, order[j.order].store)
  BY <1>1, CouponAtCommit DEF RequestStore
<1>5. IfCommitted(redemption)' = [IfCommitted(redemption) EXCEPT ![r] =
        [coupon |-> j.coupon, order |-> j.order]]
  <2>1. IfCommitted(redemption)' = [IfCommitted(redemption) EXCEPT ![r] = redemption[r]]
    BY CommitMaps
  <2>2. redemption[r] \in RedemptionRow
    BY <1>1 DEF SerialInv, IInv, TypeOK
  <2>3. redemption[r].coupon = j.coupon /\ redemption[r].order = j.order
    BY <1>1 DEF SerialInv, RedeemersInv, Redeemer, Redeems
  <2>4. redemption[r] = [coupon |-> j.coupon, order |-> j.order]
    BY <2>2, <2>3 DEF RedemptionRow
  <2> QED BY <2>1, <2>4
<1>6. row' = row
  <2>1. \A k \in Key : Visible(r, k) = row[k]
    <3> SUFFICES ASSUME NEW k \in Key
                 PROVE  writer[k] # r
      BY DEF Visible
    <3> QED BY <1>1, CheckoutAssumption
            DEF SerialInv, StockInv, StockHeld, Touches, CreditInv, CreditHeld,
                CarriesCredit, CouponsStay
  <2> QED BY <2>1, CommitMaps DEF SerialInv, IInv, TypeOK, IsTable
<1>7. IfCommitted(order)' = IfCommitted(order)
  BY CommitMaps, Inserts
<1> QED BY <1>2, <1>3, <1>4, <1>5, <1>6, <1>7 DEF TheShop!Redeem

LEMMA IssueAtCommit ==
  ASSUME SerialInv, TurnInv, NEW r \in InFlight, Commit(r), job[r].op = "create"
  PROVE  TheShop!Issue(r, job[r])
<1> DEFINE j == job[r]
           c == job[r].coupon
<1>1. /\ r \in Request /\ Turn(r) /\ pc[r] = "commit" /\ c \in Coupon \cap Key
      /\ writer[c] = r /\ latest[c] = j.percent
  BY CommitMaps, InFlightFacts, CheckoutAssumption
     DEF TurnInv, Turn, CreateTurn, SerialInv, CreateJob
<1>2. TheShop!Serve(r)
  BY CommitMaps DEF TheShop!Serve
<1>3. TheShop!can_manage_coupons(Account[j.actor], StoreOf[c])
  BY <1>1, SamePolicies DEF Turn, Admitted, CreateAdmitted
<1>4. row[c] = NoRow
  BY <1>1 DEF SerialInv, CouponsFixed
<1>5. ASSUME NEW k \in Key, k # c
      PROVE  Visible(r, k) = row[k]
  <2>1. writer[k] # r
    BY <1>1, <1>5, CheckoutAssumption
       DEF SerialInv, StockInv, StockHeld, Touches, CreditInv, CreditHeld,
           CarriesCredit, Turn, CreateTurn
  <2> QED BY <2>1 DEF Visible
<1>6. row' = [row EXCEPT ![c] = j.percent]
  <2>1. row' = [k \in Key |-> Visible(r, k)] /\ row = [k \in Key |-> row[k]]
    BY CommitMaps DEF SerialInv, IInv, TypeOK, IsTable
  <2>2. \A k \in Key : Visible(r, k) = IF k = c THEN j.percent ELSE row[k]
    BY <1>1, <1>5 DEF Visible
  <2> QED BY <1>1, <2>1, <2>2
<1>7. /\ IfCommitted(order)' = IfCommitted(order)
      /\ IfCommitted(redemption)' = IfCommitted(redemption)
  BY CommitMaps, Inserts
<1> QED BY <1>2, <1>3, <1>4, <1>6, <1>7 DEF TheShop!Issue

LEMMA CommitServes ==
  ASSUME CartsAreSets, SerialInv, TurnInv, NEW r \in InFlight, Commit(r)
  PROVE  TheShop!Next
<1>1. /\ r \in Request /\ job[r] \in Jobs
      /\ job[r].op \in {"place", "grant", "patch", "apply", "create"}
  BY InFlightFacts DEF SerialInv
<1> QED BY <1>1, BuyAtCommit, GrantAtCommit, EditAtCommit, RedeemAtCommit, IssueAtCommit
        DEF TheShop!Next

-----------------------------------------------------------------------------
(***************************************************************************)
(* Every other step leaves the shop as it is.                              *)
(***************************************************************************)
LEMMA NothingServed ==
  ASSUME IInv, NEW r \in Request,
         \/ Begin(r)
         \/ /\ r \in InFlight
            /\ \/ PrivateStep(r) \/ UpdateStock(r) \/ SaveCredit(r) \/ InsertCoupon(r)
               \/ Rollback(r)
  PROVE  UNCHANGED TheShop!shopvars
<1>1. /\ row' = row
      /\ \A q \in Request : Committed(q)' <=> Committed(q)
      /\ \A q \in Request : Committed(q) => order'[q] = order[q]
  BY CommittedStay
<1>2. \A q \in Request : Committed(q) => redemption'[q] = redemption[q]
  <2>1. CASE Begin(r)
    BY <2>1 DEF Begin
  <2>2. CASE r \in InFlight /\ ~Begin(r)
    <3>1. ~Committed(r)
      BY <2>2 DEF Committed, InFlight, Final
    <3> QED BY <2>2, <3>1, OthersKeepMemory
  <2> QED BY <2>1, <2>2
<1>3. /\ IfCommitted(order)' = IfCommitted(order)
      /\ IfCommitted(redemption)' = IfCommitted(redemption)
  BY <1>1, <1>2 DEF IfCommitted
<1>4. {q \in Request : Committed(q)}' = {q \in Request : Committed(q)}
  BY <1>1
<1> QED BY <1>1, <1>3, <1>4 DEF TheShop!shopvars

LEMMA ShopStep ==
  ASSUME CartsAreSets, SerialInv, TurnInv, [Next]_vars
  PROVE  [TheShop!Next]_(TheShop!shopvars)
<1>1. CASE UNCHANGED vars
  BY <1>1 DEF vars, TheShop!shopvars, IfCommitted, Committed
<1>2. ASSUME NEW r \in Request,
             \/ Begin(r)
             \/ r \in InFlight /\ (\/ PrivateStep(r) \/ UpdateStock(r)
                                   \/ SaveCredit(r) \/ InsertCoupon(r)
                                   \/ Commit(r) \/ Rollback(r))
      PROVE  [TheShop!Next]_(TheShop!shopvars)
  <2>1. CASE r \in InFlight /\ Commit(r)
    BY <2>1, CommitServes
  <2>2. CASE ~(r \in InFlight /\ Commit(r))
    BY <1>2, <2>2, NothingServed DEF SerialInv
  <2> QED BY <2>1, <2>2
<1> QED BY <1>1, <1>2, StepCases DEF SerialInv

LEMMA SerialInit ==
  ASSUME PricesGiven, Init
  PROVE  SerialInv /\ TurnInv
<1>1. /\ NoStrayVersions /\ MetInv /\ LedgerInv /\ CouponsStay /\ RedeemersInv
  <2>1. NoStrayVersions /\ MetInv /\ LedgerInv
    BY DEF Init, DatabaseInit, NoStrayVersions, MetInv, LedgerInv, Checked, Redeemed,
           Committed, InFlight, Final
  <2>2. CouponsStay
    BY NobodyAssumption, CheckoutAssumption DEF Init, DatabaseInit, CouponsStay
  <2>3. RedeemersInv
    BY DEF Init, RedeemersInv, Redeemer, Found
  <2> QED BY <2>1, <2>2, <2>3
<1>2. CreditInv
  BY CreditInit
<1>3. TurnInv
  BY DEF Init, DatabaseInit, TurnInv, InFlight, PricesGiven
<1> QED BY <1>1, <1>2, <1>3, InitInv, AloneInit, OrdersInit, BillInit, StockInit
        DEF SerialInv

LEMMA SerialStep ==
  ASSUME MaxInFlight = 1, SerialInv, [Next]_vars
  PROVE  SerialInv'
<1>1. IInv' /\ NoStrayVersions' /\ MetInv' /\ LedgerInv' /\ Alone'
  BY NextInv, NoStrayVersionsStep, MetStep, LedgerStep, AloneStep DEF SerialInv
<1>2. CouponsStay' /\ RedeemersInv' /\ OrdersInv' /\ CouponsFixed'
  BY CouponsStayStep, RedeemersStep, OrdersStep, CouponsFixedStep DEF SerialInv
<1>3. BillInv' /\ StockInv'
  BY BillStep, StockStep DEF SerialInv
<1>4. CreditInv'
  BY CreditHeldStep, CreditCopiesStep, CreditAddsUpStep DEF SerialInv, CreditInv
<1> QED BY <1>1, <1>2, <1>3, <1>4 DEF SerialInv

\* With one connection to the database, carts that list no product twice and
\* prices that are not negative, each request of checkout.py and products.py
\* takes effect at one instant, its commit, and as the shop promises: stock,
\* credit, orders and redemptions change together, or not at all.
THEOREM ServedInTurn ==
  ASSUME MaxInFlight = 1, CartsAreSets, PricesGiven
  PROVE  Spec => ImplementsShop
<1>1. Init => TheShop!Init
  BY DEF Init, DatabaseInit, TheShop!Init, IfCommitted, Committed
<1>2. Init => SerialInv /\ TurnInv
  BY SerialInit
<1>3. SerialInv /\ TurnInv /\ [Next]_vars => SerialInv' /\ TurnInv'
  BY SerialStep, TurnStep
<1>4. SerialInv /\ TurnInv /\ [Next]_vars => [TheShop!Next]_(TheShop!shopvars)
  BY ShopStep
<1> QED BY <1>1, <1>2, <1>3, <1>4, PTL DEF Spec, ImplementsShop, TheShop!Spec

=============================================================================
