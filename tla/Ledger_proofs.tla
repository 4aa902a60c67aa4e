---------------------------- MODULE Ledger_proofs ----------------------------
(***************************************************************************)
(* The accounts for any number of developers, leases, tasks and concurrent *)
(* sessions.                                                               *)
(*   Types (TypeOK), and no balance above what was credited                *)
(*   (BalancesAreEarned).  Both rest on what a session remembers: a        *)
(*   balance it loaded, or an update it has yet to commit, is never above  *)
(*   the credits of the row it will be written over.                       *)
(*   Exact balances of uncontested accounts (UncontestedBalance): of such  *)
(*   an account one session at most has an update, made from the balance   *)
(*   that is in the row now.                                               *)
(*   Settlements booked wholly and once (SettledIsBooked): a session works *)
(*   through the accounts of a posting in their order, so what it commits  *)
(*   is all of them or, when it raises, stops at an account found twice.   *)
(***************************************************************************)
EXTENDS Ledger, SequenceTheorems, TLAPS

SessionRow ==
    [stage : {"idle", "busy"}, ref : References \cup {NoReference},
     todo : Seq(Work), done : Seq(Item), loaded : [Accounts -> Nat \cup {NotLoaded}]]

SomeRows == [Accounts -> Seq(Row)]

\* What an update adds to the credits of its row.
Gain(item) == IF item.delta > 0 THEN item.delta ELSE 0

\* An update may be written over the rows r: what it leaves is covered by credits.
Covered(r, item) ==
    IF item.fresh THEN item.after = item.delta
    ELSE /\ Len(r[item.account]) >= 1
         /\ item.after <= r[item.account][1].credited + Gain(item)

\* A remembered balance is covered by the credits of the only row of its account.
Recalled(r, loaded) ==
    \A a \in Accounts : loaded[a] # NotLoaded =>
        /\ Len(r[a]) >= 1
        /\ Len(r[a]) = 1 => loaded[a] <= r[a][1].credited

Trusted(r, x) == (\A i \in DOMAIN x.done : Covered(r, x.done[i])) /\ Recalled(r, x.loaded)

RowsHold ==
    /\ rows \in SomeRows
    /\ \A a \in Accounts : \A i \in DOMAIN rows[a] : TrailMatches(rows[a][i])

SessionsHold ==
    /\ session \in [Sessions -> SessionRow]
    /\ \A s \in Sessions : Trusted(rows, session[s])

\* Each worker finalises a task nobody else finalises, which has attempts left.
WorkHolds ==
    /\ attempts \in [Tasks -> 0 .. MaxAttempts + 1]
    /\ \A w \in Workers :
         /\ session[w].stage = "busy" => session[w].ref \in Tasks
         /\ session[w].ref \in Tasks =>
              /\ attempts[session[w].ref] < MaxAttempts
              /\ \A v \in Workers \ {w} : session[v].ref # session[w].ref
    /\ \A s \in Requests : session[s].ref \notin Tasks

CountsHold ==
    /\ lease \in [Leases -> {"NONE", "ESCROW_LOCKED", "SETTLED"}]
    /\ withdrawals \in Nat
    /\ credits \in [References -> [Accounts -> Nat]]
    /\ contested \subseteq Accounts \cup Leases

Inv == RowsHold /\ SessionsHold /\ WorkHolds /\ CountsHold

-----------------------------------------------------------------------------
(* Postings and updates. *)

LEMMA PostingIsTyped == ASSUME NEW r \in References PROVE Posting(r) \in Seq(Work)
  <1> DEFINE g == Gross[r]
  <1>1. g \in Nat /\ OwnerOf[r] \in Accounts /\ PoolOf(r) \in Accounts /\ "DAO_TREASURY" \in Accounts
    BY LedgerAssumption DEF Accounts, Pools, PoolOf
  <1>2. DevAmount(g) \in Int /\ PoolAmount(g) \in Int
    BY <1>1 DEF DevAmount, PoolAmount
  <1>3. g - DevAmount(g) - PoolAmount(g) \in Int
    BY <1>1, <1>2
  <1> HIDE DEF g
  <1>4. /\ [account |-> OwnerOf[r], delta |-> DevAmount(g)] \in Work
        /\ [account |-> PoolOf(r), delta |-> PoolAmount(g)] \in Work
        /\ [account |-> "DAO_TREASURY", delta |-> g - DevAmount(g) - PoolAmount(g)] \in Work
    BY <1>1, <1>2, <1>3 DEF Work
  <1>5. << [account |-> OwnerOf[r], delta |-> DevAmount(g)],
           [account |-> PoolOf(r), delta |-> PoolAmount(g)],
           [account |-> "DAO_TREASURY", delta |-> g - DevAmount(g) - PoolAmount(g)] >> \in Seq(Work)
    BY <1>4
  <1> QED
    BY <1>5 DEF Posting, g

\* The row an update leaves is a row, keeps the credits and its own trail.
LEMMA PostedRow ==
    ASSUME NEW row \in Row, NEW item \in Item,
           item.after <= row.credited + Gain(item)
    PROVE  /\ Posted(row, item) \in Row
           /\ TrailMatches(Posted(row, item))
           /\ Posted(row, item).credited >= row.credited
           /\ Posted(row, item).credited >= item.after
  BY DEF Row, Item, Posted, TrailMatches, Gain

\* Rows that were there stay, with at least the credits they had.
Grown(r, q) ==
    \A a \in Accounts :
        /\ Len(q[a]) >= Len(r[a])
        /\ Len(r[a]) >= 1 => q[a][1].credited >= r[a][1].credited

LEMMA TrustOutlastsGrowth ==
    ASSUME NEW r \in SomeRows, NEW q \in SomeRows, Grown(r, q),
           NEW x \in SessionRow, Trusted(r, x)
    PROVE  Trusted(q, x)
  <1>0. \A a \in Accounts : Len(r[a]) \in Nat /\ Len(q[a]) \in Nat
    BY LenProperties DEF SomeRows
  <1>c. \A a \in Accounts :
            /\ Len(r[a]) >= 1 => r[a][1].credited \in Nat
            /\ Len(q[a]) >= 1 => q[a][1].credited \in Nat
    <2> SUFFICES ASSUME NEW a \in Accounts, NEW z \in Seq(Row), Len(z) >= 1
                 PROVE  z[1].credited \in Nat
      BY DEF SomeRows
    <2>1. Len(z) \in Nat /\ 1 \in 1..Len(z)
      BY LenProperties
    <2>2. z[1] \in Row
      BY <2>1, ElementOfSeq
    <2> QED
      BY <2>2 DEF Row
  <1>1. ASSUME NEW i \in DOMAIN x.done PROVE Covered(q, x.done[i])
    <2>1. x.done[i] \in Item
      BY DEF SessionRow
    <2>2. Covered(r, x.done[i])
      BY DEF Trusted
    <2> DEFINE item == x.done[i]
               a == item.account
               gain == Gain(item)
    <2>3. a \in Accounts /\ gain \in Int /\ item.after \in Nat
      BY <2>1 DEF Item, Gain
    <2>4. CASE item.fresh
      BY <2>2, <2>4 DEF Covered
    <2>5. CASE ~item.fresh
      <3>1. Len(r[a]) >= 1 /\ item.after <= r[a][1].credited + gain
        BY <2>2, <2>5 DEF Covered
      <3> HIDE DEF gain, a
      <3>2. Len(q[a]) >= Len(r[a]) /\ (Len(r[a]) >= 1 => q[a][1].credited >= r[a][1].credited)
        BY <2>3 DEF Grown
      <3>3. Len(q[a]) >= 1 /\ q[a][1].credited >= r[a][1].credited
        BY <1>0, <2>3, <3>1, <3>2
      <3>4. r[a][1].credited \in Nat /\ q[a][1].credited \in Nat
        BY <1>c, <2>3, <3>1, <3>3
      <3>5. item.after <= q[a][1].credited + gain
        BY <2>3, <3>1, <3>3, <3>4, SMTT(30)
      <3> QED
        BY <2>5, <3>3, <3>5 DEF Covered, gain, a
    <2> QED
      BY <2>4, <2>5
  <1>2. Recalled(q, x.loaded)
    <2> SUFFICES ASSUME NEW a \in Accounts, x.loaded[a] # NotLoaded
                 PROVE  Len(q[a]) >= 1 /\ (Len(q[a]) = 1 => x.loaded[a] <= q[a][1].credited)
      BY DEF Recalled
    <2>1. x.loaded[a] \in Nat
      BY DEF SessionRow
    <2>2. Len(r[a]) >= 1 /\ (Len(r[a]) = 1 => x.loaded[a] <= r[a][1].credited)
      BY DEF Trusted, Recalled
    <2>3. Len(q[a]) >= Len(r[a]) /\ q[a][1].credited >= r[a][1].credited
      BY <2>2 DEF Grown
    <2> DEFINE was == Len(r[a])
               is == Len(q[a])
    <2>n. was \in Nat /\ is \in Nat
      BY <1>0
    <2>h. was >= 1 /\ is >= was
      BY <2>2, <2>3
    <2> HIDE DEF was, is
    <2>k. is >= 1 /\ (is = 1 => was = 1)
      BY <2>n, <2>h
    <2>4. Len(q[a]) >= 1
      BY <2>k DEF is
    <2>5. Len(q[a]) = 1 => Len(r[a]) = 1
      BY <2>k DEF is, was
    <2>6. r[a][1].credited \in Nat /\ q[a][1].credited \in Nat
      BY <1>c, <2>2, <2>4
    <2> QED
      BY <2>1, <2>2, <2>3, <2>4, <2>5, <2>6
  <1> QED
    BY <1>1, <1>2 DEF Trusted

\* What one session commits: typed rows that grew, and cover its own updates.
LEMMA FlushIsCovered ==
    ASSUME RowsHold, NEW x \in SessionRow, Trusted(rows, x), NEW a \in Accounts,
           NEW i \in DOMAIN x.done, x.done[i].account = a,
           NEW z, z = IF x.done[i].fresh THEN Append(rows[a], Posted(EmptyRow, x.done[i]))
                      ELSE [rows[a] EXCEPT ![1] = Posted(@, x.done[i])]
    PROVE  /\ z \in Seq(Row)
           /\ \A j \in DOMAIN z : TrailMatches(z[j])
           /\ Len(z) >= Len(rows[a])
           /\ Len(rows[a]) >= 1 => z[1].credited >= rows[a][1].credited
           /\ Len(z) >= 1 /\ (Len(z) = 1 => x.done[i].after <= z[1].credited)
  <1> DEFINE item == x.done[i]
             old == rows[a]
  <1>1. item \in Item
    BY DEF SessionRow
  <1>2. old \in Seq(Row) /\ Len(old) \in Nat /\ DOMAIN old = 1..Len(old)
    BY LenProperties DEF RowsHold, SomeRows
  <1>3. \A j \in 1..Len(old) : old[j] \in Row /\ TrailMatches(old[j]) /\ old[j].credited \in Nat
    <2> SUFFICES ASSUME NEW j \in 1..Len(old)
                 PROVE  old[j] \in Row /\ TrailMatches(old[j]) /\ old[j].credited \in Nat
      OBVIOUS
    <2>1. old[j] \in Row
      BY <1>2, ElementOfSeq
    <2> QED
      BY <1>2, <2>1 DEF RowsHold, Row
  <1>4. Covered(rows, item) /\ item.account = a
    BY DEF Trusted
  <1>5. CASE item.fresh
    <2> DEFINE new == Posted(EmptyRow, item)
    <2>1. EmptyRow \in Row /\ EmptyRow.credited = 0
      BY DEF EmptyRow, Row
    <2>2. item.after <= EmptyRow.credited + Gain(item)
      BY <1>1, <1>4, <1>5, <2>1 DEF Covered, Item, Gain
    <2>3. new \in Row /\ TrailMatches(new) /\ new.credited >= item.after
      BY <1>1, <2>1, <2>2, PostedRow
    <2> HIDE DEF new, item, old
    <2>4. z = Append(old, new)
      BY <1>5 DEF new, item, old
    <2>5. /\ z \in Seq(Row) /\ Len(z) = Len(old) + 1 /\ DOMAIN z = 1..Len(old) + 1
          /\ \A j \in 1..Len(old) : z[j] = old[j]
          /\ z[Len(old) + 1] = new
      <3>a. old \in Seq(Row) /\ new \in Row
        BY <1>2, <2>3
      <3>b. Append(old, new) \in Seq(Row)
        BY <3>a, AppendProperties
      <3>c. Len(Append(old, new)) = Len(old) + 1
        BY <3>a, AppendProperties
      <3>1. z \in Seq(Row) /\ Len(z) = Len(old) + 1
        BY <3>b, <3>c, <2>4
      <3>2. \A j \in 1..Len(old) : z[j] = old[j]
        BY <1>2, <2>3, <2>4, AppendProperties
      <3>3. z[Len(old) + 1] = new
        BY <1>2, <2>3, <2>4, AppendProperties
      <3>4. DOMAIN z = 1..Len(old) + 1
        BY <3>1, LenProperties
      <3> QED
        BY <3>1, <3>2, <3>3, <3>4
    <2>6. \A j \in DOMAIN z : TrailMatches(z[j])
      BY <1>2, <1>3, <2>3, <2>5
    <2>7. Len(old) >= 1 => z[1].credited >= old[1].credited
      BY <1>2, <1>3, <2>5
    <2>8. Len(z) >= 1 /\ (Len(z) = 1 => item.after <= z[1].credited)
      <3>1. Len(z) = 1 => z[1] = new
        BY <1>2, <2>5
      <3>2. item.after \in Nat /\ new.credited \in Nat
        BY <1>1, <2>3 DEF Item, Row
      <3> QED
        BY <1>2, <2>3, <2>5, <3>1, <3>2
    <2> QED
      BY <1>2, <2>5, <2>6, <2>7, <2>8 DEF item, old
  <1>6. CASE ~item.fresh
    <2> DEFINE new == Posted(old[1], item)
    <2>1. 1 \in 1..Len(old) /\ item.after <= old[1].credited + Gain(item)
      BY <1>2, <1>4, <1>6 DEF Covered
    <2>2. old[1] \in Row
      BY <1>3, <2>1
    <2>3. /\ new \in Row /\ TrailMatches(new)
          /\ new.credited >= item.after /\ new.credited >= old[1].credited
      BY <1>1, <2>1, <2>2, PostedRow
    <2> HIDE DEF new, item, old
    <2>4. z = [old EXCEPT ![1] = new]
      BY <1>6 DEF new, item, old
    <2>5. /\ z \in Seq(Row) /\ Len(z) = Len(old)
          /\ \A j \in 1..Len(old) : z[j] = IF j = 1 THEN new ELSE old[j]
      <3>1. /\ [old EXCEPT ![1] = new] \in Seq(Row)
            /\ Len([old EXCEPT ![1] = new]) = Len(old)
            /\ \A j \in 1..Len(old) : [old EXCEPT ![1] = new][j] = IF j = 1 THEN new ELSE old[j]
        BY <1>2, <2>1, <2>3, ExceptSeq
      <3> QED
        BY <2>4, <3>1
    <2>6. DOMAIN z = 1..Len(old)
      BY <2>5, LenProperties
    <2>7. \A j \in DOMAIN z : TrailMatches(z[j])
      BY <1>3, <2>3, <2>5, <2>6
    <2>8. z[1] = new
      BY <2>1, <2>5
    <2>9. item.after \in Nat /\ new.credited \in Nat
      BY <1>1, <2>3 DEF Item, Row
    <2> QED
      BY <1>2, <2>1, <2>3, <2>5, <2>7, <2>8, <2>9 DEF item, old
  <1> QED
    BY <1>5, <1>6

\* The update of an account a session would commit.
UpdateOf(x, a) == x.done[CHOOSE i \in DOMAIN x.done : x.done[i].account = a]

LEMMA CommitKeepsRows ==
    ASSUME RowsHold, SessionsHold, NEW s \in Sessions, WriteRows(s)
    PROVE  /\ RowsHold' /\ Grown(rows, rows')
           /\ \A a \in Accounts : Pending(s, a) =>
                LET left == UpdateOf(session[s], a).after
                IN /\ left \in Nat
                   /\ Len(rows'[a]) >= 1
                   /\ Len(rows'[a]) = 1 => left <= rows'[a][1].credited
  <1> DEFINE x == session[s]
             z(a) == Flushed(x.done, a)
  <1>1. x \in SessionRow /\ Trusted(rows, x)
    BY DEF SessionsHold
  <1>2. \A a \in Accounts : rows'[a] = z(a)
    BY DEF WriteRows
  <1>3. ASSUME NEW a \in Accounts, ~Pending(s, a)
        PROVE  z(a) = rows[a]
    BY <1>3 DEF Pending, Flushed
  <1>4. ASSUME NEW a \in Accounts, Pending(s, a)
        PROVE  LET left == UpdateOf(x, a).after
               IN /\ left \in Nat
                  /\ z(a) \in Seq(Row)
                  /\ \A j \in DOMAIN z(a) : TrailMatches(z(a)[j])
                  /\ Len(z(a)) >= Len(rows[a])
                  /\ Len(rows[a]) >= 1 => z(a)[1].credited >= rows[a][1].credited
                  /\ Len(z(a)) >= 1 /\ (Len(z(a)) = 1 => left <= z(a)[1].credited)
    <2> DEFINE i == CHOOSE i \in DOMAIN x.done : x.done[i].account = a
    <2>1. i \in DOMAIN x.done /\ x.done[i].account = a
      BY <1>4 DEF Pending
    <2>2. x.done[i] \in Item
      <3> HIDE DEF i, x
      <3> QED
        BY <1>1, <2>1 DEF SessionRow
    <2>3. z(a) = IF x.done[i].fresh THEN Append(rows[a], Posted(EmptyRow, x.done[i]))
                 ELSE [rows[a] EXCEPT ![1] = Posted(@, x.done[i])]
      BY <1>4 DEF Pending, Flushed
    <2>4. UpdateOf(x, a).after = x.done[i].after /\ x.done[i].after \in Nat
      BY <2>2 DEF UpdateOf, Item
    <2> HIDE DEF i, x, z
    <2>5. /\ z(a) \in Seq(Row)
          /\ \A j \in DOMAIN z(a) : TrailMatches(z(a)[j])
          /\ Len(z(a)) >= Len(rows[a])
          /\ Len(rows[a]) >= 1 => z(a)[1].credited >= rows[a][1].credited
          /\ Len(z(a)) >= 1 /\ (Len(z(a)) = 1 => x.done[i].after <= z(a)[1].credited)
      BY <1>1, <2>1, <2>3, FlushIsCovered
    <2> QED
      BY <2>4, <2>5
  <1> HIDE DEF z
  <1>5. ASSUME NEW a \in Accounts
        PROVE  /\ z(a) \in Seq(Row)
               /\ \A j \in DOMAIN z(a) : TrailMatches(z(a)[j])
               /\ Len(z(a)) >= Len(rows[a])
               /\ Len(rows[a]) >= 1 => z(a)[1].credited >= rows[a][1].credited
    <2>1. CASE Pending(s, a)
      BY <1>4, <2>1
    <2>2. CASE ~Pending(s, a)
      <3>1. rows[a] \in Seq(Row) /\ z(a) = rows[a]
        BY <1>3, <2>2 DEF RowsHold, SomeRows
      <3>2. Len(rows[a]) \in Nat
        BY <3>1, LenProperties
      <3>3. Len(rows[a]) >= 1 => rows[a][1].credited \in Nat
        <4> HAVE Len(rows[a]) >= 1
        <4>1. 1 \in 1..Len(rows[a])
          BY <3>2
        <4>2. rows[a][1] \in Row
          BY <3>1, <4>1, ElementOfSeq
        <4> QED
          BY <4>2 DEF Row
      <3>4. Len(z(a)) >= Len(rows[a])
        BY <3>1, <3>2
      <3>5. Len(rows[a]) >= 1 => z(a)[1].credited >= rows[a][1].credited
        BY <3>1, <3>3
      <3>6. \A j \in DOMAIN z(a) : TrailMatches(z(a)[j])
        BY <3>1 DEF RowsHold
      <3> QED
        BY <3>1, <3>4, <3>5, <3>6
    <2> QED
      BY <2>1, <2>2
  <1>6. rows' = [a \in Accounts |-> z(a)]
    BY DEF WriteRows, z
  <1>7. RowsHold'
    BY <1>5, <1>6 DEF RowsHold, SomeRows
  <1>8. Grown(rows, rows')
    BY <1>2, <1>5 DEF Grown
  <1> QED
    BY <1>2, <1>4, <1>7, <1>8

LEMMA IdleIsTrusted ==
    /\ Idle \in SessionRow
    /\ Idle.stage = "idle" /\ Idle.ref = NoReference
    /\ \A r : Trusted(r, Idle)
  <1>1. <<>> \in Seq(Work) /\ <<>> \in Seq(Item) /\ DOMAIN <<>> = {}
    OBVIOUS
  <1> QED
    BY <1>1 DEF Idle, SessionRow, Trusted, Recalled

\* What a session keeps when it goes on is what it has just committed.
LEMMA KeptIsTrusted ==
    ASSUME RowsHold, SessionsHold, NEW s \in Sessions, WriteRows(s)
    PROVE  /\ Kept(s) \in SessionRow /\ Trusted(rows', Kept(s))
           /\ Kept(s).stage = "idle" /\ Kept(s).ref = NoReference
  <1> DEFINE x == session[s]
             kept == [a \in Accounts |-> IF Pending(s, a) THEN UpdateOf(x, a).after ELSE x.loaded[a]]
  <1>1. CASE s \notin Workers
    BY <1>1, IdleIsTrusted DEF Kept
  <1>2. CASE s \in Workers
    <2>1. Kept(s) = [Idle EXCEPT !.loaded = kept]
      BY <1>2 DEF Kept, UpdateOf
    <2>2. x \in SessionRow /\ Trusted(rows, x) /\ rows \in SomeRows
      BY DEF SessionsHold, RowsHold
    <2>3. rows' \in SomeRows
      BY CommitKeepsRows DEF RowsHold
    <2>4. Trusted(rows', x)
      BY <2>2, <2>3, CommitKeepsRows, TrustOutlastsGrowth
    <2>5. kept \in [Accounts -> Nat \cup {NotLoaded}]
      BY <2>2, CommitKeepsRows DEF SessionRow
    <2>6. Recalled(rows', kept)
      <3> SUFFICES ASSUME NEW a \in Accounts, kept[a] # NotLoaded
                   PROVE  /\ Len(rows'[a]) >= 1
                          /\ Len(rows'[a]) = 1 => kept[a] <= rows'[a][1].credited
        BY DEF Recalled
      <3>1. CASE Pending(s, a)
        BY <3>1, CommitKeepsRows
      <3>2. CASE ~Pending(s, a)
        BY <2>4, <3>2 DEF Trusted, Recalled
      <3> QED
        BY <3>1, <3>2
    <2> HIDE DEF kept
    <2>7. /\ Kept(s) \in SessionRow /\ Kept(s).stage = "idle" /\ Kept(s).ref = NoReference
          /\ Kept(s).loaded = kept /\ DOMAIN Kept(s).done = {}
      <3>1. Kept(s) = [stage |-> "idle", ref |-> NoReference, todo |-> <<>>, done |-> <<>>,
                       loaded |-> kept]
        BY <2>1 DEF Idle
      <3> QED
        BY <2>5, <3>1 DEF SessionRow
    <2> QED
      BY <2>6, <2>7 DEF Trusted
  <1> QED
    BY <1>1, <1>2

-----------------------------------------------------------------------------
(* The initial state and the steps. *)

LEMMA InvHoldsInitially == Init => Inv
  <1> SUFFICES ASSUME Init PROVE Inv
    OBVIOUS
  <1> USE LedgerAssumption
  <1>1. RowsHold
    BY DEF Init, RowsHold, SomeRows
  <1>2. SessionsHold
    BY IdleIsTrusted DEF Init, SessionsHold
  <1>3. WorkHolds
    <2>1. \A s \in Sessions : session[s].stage = "idle" /\ session[s].ref \notin Tasks
      BY IdleIsTrusted DEF Init, References
    <2>2. attempts \in [Tasks -> 0 .. MaxAttempts + 1]
      BY DEF Init
    <2> QED
      BY <2>1, <2>2 DEF WorkHolds, Sessions
  <1>4. CountsHold
    BY DEF Init, CountsHold
  <1> QED
    BY <1>1, <1>2, <1>3, <1>4 DEF Inv

\* A balance read from the row of an account, as a caller's first load does.
LEMMA LoadedIsRecalled ==
    ASSUME RowsHold, NEW caller
    PROVE  Loaded(caller) \in [Accounts -> Nat \cup {NotLoaded}] /\ Recalled(rows, Loaded(caller))
  <1>1. ASSUME NEW a \in Accounts, Len(rows[a]) = 1
        PROVE  rows[a][1].balance \in Nat /\ rows[a][1].balance <= rows[a][1].credited
    <2>1. rows[a] \in Seq(Row) /\ 1 \in 1..Len(rows[a])
      BY <1>1 DEF RowsHold, SomeRows
    <2>2. rows[a][1] \in Row /\ 1 \in DOMAIN rows[a]
      BY <2>1, ElementOfSeq, LenProperties
    <2> QED
      BY <2>2 DEF RowsHold, TrailMatches, Row
  <1>2. Loaded(caller) \in [Accounts -> Nat \cup {NotLoaded}]
    BY <1>1 DEF Loaded
  <1>3. \A a \in Accounts : Loaded(caller)[a] # NotLoaded =>
            Len(rows[a]) = 1 /\ Loaded(caller)[a] = rows[a][1].balance
    BY DEF Loaded
  <1>4. Recalled(rows, Loaded(caller))
    BY <1>1, <1>3 DEF Recalled
  <1> QED
    BY <1>2, <1>4

\* A request starts: what it is to post is typed, and nothing is pending yet.
LEMMA RequestStarts ==
    ASSUME Inv, NEW s \in Requests, NEW caller, NEW todo \in Seq(Work),
           NEW r \in Leases \cup {NoReference},
           session' = [session EXCEPT ![s] = [stage |-> "busy", ref |-> r, todo |-> todo,
                                              done |-> <<>>, loaded |-> Loaded(caller)]],
           UNCHANGED <<rows, attempts>>
    PROVE  RowsHold' /\ SessionsHold' /\ WorkHolds'
  <1> DEFINE new == [stage |-> "busy", ref |-> r, todo |-> todo, done |-> <<>>,
                     loaded |-> Loaded(caller)]
  <1>1. s \in Sessions /\ s \notin Workers /\ r \notin Tasks /\ r \in References \cup {NoReference}
    BY LedgerAssumption DEF Sessions, References
  <1>2. new \in SessionRow /\ Trusted(rows, new)
    BY <1>1, LoadedIsRecalled DEF Inv, SessionRow, Trusted
  <1>3. new.ref \notin Tasks
    BY <1>1
  <1> HIDE DEF new
  <1>4. session \in [Sessions -> SessionRow] /\ session' = [session EXCEPT ![s] = new]
    BY DEF Inv, SessionsHold, new
  <1>5. RowsHold'
    BY DEF Inv, RowsHold
  <1>6. SessionsHold'
    BY <1>1, <1>2, <1>4 DEF Inv, SessionsHold
  <1>7. \A t \in Sessions : session'[t] = IF t = s THEN new ELSE session[t]
    BY <1>4
  <1>8. WorkHolds'
    BY <1>1, <1>3, <1>7 DEF Inv, WorkHolds, Sessions
  <1> QED
    BY <1>5, <1>6, <1>8

LEMMA RentKeeps == ASSUME Inv, NEW l \in Leases, Rent(l) PROVE Inv'
  BY DEF Inv, Rent, RowsHold, SessionsHold, WorkHolds, CountsHold

LEMMA BeginLeaseKeeps ==
    ASSUME Inv, NEW s \in Requests, NEW l \in Leases, NEW caller, BeginLease(s, l, caller)
    PROVE  Inv'
  <1>1. Posting(l) \in Seq(Work)
    BY PostingIsTyped DEF References
  <1>2. RowsHold' /\ SessionsHold' /\ WorkHolds'
    BY <1>1, RequestStarts DEF BeginLease
  <1>3. CountsHold'
    BY DEF Inv, BeginLease, CountsHold
  <1> QED
    BY <1>2, <1>3 DEF Inv

LEMMA BeginWithdrawalKeeps ==
    ASSUME Inv, NEW s \in Requests, NEW d \in Developers, NEW amount \in WithdrawAmounts,
           BeginWithdrawal(s, d, amount)
    PROVE  Inv'
  <1>1. d \in Accounts /\ -amount \in Int
    BY LedgerAssumption DEF Accounts
  <1>2. [account |-> d, delta |-> -amount] \in Work
    BY <1>1 DEF Work
  <1>3. <<[account |-> d, delta |-> -amount]>> \in Seq(Work)
    BY <1>2
  <1>4. RowsHold' /\ SessionsHold' /\ WorkHolds'
    BY <1>3, RequestStarts DEF BeginWithdrawal
  <1>5. CountsHold'
    BY DEF Inv, BeginWithdrawal, CountsHold
  <1> QED
    BY <1>4, <1>5 DEF Inv

LEMMA BeginTaskKeeps ==
    ASSUME Inv, NEW s \in Workers, NEW t \in Tasks, BeginTask(s, t)
    PROVE  Inv'
  <1> DEFINE old == session[s]
             new == [old EXCEPT !.stage = "busy", !.ref = t, !.todo = Posting(t)]
  <1>1. s \in Sessions /\ s \notin Requests /\ Posting(t) \in Seq(Work) /\ t \in References
    BY PostingIsTyped, LedgerAssumption DEF Sessions, References
  <1>2. old \in SessionRow /\ Trusted(rows, old) /\ session \in [Sessions -> SessionRow]
    BY <1>1 DEF Inv, SessionsHold
  <1>3. session' = [session EXCEPT ![s] = new]
    BY <1>1, <1>2 DEF BeginTask
  <1>4. new \in SessionRow /\ new.done = old.done /\ new.loaded = old.loaded /\ new.ref = t
    <2> HIDE DEF old
    <2> QED
      BY <1>1, <1>2 DEF SessionRow
  <1> HIDE DEF new
  <1>5. Trusted(rows, new)
    BY <1>2, <1>4 DEF Trusted
  <1>6. \A v \in Sessions : session'[v] = IF v = s THEN new ELSE session[v]
    BY <1>2, <1>3
  <1>7. RowsHold'
    BY DEF Inv, RowsHold, BeginTask
  <1>8. SessionsHold'
    <2>1. session' \in [Sessions -> SessionRow]
      BY <1>2, <1>3, <1>4
    <2>2. \A v \in Sessions : Trusted(rows, session'[v])
      BY <1>5, <1>6 DEF Inv, SessionsHold
    <2>3. rows' = rows
      BY DEF BeginTask
    <2> QED
      BY <2>1, <2>2, <2>3 DEF SessionsHold
  <1>9. attempts' = attempts /\ attempts[t] < MaxAttempts /\ \A w \in Workers : session[w].ref # t
    BY DEF BeginTask
  <1>10. WorkHolds'
    <2>1. \A v \in Requests : session'[v].ref \notin Tasks
      BY <1>1, <1>6 DEF Inv, WorkHolds, Sessions
    <2>2. ASSUME NEW w \in Workers
          PROVE  /\ session'[w].stage = "busy" => session'[w].ref \in Tasks
                 /\ session'[w].ref \in Tasks =>
                      /\ attempts[session'[w].ref] < MaxAttempts
                      /\ \A v \in Workers \ {w} : session'[v].ref # session'[w].ref
      <3>1. \A v \in Workers : v \in Sessions
        BY DEF Sessions
      <3>2. CASE w = s
        BY <1>4, <1>6, <1>9, <3>1, <3>2
      <3>3. CASE w # s
        BY <1>4, <1>6, <1>9, <3>1, <3>3 DEF Inv, WorkHolds
      <3> QED
        BY <3>2, <3>3
    <2> QED
      BY <1>9, <2>1, <2>2 DEF Inv, WorkHolds
  <1>11. CountsHold'
    BY DEF Inv, BeginTask, CountsHold
  <1> QED
    BY <1>7, <1>8, <1>10, <1>11 DEF Inv

LEMMA LookUpKeeps ==
    ASSUME Inv, NEW s \in Sessions, LookUp(s)
    PROVE  Inv'
  <1> DEFINE old == session[s]
             next == Head(old.todo)
             a == next.account
  <1>1. old \in SessionRow /\ Trusted(rows, old) /\ session \in [Sessions -> SessionRow]
    BY DEF Inv, SessionsHold
  <1>2. old.todo \in Seq(Work) /\ old.todo # <<>> /\ old.done \in Seq(Item)
    BY <1>1 DEF LookUp, SessionRow
  <1>3. next \in Work /\ Tail(old.todo) \in Seq(Work)
    <2> HIDE DEF old
    <2> QED
      BY <1>2, HeadTailProperties
  <1>4. a \in Accounts /\ next.delta \in Int
    <2> HIDE DEF next
    <2> QED
      BY <1>3 DEF Work
  <1>5. PICK seen \in Balances(s, a) :
            /\ Affordable(seen, next.delta)
            /\ session' = [session EXCEPT
                 ![s].todo = Tail(@),
                 ![s].done = Append(@, [account |-> a, fresh |-> Missing(a),
                                        delta |-> next.delta, after |-> seen + next.delta])]
            /\ contested' = contested \cup Contention(s, a, seen)
    BY DEF LookUp
  <1> DEFINE item == [account |-> a, fresh |-> Missing(a),
                      delta |-> next.delta, after |-> seen + next.delta]
             new == [old EXCEPT !.todo = Tail(@), !.done = Append(@, item)]
             count == Len(rows[a])
             stored == rows[a][1]
  <1>6. rows[a] \in Seq(Row) /\ count \in Nat /\ ~(count > 1)
    <2>1. rows[a] \in Seq(Row)
      BY <1>4 DEF Inv, RowsHold, SomeRows
    <2> QED
      BY <2>1, LenProperties DEF LookUp, Ambiguous
  <1>7. count # 0 => count = 1 /\ stored \in Row /\ stored.balance <= stored.credited
    <2> SUFFICES ASSUME count # 0
                 PROVE  count = 1 /\ stored \in Row /\ stored.balance <= stored.credited
      OBVIOUS
    <2>1. count = 1
      <3>1. count \in Nat /\ ~(count > 1) /\ count # 0
        BY <1>6
      <3> HIDE DEF count
      <3> QED
        BY <3>1
    <2>2. stored \in Row /\ 1 \in DOMAIN rows[a]
      BY <1>6, <2>1, ElementOfSeq, LenProperties, SMTT(30)
    <2> QED
      BY <1>4, <2>1, <2>2 DEF Inv, RowsHold, TrailMatches
  <1>8. /\ seen \in Nat
        /\ count = 0 => seen = 0
        /\ count # 0 => seen <= stored.credited
    <2>1. CASE count = 0
      BY <1>5, <2>1 DEF Balances, Missing
    <2>2. CASE count # 0
      <3>1. seen \in {stored.balance} \cup ({old.loaded[a]} \ {NotLoaded})
        BY <1>5, <2>2 DEF Balances, Missing
      <3>2. CASE seen = stored.balance
        BY <1>7, <2>2, <3>2 DEF Row
      <3>3. CASE seen = old.loaded[a] /\ seen # NotLoaded
        <4>1. seen \in Nat
          BY <1>1, <1>4, <3>3 DEF SessionRow
        <4>2. seen <= stored.credited
          BY <1>1, <1>4, <1>7, <2>2, <3>3 DEF Trusted, Recalled
        <4> QED
          BY <2>2, <4>1, <4>2
      <3> QED
        BY <3>1, <3>2, <3>3
    <2> QED
      BY <2>1, <2>2
  <1>9. item \in Item /\ Covered(rows, item)
    <2>1. seen + next.delta \in Nat
      BY <1>4, <1>5, <1>8 DEF Affordable
    <2>2. Missing(a) \in BOOLEAN /\ (Missing(a) <=> count = 0)
      BY DEF Missing
    <2>3. item \in Item
      BY <1>4, <2>1, <2>2 DEF Item
    <2>4. item.account = a /\ item.delta = next.delta /\ item.after = seen + next.delta
          /\ (item.fresh <=> count = 0)
      BY <2>2
    <2> HIDE DEF item, next, a
    <2>5. CASE count = 0
      <3>1. item.fresh /\ item.after = item.delta
        BY <1>4, <1>8, <2>4, <2>5
      <3> QED
        BY <2>3, <3>1 DEF Covered
    <2>6. CASE count # 0
      <3>1. stored.credited \in Nat
        BY <1>7, <2>6 DEF Row
      <3>2. item.after <= stored.credited + Gain(item)
        BY <1>4, <1>8, <2>4, <2>6, <3>1 DEF Gain
      <3>3. ~item.fresh /\ Len(rows[item.account]) >= 1
        BY <1>7, <2>4, <2>6
      <3> QED
        BY <2>3, <2>4, <3>2, <3>3 DEF Covered
    <2> QED
      BY <2>5, <2>6
  <1> HIDE DEF item, next, a
  <1>10. Append(old.done, item) \in Seq(Item)
         /\ \A i \in DOMAIN Append(old.done, item) :
                \/ i \in DOMAIN old.done /\ Append(old.done, item)[i] = old.done[i]
                \/ Append(old.done, item)[i] = item
    <2> HIDE DEF old
    <2> DEFINE longer == Append(old.done, item)
    <2>1. longer \in Seq(Item) /\ Len(longer) = Len(old.done) + 1
      BY <1>2, <1>9, AppendProperties
    <2>2. /\ \A i \in 1..Len(old.done) : longer[i] = old.done[i]
          /\ longer[Len(old.done) + 1] = item
      BY <1>2, <1>9, AppendProperties
    <2>3. DOMAIN longer = 1..Len(old.done) + 1 /\ DOMAIN old.done = 1..Len(old.done)
          /\ Len(old.done) \in Nat
      BY <1>2, <2>1, LenProperties
    <2> HIDE DEF longer
    <2>4. \A i \in DOMAIN longer :
              (i \in DOMAIN old.done /\ longer[i] = old.done[i]) \/ longer[i] = item
      BY <2>2, <2>3
    <2> QED
      BY <2>1, <2>4 DEF longer
  <1>11. session' = [session EXCEPT ![s] = new]
    BY <1>1, <1>5 DEF item, next, a
  <1>12. /\ new \in SessionRow /\ new.done = Append(old.done, item) /\ new.loaded = old.loaded
         /\ new.ref = old.ref /\ new.stage = old.stage
    <2>1. old \in SessionRow /\ Tail(old.todo) \in Seq(Work) /\ Append(old.done, item) \in Seq(Item)
      BY <1>1, <1>3, <1>10
    <2> HIDE DEF old
    <2> QED
      BY <2>1 DEF SessionRow
  <1> HIDE DEF new
  <1>13. Trusted(rows, new)
    BY <1>1, <1>9, <1>10, <1>12 DEF Trusted
  <1>14. \A v \in Sessions : session'[v] = IF v = s THEN new ELSE session[v]
    BY <1>1, <1>11
  <1>15. rows' = rows /\ attempts' = attempts
    BY DEF LookUp
  <1>16. RowsHold'
    BY <1>15 DEF Inv, RowsHold
  <1>17. SessionsHold'
    <2>1. session' \in [Sessions -> SessionRow]
      BY <1>1, <1>11, <1>12
    <2>2. \A v \in Sessions : Trusted(rows, session'[v])
      BY <1>13, <1>14 DEF Inv, SessionsHold
    <2> QED
      BY <1>15, <2>1, <2>2 DEF SessionsHold
  <1>18. WorkHolds'
    <2>1. \A v \in Sessions : session'[v].ref = session[v].ref /\ session'[v].stage = session[v].stage
      BY <1>12, <1>14
    <2>2. \A v \in Workers : v \in Sessions
      BY DEF Sessions
    <2>3. \A v \in Requests : v \in Sessions
      BY DEF Sessions
    <2> QED
      BY <1>15, <2>1, <2>2, <2>3 DEF Inv, WorkHolds
  <1>19. CountsHold'
    BY <1>4, <1>5 DEF Inv, LookUp, CountsHold, Contention
  <1> QED
    BY <1>16, <1>17, <1>18, <1>19 DEF Inv

\* A session ends with nothing pending, over rows that only grew.
LEMMA EndsTrusted ==
    ASSUME SessionsHold, rows \in SomeRows, rows' \in SomeRows, Grown(rows, rows'),
           NEW s \in Sessions, NEW new \in SessionRow, Trusted(rows', new),
           session' = [session EXCEPT ![s] = new]
    PROVE  SessionsHold'
  <1>1. session' \in [Sessions -> SessionRow]
    BY DEF SessionsHold
  <1>2. \A v \in Sessions : Trusted(rows', session[v])
    BY TrustOutlastsGrowth DEF SessionsHold
  <1>3. \A v \in Sessions : session'[v] = IF v = s THEN new ELSE session[v]
    BY DEF SessionsHold
  <1>4. \A v \in Sessions : Trusted(rows', session'[v])
    BY <1>2, <1>3
  <1> QED
    BY <1>1, <1>4 DEF SessionsHold

\* Its task is nobody's then, and only that task's attempts were counted.
LEMMA EndsWork ==
    ASSUME WorkHolds, session \in [Sessions -> SessionRow], NEW s \in Sessions, NEW new,
           new.stage = "idle", new.ref = NoReference,
           session' = [session EXCEPT ![s] = new],
           attempts' \in [Tasks -> 0 .. MaxAttempts + 1],
           \A t \in Tasks : t # session[s].ref => attempts'[t] = attempts[t]
    PROVE  WorkHolds'
  <1>1. \A v \in Sessions : session'[v] = IF v = s THEN new ELSE session[v]
    OBVIOUS
  <1>2. NoReference \notin Tasks
    BY LedgerAssumption DEF References
  <1>3. \A v \in Workers : v \in Sessions
    BY DEF Sessions
  <1>4. \A v \in Requests : v \in Sessions
    BY DEF Sessions
  <1>5. \A v \in Requests : session'[v].ref \notin Tasks
    BY <1>1, <1>2, <1>4 DEF WorkHolds
  <1>6. ASSUME NEW w \in Workers
        PROVE  /\ session'[w].stage = "busy" => session'[w].ref \in Tasks
               /\ session'[w].ref \in Tasks =>
                    /\ attempts'[session'[w].ref] < MaxAttempts
                    /\ \A v \in Workers \ {w} : session'[v].ref # session'[w].ref
    <2>1. CASE w = s
      BY <1>1, <1>2, <1>3, <2>1
    <2>2. CASE w # s
      <3>1. session'[w] = session[w]
        BY <1>1, <1>3, <2>2
      <3>2. session[w].ref \in Tasks => session[w].ref # session[s].ref
        <4>1. CASE s \in Workers
          BY <2>2, <4>1 DEF WorkHolds
        <4>2. CASE s \in Requests
          BY <4>2 DEF WorkHolds
        <4> QED
          BY <4>1, <4>2 DEF Sessions
      <3>3. session[w].ref \in Tasks => attempts'[session[w].ref] < MaxAttempts
        BY <3>2 DEF WorkHolds
      <3>4. session[w].ref \in Tasks =>
                \A v \in Workers \ {w} : session'[v].ref # session[w].ref
        BY <1>1, <1>2, <1>3 DEF WorkHolds
      <3> QED
        BY <3>1, <3>3, <3>4 DEF WorkHolds
    <2> QED
      BY <2>1, <2>2
  <1> QED
    BY <1>5, <1>6 DEF WorkHolds

LEMMA CommitsStay ==
    ASSUME Inv, NEW s \in Sessions, CountCredits(s)
    PROVE  credits' \in [References -> [Accounts -> Nat]]
  <1>1. \A r \in References, a \in Accounts :
            credits[r][a] + (IF session[s].ref = r /\ Pending(s, a) THEN 1 ELSE 0) \in Nat
    BY DEF Inv, CountsHold
  <1> QED
    BY <1>1 DEF CountCredits

LEMMA CommitKeeps ==
    ASSUME Inv, NEW s \in Sessions, Commit(s)
    PROVE  Inv'
  <1>1. WriteRows(s) /\ CountCredits(s) /\ session' = [session EXCEPT ![s] = Kept(s)]
    BY DEF Commit
  <1>2. RowsHold' /\ Grown(rows, rows') /\ rows \in SomeRows /\ rows' \in SomeRows
    BY <1>1, CommitKeepsRows DEF Inv, RowsHold
  <1>3. /\ Kept(s) \in SessionRow /\ Trusted(rows', Kept(s))
        /\ Kept(s).stage = "idle" /\ Kept(s).ref = NoReference
    BY <1>1, KeptIsTrusted DEF Inv
  <1>4. SessionsHold'
    BY <1>1, <1>2, <1>3, EndsTrusted DEF Inv
  <1>5. /\ attempts' \in [Tasks -> 0 .. MaxAttempts + 1]
        /\ \A t \in Tasks : t # session[s].ref => attempts'[t] = attempts[t]
    <2>1. \A t \in Tasks : attempts[t] \in 0 .. MaxAttempts + 1
      BY DEF Inv, WorkHolds
    <2>2. MaxAttempts + 1 \in 0 .. MaxAttempts + 1
      BY LedgerAssumption
    <2> QED
      BY <2>1, <2>2 DEF Commit
  <1>6. WorkHolds'
    BY <1>1, <1>3, <1>5, EndsWork DEF Inv, SessionsHold
  <1>7. CountsHold'
    <2>1. lease' \in [Leases -> {"NONE", "ESCROW_LOCKED", "SETTLED"}]
      BY DEF Inv, CountsHold, Commit, LeaseAfter
    <2>2. withdrawals' \in Nat
      BY DEF Inv, CountsHold, Commit
    <2> QED
      BY <1>1, <2>1, <2>2, CommitsStay DEF Inv, CountsHold, Commit
  <1> QED
    BY <1>2, <1>4, <1>6, <1>7 DEF Inv

LEMMA RequestFailsKeeps ==
    ASSUME Inv, NEW s \in Requests, RequestFails(s)
    PROVE  Inv'
  <1>1. /\ s \in Sessions /\ session' = [session EXCEPT ![s] = Idle]
        /\ rows' = rows /\ attempts' = attempts
    BY DEF Sessions, RequestFails, RollBack
  <1>2. Idle \in SessionRow /\ Trusted(rows', Idle)
    BY IdleIsTrusted
  <1>3. RowsHold' /\ rows \in SomeRows /\ rows' \in SomeRows
    BY <1>1 DEF Inv, RowsHold
  <1>4. SessionsHold'
    <2>1. \A v \in Sessions : session'[v] = IF v = s THEN Idle ELSE session[v]
      BY <1>1 DEF Inv, SessionsHold
    <2>2. session' \in [Sessions -> SessionRow]
      BY <1>1, <1>2 DEF Inv, SessionsHold
    <2> QED
      BY <1>1, <1>2, <2>1, <2>2 DEF Inv, SessionsHold
  <1>5. WorkHolds'
    BY <1>1, IdleIsTrusted, EndsWork DEF Inv, SessionsHold, WorkHolds
  <1>6. CountsHold'
    BY DEF Inv, CountsHold, RequestFails, RollBack
  <1> QED
    BY <1>3, <1>4, <1>5, <1>6 DEF Inv

\* A failed attempt of a worker counts for its task, which has attempts left.
LEMMA AttemptCounts ==
    ASSUME Inv, NEW s \in Workers, session[s].stage = "busy",
           attempts' = [attempts EXCEPT ![session[s].ref] = @ + 1]
    PROVE  /\ attempts' \in [Tasks -> 0 .. MaxAttempts + 1]
           /\ \A t \in Tasks : t # session[s].ref => attempts'[t] = attempts[t]
  <1> DEFINE t == session[s].ref
  <1>1. /\ t \in Tasks /\ attempts[t] < MaxAttempts
        /\ attempts \in [Tasks -> 0 .. MaxAttempts + 1]
    BY DEF Inv, WorkHolds
  <1>2. attempts[t] + 1 \in 0 .. MaxAttempts + 1
    BY <1>1, LedgerAssumption
  <1> HIDE DEF t
  <1>3. attempts' = [attempts EXCEPT ![t] = attempts[t] + 1]
    BY DEF t
  <1>4. attempts' \in [Tasks -> 0 .. MaxAttempts + 1]
    BY <1>1, <1>2, <1>3
  <1>5. \A u \in Tasks : u # t => attempts'[u] = attempts[u]
    BY <1>1, <1>3
  <1> QED
    BY <1>4, <1>5 DEF t

LEMMA WorkerRaisesKeeps ==
    ASSUME Inv, NEW s \in Workers, WorkerRaises(s)
    PROVE  Inv'
  <1>1. /\ s \in Sessions /\ WriteRows(s) /\ CountCredits(s)
        /\ session' = [session EXCEPT ![s] = Kept(s)]
    BY DEF Sessions, WorkerRaises
  <1>2. RowsHold' /\ Grown(rows, rows') /\ rows \in SomeRows /\ rows' \in SomeRows
    BY <1>1, CommitKeepsRows DEF Inv, RowsHold
  <1>3. /\ Kept(s) \in SessionRow /\ Trusted(rows', Kept(s))
        /\ Kept(s).stage = "idle" /\ Kept(s).ref = NoReference
    BY <1>1, KeptIsTrusted DEF Inv
  <1>4. SessionsHold'
    BY <1>1, <1>2, <1>3, EndsTrusted DEF Inv
  <1>5. /\ attempts' \in [Tasks -> 0 .. MaxAttempts + 1]
        /\ \A t \in Tasks : t # session[s].ref => attempts'[t] = attempts[t]
    BY AttemptCounts DEF WorkerRaises
  <1>6. WorkHolds'
    BY <1>1, <1>3, <1>5, EndsWork DEF Inv, SessionsHold
  <1>7. CountsHold'
    BY <1>1, CommitsStay DEF Inv, CountsHold, WorkerRaises
  <1> QED
    BY <1>2, <1>4, <1>6, <1>7 DEF Inv

LEMMA WorkerDiesKeeps ==
    ASSUME Inv, NEW s \in Workers, WorkerDies(s)
    PROVE  Inv'
  <1>1. /\ s \in Sessions /\ session' = [session EXCEPT ![s] = Idle] /\ rows' = rows
    BY DEF Sessions, WorkerDies, RollBack
  <1>2. Idle \in SessionRow /\ Trusted(rows', Idle)
    BY IdleIsTrusted
  <1>3. RowsHold'
    BY <1>1 DEF Inv, RowsHold
  <1>4. SessionsHold'
    <2>1. \A v \in Sessions : session'[v] = IF v = s THEN Idle ELSE session[v]
      BY <1>1 DEF Inv, SessionsHold
    <2>2. session' \in [Sessions -> SessionRow]
      BY <1>1, <1>2 DEF Inv, SessionsHold
    <2> QED
      BY <1>1, <1>2, <2>1, <2>2 DEF Inv, SessionsHold
  <1>5. /\ attempts' \in [Tasks -> 0 .. MaxAttempts + 1]
        /\ \A t \in Tasks : t # session[s].ref => attempts'[t] = attempts[t]
    BY AttemptCounts DEF WorkerDies
  <1>6. WorkHolds'
    BY <1>1, <1>5, IdleIsTrusted, EndsWork DEF Inv, SessionsHold
  <1>7. CountsHold'
    BY DEF Inv, CountsHold, WorkerDies, RollBack
  <1> QED
    BY <1>3, <1>4, <1>6, <1>7 DEF Inv

LEMMA InvIsKept == Inv /\ [Next]_vars => Inv'
  <1> SUFFICES ASSUME Inv, [Next]_vars PROVE Inv'
    OBVIOUS
  <1>1. ASSUME NEW l \in Leases, Rent(l) PROVE Inv'
    BY <1>1, RentKeeps
  <1>2. ASSUME NEW s \in Requests, RequestStep(s) PROVE Inv'
    BY <1>2, BeginLeaseKeeps, BeginWithdrawalKeeps, RequestFailsKeeps DEF RequestStep
  <1>3. ASSUME NEW s \in Workers, WorkerStep(s) PROVE Inv'
    BY <1>3, BeginTaskKeeps, WorkerRaisesKeeps, WorkerDiesKeeps DEF WorkerStep
  <1>4. ASSUME NEW s \in Sessions, LookUp(s) \/ Commit(s) PROVE Inv'
    BY <1>4, LookUpKeeps, CommitKeeps
  <1>5. CASE UNCHANGED vars
    BY <1>5 DEF vars, Inv, RowsHold, SessionsHold, WorkHolds, CountsHold
  <1> QED
    BY <1>1, <1>2, <1>3, <1>4, <1>5 DEF Next

LEMMA InvAlways == Spec => []Inv
  BY InvHoldsInitially, InvIsKept, PTL DEF Spec

-----------------------------------------------------------------------------
(* Rows, sessions and counters keep their types: above all no update leaves  *)
(* a negative balance, because each operation checks the balance it saw      *)
(* (withdrawals.py:40).                                                      *)
THEOREM LedgerTypes == Spec => []TypeOK
  <1>1. Inv => TypeOK
    BY DEF Inv, RowsHold, SessionsHold, WorkHolds, CountsHold, SomeRows, SessionRow, TypeOK
  <1> QED
    BY <1>1, InvAlways, PTL

(* However many sessions read balances and write them back by value, with    *)
(* objects they loaded long ago (session.py:19) or an account created twice, *)
(* the entries of an account end in its balance and no balance exceeds what  *)
(* was credited.                                                             *)
THEOREM NothingUnearned == Spec => []BalancesAreEarned
  <1>1. Inv => BalancesAreEarned
    BY DEF Inv, RowsHold, BalancesAreEarned
  <1> QED
    BY <1>1, InvAlways, PTL

-----------------------------------------------------------------------------
(* Accounts that no two sessions worked on at a time: every update that is    *)
(* still to be committed starts from the balance its row has now, because     *)
(* whoever else had one pending, or saw an older balance, made the account a  *)
(* contested one.                                                             *)

Stored(a) == IF Missing(a) THEN 0 ELSE rows[a][1].balance

FromStored(a, item) ==
    (item.fresh <=> Missing(a)) /\ item.after = Stored(a) + item.delta

Alone(a) ==
    /\ \A s, t \in Sessions : Pending(s, a) /\ Pending(t, a) => s = t
    /\ \A s \in Sessions : \A i \in DOMAIN session[s].done :
         session[s].done[i].account = a => FromStored(a, session[s].done[i])

AccountsHold == \A a \in Accounts \ contested : Balanced(a) /\ Alone(a)

\* Steps that write no row and look up no account.
LEMMA UntouchedAccountsHold ==
    ASSUME AccountsHold, rows' = rows, contested \subseteq contested',
           \A v \in Sessions : session'[v].done = session[v].done \/ session'[v].done = <<>>
    PROVE  AccountsHold'
  <1> SUFFICES ASSUME NEW a \in Accounts \ contested'
               PROVE  Balanced(a)' /\ Alone(a)'
    BY DEF AccountsHold
  <1>1. Balanced(a) /\ Alone(a)
    BY DEF AccountsHold
  <1>2. Balanced(a)'
    BY <1>1 DEF Balanced
  <1>3. ASSUME NEW v \in Sessions, NEW i \in DOMAIN session'[v].done
        PROVE  i \in DOMAIN session[v].done /\ session'[v].done[i] = session[v].done[i]
    <2>1. DOMAIN <<>> = {}
      OBVIOUS
    <2> QED
      BY <1>3, <2>1
  <1>4. \A v \in Sessions : Pending(v, a)' => Pending(v, a)
    BY <1>3 DEF Pending
  <1>5. \A item : FromStored(a, item) => FromStored(a, item)'
    BY DEF FromStored, Stored, Missing
  <1>6. Alone(a)'
    <2>1. \A s, t \in Sessions : Pending(s, a)' /\ Pending(t, a)' => s = t
      BY <1>1, <1>4 DEF Alone
    <2>2. ASSUME NEW s \in Sessions, NEW i \in DOMAIN session'[s].done,
                 session'[s].done[i].account = a
          PROVE  FromStored(a, session[s].done[i])'
      <3>1. FromStored(a, session[s].done[i])
        BY <1>1, <1>3, <2>2 DEF Alone
      <3> QED
        BY <1>3, <1>5, <2>2, <3>1 DEF FromStored, Stored, Missing
    <2> QED
      BY <2>1, <2>2 DEF Alone
  <1> QED
    BY <1>2, <1>6

\* The row of a balanced update is balanced.
LEMMA PostedIsBalanced ==
    ASSUME NEW row \in Row, NEW item \in Item,
           row.balance = row.credited - row.debited, item.after = row.balance + item.delta
    PROVE  /\ Posted(row, item) \in Row
           /\ Posted(row, item).balance = Posted(row, item).credited - Posted(row, item).debited
  BY DEF Row, Item, Posted

\* A session writes its updates and has none left.
LEMMA WrittenAccountsHold ==
    ASSUME Inv, AccountsHold, NEW s \in Sessions, WriteRows(s), NEW new,
           session' = [session EXCEPT ![s] = new], new.done = <<>>, contested' = contested
    PROVE  AccountsHold'
  <1> SUFFICES ASSUME NEW a \in Accounts \ contested
               PROVE  Balanced(a)' /\ Alone(a)'
    BY DEF AccountsHold
  <1>1. Balanced(a) /\ Alone(a)
    BY DEF AccountsHold
  <1>2. /\ session'[s].done = <<>>
        /\ \A v \in Sessions : v # s => session'[v] = session[v]
    BY DEF Inv, SessionsHold
  <1>3. rows'[a] = Flushed(session[s].done, a)
    BY DEF WriteRows
  <1>4. /\ ~Pending(s, a)'
        /\ \A v \in Sessions : v # s => (Pending(v, a)' <=> Pending(v, a))
    <2>1. DOMAIN <<>> = {}
      OBVIOUS
    <2> QED
      BY <1>2, <2>1 DEF Pending
  <1>5. rows[a] \in Seq(Row) /\ Len(rows[a]) \in Nat /\ DOMAIN rows[a] = 1..Len(rows[a])
    BY LenProperties DEF Inv, RowsHold, SomeRows
  <1>6. CASE Pending(s, a)
    <2> DEFINE i == CHOOSE i \in DOMAIN session[s].done : session[s].done[i].account = a
               item == session[s].done[i]
    <2>1. i \in DOMAIN session[s].done /\ item.account = a
      BY <1>6 DEF Pending
    <2>2. item \in Item
      <3>1. session[s].done \in Seq(Item)
        BY DEF Inv, SessionsHold, SessionRow
      <3> HIDE DEF i
      <3> QED
        BY <2>1, <3>1
    <2>3. FromStored(a, item)
      <3> HIDE DEF i
      <3> QED
        BY <1>1, <2>1 DEF Alone
    <2>4. rows'[a] = IF item.fresh THEN Append(rows[a], Posted(EmptyRow, item))
                     ELSE [rows[a] EXCEPT ![1] = Posted(@, item)]
      BY <1>3, <1>6 DEF Flushed, Pending
    <2> HIDE DEF item, i
    <2>7. \A v \in Sessions : ~Pending(v, a)'
      BY <1>1, <1>4, <1>6 DEF Alone
    <2>8. Alone(a)'
      BY <2>7 DEF Alone, Pending
    <2>5. CASE Missing(a)
      <3>1. rows[a] = <<>>
        BY <1>5, <2>5, EmptySeq DEF Missing
      <3>2. EmptyRow \in Row /\ EmptyRow.balance = 0 /\ EmptyRow.credited = 0 /\ EmptyRow.debited = 0
        BY DEF EmptyRow, Row
      <3>3. item.fresh /\ item.after = EmptyRow.balance + item.delta
        BY <2>3, <2>5, <3>2 DEF FromStored, Stored
      <3> DEFINE row == Posted(EmptyRow, item)
      <3>4. row \in Row /\ row.balance = row.credited - row.debited
        BY <2>2, <3>2, <3>3, PostedIsBalanced
      <3>5. rows'[a] = Append(<<>>, row)
        BY <2>4, <3>1, <3>3
      <3> HIDE DEF row
      <3>6. Len(rows'[a]) = 1 /\ rows'[a][1] = row /\ DOMAIN rows'[a] = 1..1
        BY <3>5
      <3>7. \A j \in DOMAIN rows'[a] : j = 1
        BY <3>6
      <3>8. Balanced(a)'
        BY <3>4, <3>6, <3>7 DEF Balanced
      <3> QED
        BY <2>8, <3>8
    <2>6. CASE ~Missing(a)
      <3> DEFINE n == Len(rows[a])
      <3>n. n \in Nat /\ n <= 1 /\ n # 0
        BY <1>1, <1>5, <2>6 DEF Balanced, Missing
      <3> HIDE DEF n
      <3>o. n = 1
        BY <3>n
      <3>1. Len(rows[a]) = 1 /\ 1 \in DOMAIN rows[a]
        BY <1>5, <3>o DEF n
      <3>2. rows[a][1] \in Row /\ rows[a][1].balance = rows[a][1].credited - rows[a][1].debited
        BY <1>1, <1>5, <3>1 DEF Balanced
      <3>3. ~item.fresh /\ item.after = rows[a][1].balance + item.delta
        BY <2>3, <2>6 DEF FromStored, Stored
      <3> DEFINE row == Posted(rows[a][1], item)
      <3>4. row \in Row /\ row.balance = row.credited - row.debited
        BY <2>2, <3>2, <3>3, PostedIsBalanced
      <3> HIDE DEF row
      <3>5. rows'[a] = [rows[a] EXCEPT ![1] = row]
        BY <2>4, <3>3 DEF row
      <3>6. Len(rows'[a]) = 1 /\ rows'[a][1] = row /\ DOMAIN rows'[a] = 1..1
        BY <1>5, <3>1, <3>4, <3>5
      <3>7. \A j \in DOMAIN rows'[a] : j = 1
        BY <3>6
      <3>8. Balanced(a)'
        BY <3>4, <3>6, <3>7 DEF Balanced
      <3> QED
        BY <2>8, <3>8
    <2> QED
      BY <2>5, <2>6
  <1>7. CASE ~Pending(s, a)
    <2>1. rows'[a] = rows[a]
      BY <1>3, <1>7 DEF Flushed, Pending
    <2>2. Balanced(a)'
      BY <1>1, <2>1 DEF Balanced
    <2>3. \A t, v \in Sessions : Pending(t, a)' /\ Pending(v, a)' => t = v
      BY <1>1, <1>4 DEF Alone
    <2>4. ASSUME NEW v \in Sessions, NEW i \in DOMAIN session'[v].done,
                 session'[v].done[i].account = a
          PROVE  FromStored(a, session[v].done[i])'
      <3>1. Pending(v, a)'
        BY <2>4 DEF Pending
      <3>2. session'[v] = session[v]
        BY <1>2, <1>4, <3>1
      <3>3. FromStored(a, session[v].done[i])
        BY <1>1, <2>4, <3>2 DEF Alone
      <3> QED
        BY <2>1, <3>2, <3>3 DEF FromStored, Stored, Missing
    <2> QED
      BY <2>2, <2>3, <2>4 DEF Alone
  <1> QED
    BY <1>6, <1>7

\* An account looked up while somebody else's update of it is pending, or seen with an
\* older balance, is contested from then on; any other update starts from the row.
LEMMA LookUpKeepsAccounts ==
    ASSUME Inv, AccountsHold, NEW s \in Sessions, LookUp(s)
    PROVE  AccountsHold'
  <1> DEFINE next == Head(session[s].todo)
             b == next.account
  <1>1. PICK seen \in Balances(s, b) :
            /\ session' = [session EXCEPT
                 ![s].todo = Tail(@),
                 ![s].done = Append(@, [account |-> b, fresh |-> Missing(b),
                                        delta |-> next.delta, after |-> seen + next.delta])]
            /\ contested' = contested \cup Contention(s, b, seen)
    BY DEF LookUp
  <1> DEFINE item == [account |-> b, fresh |-> Missing(b),
                      delta |-> next.delta, after |-> seen + next.delta]
             done == session[s].done
  <1>2. session[s] \in SessionRow /\ session \in [Sessions -> SessionRow] /\ rows' = rows
    BY DEF Inv, SessionsHold, LookUp
  <1>3. /\ session'[s].done = Append(done, item)
        /\ \A v \in Sessions : v # s => session'[v] = session[v]
    <2> HIDE DEF item
    <2>1. session' = [session EXCEPT ![s].todo = Tail(@), ![s].done = Append(@, item)]
      BY <1>1 DEF item
    <2> QED
      BY <1>2, <2>1 DEF SessionRow
  <1>4. done \in Seq(Item) /\ Len(done) \in Nat /\ DOMAIN done = 1..Len(done)
    BY <1>2, LenProperties DEF SessionRow
  <1> HIDE DEF item, done
  <1>5. /\ DOMAIN Append(done, item) = 1..Len(done) + 1
        /\ \A i \in 1..Len(done) : Append(done, item)[i] = done[i]
        /\ Append(done, item)[Len(done) + 1] = item
    BY <1>4
  <1>6. /\ item.account = b /\ (item.fresh <=> Missing(b)) /\ item.delta = next.delta
        /\ item.after = seen + next.delta
    <2>1. Missing(b) \in BOOLEAN
      BY DEF Missing
    <2> QED
      BY <2>1 DEF item
  <1>7. ASSUME NEW a \in Accounts \ contested' PROVE Balanced(a)' /\ Alone(a)'
    <2>1. a \notin contested /\ Balanced(a) /\ Alone(a)
      BY <1>1, <1>7 DEF AccountsHold
    <2>2. Balanced(a)'
      BY <1>2, <2>1 DEF Balanced
    <2>3. \A x : FromStored(a, x)' <=> FromStored(a, x)
      BY <1>2 DEF FromStored, Stored, Missing
    <2>4. \A v \in Sessions : v # s => (Pending(v, a)' <=> Pending(v, a))
      BY <1>3 DEF Pending
    <2>5. CASE a = b
      <3>1. a \notin Contention(s, a, seen)
        BY <1>1, <1>7, <2>5
      <3>2. /\ \A t \in Sessions \ {s} : ~Pending(t, a)
            /\ Missing(a) \/ seen = rows[a][1].balance
        BY <3>1 DEF Contention
      <3>3. Missing(a) => seen = 0
        BY <1>1, <2>5 DEF Balances
      <3>4. FromStored(a, item)
        BY <1>6, <2>5, <3>2, <3>3 DEF FromStored, Stored
      <3>5. ASSUME NEW v \in Sessions, NEW i \in DOMAIN session'[v].done,
                   session'[v].done[i].account = a
            PROVE  FromStored(a, session[v].done[i])'
        <4>1. v = s
          BY <2>4, <3>2, <3>5 DEF Pending
        <4>2. CASE i = Len(done) + 1
          BY <1>3, <1>5, <2>3, <3>4, <4>1, <4>2 DEF FromStored, Stored, Missing
        <4>3. CASE i # Len(done) + 1
          <5>1. i \in 1..Len(done) /\ session'[v].done[i] = session[s].done[i]
            BY <1>3, <1>4, <1>5, <3>5, <4>1, <4>3 DEF done
          <5>2. FromStored(a, session[s].done[i])
            BY <1>4, <2>1, <3>5, <5>1 DEF Alone, done
          <5> QED
            BY <1>2, <5>1, <5>2 DEF FromStored, Stored, Missing
        <4> QED
          BY <4>2, <4>3
      <3>6. \A t, v \in Sessions : Pending(t, a)' /\ Pending(v, a)' => t = v
        BY <2>4, <3>2
      <3> QED
        BY <2>2, <3>5, <3>6 DEF Alone
    <2>6. CASE a # b
      <3>1. ASSUME NEW v \in Sessions, NEW i \in DOMAIN session'[v].done,
                   session'[v].done[i].account = a
            PROVE  i \in DOMAIN session[v].done /\ session'[v].done[i] = session[v].done[i]
        <4>1. CASE v = s
          <5>1. i \in 1..Len(done) + 1 /\ i # Len(done) + 1
            BY <1>3, <1>5, <1>6, <2>6, <3>1, <4>1
          <5>2. i \in 1..Len(done)
            BY <1>4, <5>1
          <5> QED
            BY <1>3, <1>4, <1>5, <4>1, <5>2 DEF done
        <4>2. CASE v # s
          BY <1>3, <3>1, <4>2
        <4> QED
          BY <4>1, <4>2
      <3>2. \A v \in Sessions : Pending(v, a)' => Pending(v, a)
        BY <3>1 DEF Pending
      <3>3. \A t, v \in Sessions : Pending(t, a)' /\ Pending(v, a)' => t = v
        BY <2>1, <3>2 DEF Alone
      <3>4. ASSUME NEW v \in Sessions, NEW i \in DOMAIN session'[v].done,
                   session'[v].done[i].account = a
            PROVE  FromStored(a, session[v].done[i])'
        <4>1. i \in DOMAIN session[v].done /\ session'[v].done[i] = session[v].done[i]
          BY <3>1, <3>4
        <4>2. FromStored(a, session[v].done[i])
          BY <2>1, <3>4, <4>1 DEF Alone
        <4> QED
          BY <1>2, <4>1, <4>2 DEF FromStored, Stored, Missing
      <3> QED
        BY <2>2, <3>3, <3>4 DEF Alone
    <2> QED
      BY <2>5, <2>6
  <1> QED
    BY <1>7 DEF AccountsHold

LEMMA AccountsHoldInitially == Init => AccountsHold
  <1> SUFFICES ASSUME Init PROVE AccountsHold
    OBVIOUS
  <1>1. \A a \in Accounts : rows[a] = <<>>
    BY DEF Init
  <1>2. DOMAIN <<>> = {} /\ Len(<<>>) = 0
    OBVIOUS
  <1>3. \A s \in Sessions : session[s].done = <<>>
    BY DEF Init, Idle
  <1> QED
    BY <1>1, <1>2, <1>3 DEF AccountsHold, Balanced, Alone, Pending

\* Only looking up and committing touch rows and updates.
LEMMA QuietSteps ==
    ASSUME Inv, NEW s \in Sessions,
           \/ \E l \in Leases : Rent(l)
           \/ \E l \in Leases : \E caller : BeginLease(s, l, caller)
           \/ \E d \in Developers, amount \in WithdrawAmounts : BeginWithdrawal(s, d, amount)
           \/ \E t \in Tasks : BeginTask(s, t)
           \/ RequestFails(s) \/ WorkerDies(s)
    PROVE  /\ rows' = rows /\ credits' = credits /\ contested \subseteq contested'
           /\ \A v \in Sessions : v # s => session'[v] = session[v]
           /\ session'[s].done = session[s].done \/ session'[s].done = <<>>
  <1>1. session \in [Sessions -> SessionRow] /\ session[s] \in SessionRow
    BY DEF Inv, SessionsHold
  <1>2. CASE \E l \in Leases : Rent(l)
    BY <1>2 DEF Rent
  <1>3. CASE \E l \in Leases : \E caller : BeginLease(s, l, caller)
    BY <1>1, <1>3 DEF BeginLease
  <1>4. CASE \E d \in Developers, amount \in WithdrawAmounts : BeginWithdrawal(s, d, amount)
    BY <1>1, <1>4 DEF BeginWithdrawal
  <1>5. CASE \E t \in Tasks : BeginTask(s, t)
    <2>1. PICK t \in Tasks : BeginTask(s, t)
      BY <1>5
    <2> DEFINE new == [session[s] EXCEPT !.stage = "busy", !.ref = t, !.todo = Posting(t)]
    <2>2. session' = [session EXCEPT ![s] = new]
      BY <1>1, <2>1 DEF BeginTask
    <2>3. new.done = session[s].done
      BY <1>1 DEF SessionRow
    <2> HIDE DEF new
    <2>4. session'[s] = new /\ \A v \in Sessions : v # s => session'[v] = session[v]
      BY <1>1, <2>2
    <2> QED
      BY <2>1, <2>3, <2>4 DEF BeginTask
  <1>6. CASE RequestFails(s) \/ WorkerDies(s)
    BY <1>1, <1>6 DEF RequestFails, WorkerDies, RollBack, Idle
  <1> QED
    BY <1>2, <1>3, <1>4, <1>5, <1>6

LEMMA KeptHasNoneLeft == ASSUME NEW s \in Sessions PROVE Kept(s).done = <<>>
  BY DEF Kept, Idle

LEMMA AccountsAreKept == Inv /\ AccountsHold /\ [Next]_vars => AccountsHold'
  <1> SUFFICES ASSUME Inv, AccountsHold, [Next]_vars PROVE AccountsHold'
    OBVIOUS
  <1>1. ASSUME NEW l \in Leases, Rent(l) PROVE AccountsHold'
    BY <1>1, UntouchedAccountsHold DEF Rent
  <1>2. ASSUME NEW s \in Requests, RequestStep(s) PROVE AccountsHold'
    BY <1>2, QuietSteps, UntouchedAccountsHold DEF RequestStep, Sessions
  <1>3. ASSUME NEW s \in Workers, WorkerStep(s) PROVE AccountsHold'
    <2>1. CASE WorkerRaises(s)
      BY <2>1, KeptHasNoneLeft, WrittenAccountsHold DEF WorkerRaises, Sessions
    <2>2. CASE ~WorkerRaises(s)
      BY <1>3, <2>2, QuietSteps, UntouchedAccountsHold DEF WorkerStep, Sessions
    <2> QED
      BY <2>1, <2>2
  <1>4. ASSUME NEW s \in Sessions, LookUp(s) PROVE AccountsHold'
    BY <1>4, LookUpKeepsAccounts
  <1>5. ASSUME NEW s \in Sessions, Commit(s) PROVE AccountsHold'
    BY <1>5, KeptHasNoneLeft, WrittenAccountsHold DEF Commit
  <1>6. CASE UNCHANGED vars
    BY <1>6, UntouchedAccountsHold DEF vars
  <1> QED
    BY <1>1, <1>2, <1>3, <1>4, <1>5, <1>6 DEF Next

(* An account no two sessions worked on at a time keeps one row whose        *)
(* balance is its credits less its debits, for any number of sessions and    *)
(* whatever its others are going through (ledger.py:22).                     *)
THEOREM UncontestedIsExact == Spec => []UncontestedBalance
  <1>1. Inv /\ AccountsHold /\ [Next]_vars => (Inv /\ AccountsHold)'
    BY InvIsKept, AccountsAreKept
  <1>2. AccountsHold => UncontestedBalance
    BY DEF AccountsHold, UncontestedBalance
  <1> QED
    BY <1>1, <1>2, InvHoldsInitially, AccountsHoldInitially, PTL DEF Spec

-----------------------------------------------------------------------------
(* Settlements: a session that settles works through the three accounts of   *)
(* its posting in their order, so that what it commits at the end is all of  *)
(* them, and what it has done when it fails is the beginning.                *)

InOrder(x) ==
    /\ x.stage = "idle" => x.ref = NoReference /\ x.todo = <<>> /\ x.done = <<>>
    /\ x.stage = "busy" /\ x.ref \in References =>
         /\ Len(x.done) + Len(x.todo) = 3
         /\ \A i \in 1..Len(x.done) : x.done[i].account = Posting(x.ref)[i].account
         /\ \A i \in 1..Len(x.todo) : x.todo[i] = Posting(x.ref)[Len(x.done) + i]

OrderHolds == \A s \in Sessions : InOrder(session[s])

LEMMA PostingAccounts ==
    ASSUME NEW r \in References
    PROVE  /\ Posting(r) \in Seq(Work) /\ Len(Posting(r)) = 3
           /\ Posting(r)[1].account = OwnerOf[r]
           /\ Posting(r)[2].account = PoolOf(r)
           /\ Posting(r)[3].account = "DAO_TREASURY"
  <1>1. Posting(r) \in Seq(Work)
    BY PostingIsTyped
  <1> QED
    BY <1>1 DEF Posting

LEMMA IdleIsInOrder ==
    /\ InOrder(Idle)
    /\ \A s \in Sessions : InOrder(Kept(s)) /\ Kept(s).ref = NoReference
  BY DEF InOrder, Idle, Kept

\* A session that begins has everything to do, one that looked an account up has done
\* one posting more.
LEMMA BeginsInOrder ==
    ASSUME NEW x, NEW r \in References \cup {NoReference}, x.stage = "busy", x.ref = r,
           r \in References => x.todo = Posting(r) /\ x.done = <<>>
    PROVE  InOrder(x)
  <1> SUFFICES ASSUME r \in References
               PROVE  /\ Len(x.done) + Len(x.todo) = 3
                      /\ \A i \in 1..Len(x.done) : x.done[i].account = Posting(r)[i].account
                      /\ \A i \in 1..Len(x.todo) : x.todo[i] = Posting(r)[Len(x.done) + i]
    BY DEF InOrder
  <1>1. x.todo = Posting(r) /\ Len(x.todo) = 3 /\ Len(x.done) = 0
    BY PostingAccounts
  <1> QED
    BY <1>1

LEMMA TailShifts ==
    ASSUME NEW S, NEW q \in Seq(S), q # <<>>
    PROVE  /\ Len(Tail(q)) = Len(q) - 1
           /\ \A i \in 1..(Len(q) - 1) : Tail(q)[i] = q[i + 1]
  OBVIOUS

LEMMA GoesOnInOrder ==
    ASSUME NEW x \in SessionRow, InOrder(x), x.stage = "busy", x.todo # <<>>,
           NEW item \in Item, item.account = Head(x.todo).account,
           NEW y \in SessionRow, y.stage = x.stage, y.ref = x.ref,
           y.todo = Tail(x.todo), y.done = Append(x.done, item)
    PROVE  InOrder(y)
  <1> SUFFICES ASSUME x.ref \in References
               PROVE  /\ Len(y.done) + Len(y.todo) = 3
                      /\ \A i \in 1..Len(y.done) : y.done[i].account = Posting(x.ref)[i].account
                      /\ \A i \in 1..Len(y.todo) : y.todo[i] = Posting(x.ref)[Len(y.done) + i]
    BY DEF InOrder
  <1> DEFINE done == x.done
             todo == x.todo
             n == Len(done)
             m == Len(todo)
             p == Posting(x.ref)
  <1>1. done \in Seq(Item) /\ todo \in Seq(Work) /\ n \in Nat /\ m \in Nat
    BY DEF SessionRow
  <1>2. /\ n + m = 3
        /\ \A i \in 1..n : done[i].account = p[i].account
        /\ \A i \in 1..m : todo[i] = p[n + i]
    BY DEF InOrder
  <1>3. y.todo = Tail(todo) /\ y.done = Append(done, item) /\ todo # <<>>
        /\ item.account = Head(todo).account
    OBVIOUS
  <1> HIDE DEF done, todo, p
  <1>4. m >= 1 /\ Head(todo) = todo[1]
    BY <1>1, <1>3, EmptySeq
  <1>5. Len(y.todo) = m - 1 /\ \A i \in 1..(m - 1) : y.todo[i] = todo[i + 1]
    BY <1>1, <1>3, TailShifts
  <1>6. /\ Len(y.done) = n + 1
        /\ \A i \in 1..n : y.done[i] = done[i]
        /\ y.done[n + 1] = item
    BY <1>1, <1>3
  <1>7. item.account = p[n + 1].account
    BY <1>1, <1>2, <1>3, <1>4
  <1> HIDE DEF n, m
  <1>8. \A i \in 1..Len(y.done) : y.done[i].account = p[i].account
    <2> SUFFICES ASSUME NEW i \in 1..(n + 1) PROVE y.done[i].account = p[i].account
      BY <1>6
    <2>1. i \in 1..n \/ i = n + 1
      BY <1>1
    <2> QED
      BY <1>2, <1>6, <1>7, <2>1
  <1>9. \A i \in 1..Len(y.todo) : y.todo[i] = p[Len(y.done) + i]
    <2> SUFFICES ASSUME NEW i \in 1..(m - 1) PROVE y.todo[i] = p[n + 1 + i]
      BY <1>5, <1>6
    <2>1. i + 1 \in 1..m /\ n + (i + 1) = n + 1 + i
      BY <1>1
    <2>2. todo[i + 1] = p[n + (i + 1)]
      BY <1>2, <2>1
    <2> QED
      BY <1>5, <2>1, <2>2
  <1>10. Len(y.done) + Len(y.todo) = 3
    <2>1. n \in Nat /\ m \in Nat /\ n + m = 3
      BY <1>1, <1>2
    <2>2. (n + 1) + (m - 1) = 3
      BY <2>1
    <2>3. Len(y.done) = n + 1 /\ Len(y.todo) = m - 1
      BY <1>5, <1>6
    <2> QED
      BY <2>2, <2>3, Zenon
  <1> QED
    BY <1>8, <1>9, <1>10 DEF p

\* What a look-up makes of its session.
LEMMA LookUpGoesOn ==
    ASSUME Inv, NEW s \in Sessions, LookUp(s)
    PROVE  \E item \in Item :
             /\ item.account = Head(session[s].todo).account
             /\ session'[s] \in SessionRow
             /\ session'[s].stage = session[s].stage /\ session'[s].ref = session[s].ref
             /\ session'[s].todo = Tail(session[s].todo)
             /\ session'[s].done = Append(session[s].done, item)
  <1> DEFINE old == session[s]
             next == Head(old.todo)
             a == next.account
  <1>1. PICK seen \in Balances(s, a) :
            session' = [session EXCEPT
                 ![s].todo = Tail(@),
                 ![s].done = Append(@, [account |-> a, fresh |-> Missing(a),
                                        delta |-> next.delta, after |-> seen + next.delta])]
    BY DEF LookUp
  <1> DEFINE item == [account |-> a, fresh |-> Missing(a),
                      delta |-> next.delta, after |-> seen + next.delta]
             new == [old EXCEPT !.todo = Tail(@), !.done = Append(@, item)]
  <1>2. old \in SessionRow /\ session \in [Sessions -> SessionRow]
    BY DEF Inv, SessionsHold
  <1>3. session'[s] \in SessionRow
    BY LookUpKeeps DEF Inv, SessionsHold
  <1> HIDE DEF item, next, a
  <1>4. session'[s] = new
    BY <1>1, <1>2 DEF item, next, a
  <1>5. /\ new.stage = old.stage /\ new.ref = old.ref
        /\ new.todo = Tail(old.todo) /\ new.done = Append(old.done, item)
    <2> HIDE DEF old
    <2> QED
      BY <1>2 DEF SessionRow
  <1>6. item.account = a
    BY DEF item
  <1>7. item \in Item
    <2> HIDE DEF new
    <2> DEFINE longer == Append(old.done, item)
    <2>1. new.done \in Seq(Item) /\ old.done \in Seq(Item)
      BY <1>2, <1>3, <1>4 DEF SessionRow
    <2>2. longer \in Seq(Item)
      BY <1>5, <2>1
    <2>3. Len(old.done) \in Nat /\ DOMAIN old.done = 1..Len(old.done)
      BY <2>1, LenProperties
    <2>4. Len(longer) = Len(old.done) + 1 /\ longer[Len(old.done) + 1] = item
      <3>1. old.done \in Seq(Item \cup {item}) /\ item \in Item \cup {item}
        BY <2>1
      <3> QED
        BY <3>1, AppendProperties
    <2> HIDE DEF longer
    <2>5. Len(old.done) + 1 \in 1..Len(longer)
      BY <2>3, <2>4
    <2> QED
      BY <2>2, <2>4, <2>5, ElementOfSeq
  <1> HIDE DEF new
  <1> WITNESS item \in Item
  <1> QED
    BY <1>3, <1>4, <1>5, <1>6 DEF next, a

LEMMA OrderIsKept == Inv /\ OrderHolds /\ [Next]_vars => OrderHolds'
  <1> SUFFICES ASSUME Inv, OrderHolds, [Next]_vars PROVE OrderHolds'
    OBVIOUS
  <1> USE IdleIsInOrder
  <1>1. session \in [Sessions -> SessionRow] /\ NoReference \notin References
    BY LedgerAssumption DEF Inv, SessionsHold
  <1>2. ASSUME NEW s \in Sessions, InOrder(session'[s]),
               \A v \in Sessions : v # s => session'[v] = session[v]
        PROVE  OrderHolds'
    <2> SUFFICES ASSUME NEW v \in Sessions PROVE InOrder(session'[v])
      BY DEF OrderHolds, InOrder
    <2>1. CASE v = s
      BY <1>2, <2>1
    <2>2. CASE v # s
      BY <1>2, <2>2 DEF OrderHolds
    <2> QED
      BY <2>1, <2>2
  <1>3. ASSUME NEW s \in Sessions, NEW l \in Leases, NEW caller, BeginLease(s, l, caller)
        PROVE  OrderHolds'
    <2> DEFINE new == [stage |-> "busy", ref |-> l, todo |-> Posting(l), done |-> <<>>,
                       loaded |-> Loaded(caller)]
    <2>1. session' = [session EXCEPT ![s] = new]
      BY <1>3 DEF BeginLease
    <2>2. new.stage = "busy" /\ new.ref = l /\ new.todo = Posting(l) /\ new.done = <<>>
      OBVIOUS
    <2> HIDE DEF new
    <2>3. l \in References \cup {NoReference}
      BY DEF References
    <2>4. InOrder(new)
      BY <2>2, <2>3, BeginsInOrder
    <2> QED
      BY <1>1, <1>2, <2>1, <2>4
  <1>4. ASSUME NEW s \in Sessions, NEW d \in Developers, NEW amount \in WithdrawAmounts,
               BeginWithdrawal(s, d, amount)
        PROVE  OrderHolds'
    <2>1. session'[s].stage = "busy" /\ session'[s].ref = NoReference
      BY <1>1, <1>4 DEF BeginWithdrawal
    <2>2. \A v \in Sessions : v # s => session'[v] = session[v]
      BY <1>1, <1>4 DEF BeginWithdrawal
    <2>3. InOrder(session'[s])
      BY <1>1, <2>1, BeginsInOrder
    <2> QED
      BY <1>2, <2>2, <2>3
  <1>5. ASSUME NEW s \in Sessions, NEW t \in Tasks, BeginTask(s, t)
        PROVE  OrderHolds'
    <2> DEFINE new == [session[s] EXCEPT !.stage = "busy", !.ref = t, !.todo = Posting(t)]
    <2>1. session' = [session EXCEPT ![s] = new]
      BY <1>1, <1>5 DEF BeginTask
    <2>2. session[s].done = <<>>
      BY <1>5 DEF BeginTask, OrderHolds, InOrder
    <2>3. new.stage = "busy" /\ new.ref = t /\ new.todo = Posting(t) /\ new.done = <<>>
      BY <1>1, <2>2 DEF SessionRow
    <2> HIDE DEF new
    <2>4. t \in References \cup {NoReference}
      BY DEF References
    <2>5. InOrder(new)
      BY <2>3, <2>4, BeginsInOrder
    <2> QED
      BY <1>1, <1>2, <2>1, <2>5
  <1>6. ASSUME NEW s \in Sessions, LookUp(s) PROVE OrderHolds'
    <2>1. PICK item \in Item :
             /\ item.account = Head(session[s].todo).account
             /\ session'[s] \in SessionRow
             /\ session'[s].stage = session[s].stage /\ session'[s].ref = session[s].ref
             /\ session'[s].todo = Tail(session[s].todo)
             /\ session'[s].done = Append(session[s].done, item)
      BY <1>6, LookUpGoesOn
    <2>2. session[s] \in SessionRow /\ InOrder(session[s]) /\ session[s].stage = "busy"
          /\ session[s].todo # <<>>
      BY <1>1, <1>6 DEF OrderHolds, LookUp
    <2>3. InOrder(session'[s])
      BY <2>1, <2>2, GoesOnInOrder
    <2>4. \A v \in Sessions : v # s => session'[v] = session[v]
      BY <1>1, <1>6 DEF LookUp
    <2> QED
      BY <1>2, <2>3, <2>4
  <1>7. ASSUME NEW s \in Sessions, Commit(s) \/ WorkerRaises(s) PROVE OrderHolds'
    <2>1. session' = [session EXCEPT ![s] = Kept(s)]
      BY <1>7 DEF Commit, WorkerRaises
    <2> QED
      BY <1>1, <1>2, <2>1
  <1>8. ASSUME NEW s \in Sessions, RequestFails(s) \/ WorkerDies(s) PROVE OrderHolds'
    <2>1. session' = [session EXCEPT ![s] = Idle]
      BY <1>8 DEF RequestFails, WorkerDies
    <2> QED
      BY <1>1, <1>2, <2>1
  <1>9. CASE UNCHANGED session
    BY <1>9 DEF OrderHolds
  <1>10. ASSUME NEW l \in Leases, Rent(l) PROVE OrderHolds'
    BY <1>9, <1>10 DEF Rent
  <1>11. ASSUME NEW s \in Requests, RequestStep(s) PROVE OrderHolds'
    BY <1>3, <1>4, <1>8, <1>11 DEF RequestStep, Sessions
  <1>12. ASSUME NEW s \in Workers, WorkerStep(s) PROVE OrderHolds'
    BY <1>5, <1>7, <1>8, <1>12 DEF WorkerStep, Sessions
  <1> QED
    BY <1>6, <1>7, <1>9, <1>10, <1>11, <1>12 DEF Next, vars

\* A settlement that commits has an update of each of its three accounts, one that
\* raises is at one of them.
LEMMA AllIsCommitted ==
    ASSUME Inv, OrderHolds, NEW s \in Sessions, NEW r \in References, session[s].ref = r,
           session[s].stage = "busy", session[s].todo = <<>>
    PROVE  /\ Pending(s, OwnerOf[r]) /\ Pending(s, PoolOf(r)) /\ Pending(s, "DAO_TREASURY")
  <1> DEFINE done == session[s].done
  <1>1. done \in Seq(Item) /\ DOMAIN done = 1..Len(done) /\ Len(done) \in Nat
    BY LenProperties DEF Inv, SessionsHold, SessionRow
  <1>2. /\ Len(done) + Len(session[s].todo) = 3
        /\ \A i \in 1..Len(done) : done[i].account = Posting(r)[i].account
    BY DEF OrderHolds, InOrder
  <1>3. Len(session[s].todo) = 0
    OBVIOUS
  <1> DEFINE n == Len(done)
  <1>4. n = 3
    BY <1>1, <1>2, <1>3
  <1>5. \A i \in 1..3 : i \in DOMAIN done /\ done[i].account = Posting(r)[i].account
    BY <1>1, <1>2, <1>4
  <1> HIDE DEF done
  <1>6. 1 \in 1..3 /\ 2 \in 1..3 /\ 3 \in 1..3
    OBVIOUS
  <1> QED
    BY <1>5, <1>6, PostingAccounts DEF Pending, done

LEMMA RaisesAtItsAccount ==
    ASSUME Inv, OrderHolds, NEW s \in Sessions, NEW r \in References, session[s].ref = r,
           session[s].stage = "busy", session[s].todo # <<>>
    PROVE  Head(session[s].todo).account \in {OwnerOf[r], PoolOf(r), "DAO_TREASURY"}
  <1> DEFINE todo == session[s].todo
             n == Len(session[s].done)
             m == Len(todo)
  <1>1. todo \in Seq(Work) /\ n \in Nat /\ m \in Nat /\ todo # <<>>
    BY LenProperties DEF Inv, SessionsHold, SessionRow
  <1>2. n + m = 3 /\ \A i \in 1..m : todo[i] = Posting(r)[n + i]
    BY DEF OrderHolds, InOrder
  <1>3. Head(todo) = todo[1] /\ m # 0
    BY <1>1, EmptySeq
  <1> HIDE DEF todo, n, m
  <1>4. 1 \in 1..m /\ n + 1 \in {1, 2, 3}
    BY <1>1, <1>2, <1>3
  <1>5. todo[1] = Posting(r)[1] \/ todo[1] = Posting(r)[2] \/ todo[1] = Posting(r)[3]
    BY <1>2, <1>4
  <1> QED
    BY <1>3, <1>5, PostingAccounts DEF todo

LEMMA CreditsCount ==
    ASSUME Inv, NEW s \in Sessions, CountCredits(s), NEW r \in References, NEW a \in Accounts
    PROVE  /\ credits'[r][a] \in Nat /\ credits[r][a] \in Nat
           /\ session[s].ref # r => credits'[r][a] = credits[r][a]
           /\ session[s].ref = r /\ Pending(s, a) => credits'[r][a] = credits[r][a] + 1
  BY DEF Inv, CountsHold, CountCredits

-----------------------------------------------------------------------------
(* Leases: whoever settles one found it unsettled, and is the only one to,   *)
(* or the lease is contested.                                                *)

OneSettles(l) ==
    l \notin contested =>
      \A s \in Sessions : session[s].ref = l =>
         /\ credits[l]["DAO_TREASURY"] = 0
         /\ \A t \in Sessions : session[t].ref = l => t = s

LeasesHold == \A l \in Leases : LeaseBooked(l) /\ OneSettles(l)

\* Steps that settle nothing and begin no settlement.
LEMMA UnsettledLeasesHold ==
    ASSUME LeasesHold, contested \subseteq contested',
           \A l \in Leases : /\ credits'[l] = credits[l]
                             /\ lease'[l] = "SETTLED" <=> lease[l] = "SETTLED",
           \A v \in Sessions : session'[v].ref \in Leases => session'[v].ref = session[v].ref
    PROVE  LeasesHold'
  <1> SUFFICES ASSUME NEW l \in Leases PROVE LeaseBooked(l)' /\ OneSettles(l)'
    BY DEF LeasesHold
  <1>1. LeaseBooked(l) /\ OneSettles(l)
    BY DEF LeasesHold
  <1>2. LeaseBooked(l)'
    BY <1>1 DEF LeaseBooked, LeaseAccounts
  <1>3. OneSettles(l)'
    BY <1>1 DEF OneSettles
  <1> QED
    BY <1>2, <1>3

LEMMA BeginLeaseKeepsLeases ==
    ASSUME Inv, LeasesHold, NEW s \in Sessions, NEW l \in Leases, NEW caller,
           BeginLease(s, l, caller)
    PROVE  LeasesHold'
  <1>1. /\ UNCHANGED <<credits, lease>> /\ lease[l] = "ESCROW_LOCKED"
        /\ contested' = contested \cup
              (IF \E t \in Sessions : session[t].ref = l THEN {l} ELSE {})
        /\ session'[s].ref = l /\ \A v \in Sessions : v # s => session'[v] = session[v]
    BY DEF BeginLease, MaySettle, Inv, SessionsHold
  <1> SUFFICES ASSUME NEW k \in Leases PROVE LeaseBooked(k)' /\ OneSettles(k)'
    BY DEF LeasesHold
  <1>2. LeaseBooked(k) /\ OneSettles(k) /\ LeaseBooked(l)
    BY DEF LeasesHold
  <1>3. LeaseBooked(k)'
    BY <1>1, <1>2 DEF LeaseBooked, LeaseAccounts
  <1>4. CASE k # l
    BY <1>1, <1>2, <1>3, <1>4 DEF OneSettles
  <1>5. CASE k = l
    <2>1. credits[l]["DAO_TREASURY"] \in Nat
      BY DEF Inv, CountsHold, Accounts, Pools, References
    <2>2. credits[l]["DAO_TREASURY"] = 0
      BY <1>1, <1>2, <2>1 DEF LeaseBooked
    <2>3. l \notin contested' => \A t \in Sessions : session[t].ref # l
      BY <1>1
    <2>4. OneSettles(k)'
      BY <1>1, <1>5, <2>2, <2>3 DEF OneSettles
    <2> QED
      BY <1>3, <2>4
  <1> QED
    BY <1>4, <1>5

LEMMA CommitKeepsLeases ==
    ASSUME Inv, OrderHolds, LeasesHold, NEW s \in Sessions, Commit(s)
    PROVE  LeasesHold'
  <1>1. /\ CountCredits(s) /\ session[s].stage = "busy" /\ session[s].todo = <<>>
        /\ lease' = LeaseAfter(s) /\ contested' = contested
        /\ session'[s].ref = NoReference
        /\ \A v \in Sessions : v # s => session'[v] = session[v]
    BY IdleIsInOrder DEF Commit, Inv, SessionsHold
  <1> SUFFICES ASSUME NEW l \in Leases PROVE LeaseBooked(l)' /\ OneSettles(l)'
    BY DEF LeasesHold
  <1>2. LeaseBooked(l) /\ OneSettles(l)
    BY DEF LeasesHold
  <1>3. l \in References /\ l # NoReference /\ l \notin Tasks
    BY LedgerAssumption DEF References
  <1>4. LeaseAccounts(l) \subseteq Accounts /\ "DAO_TREASURY" \in LeaseAccounts(l)
    BY <1>3, LedgerAssumption DEF LeaseAccounts, Accounts, Pools
  <1>5. CASE session[s].ref = l
    <2>1. \A a \in LeaseAccounts(l) : Pending(s, a)
      BY <1>1, <1>3, <1>5, AllIsCommitted DEF LeaseAccounts, PoolOf
    <2>2. \A a \in LeaseAccounts(l) :
             credits'[l][a] = credits[l][a] + 1 /\ credits[l][a] \in Nat
      BY <1>1, <1>3, <1>4, <1>5, <2>1, CreditsCount
    <2>3. lease'[l] = "SETTLED"
      BY <1>1, <1>5 DEF LeaseAfter
    <2>4. l \notin contested => credits[l]["DAO_TREASURY"] = 0
      BY <1>2, <1>5 DEF OneSettles
    <2>5. \A a, b \in LeaseAccounts(l) : credits'[l][a] = credits'[l][b]
      BY <1>2, <2>2 DEF LeaseBooked
    <2>6. credits'[l]["DAO_TREASURY"] > 0
      BY <1>4, <2>2
    <2>7. l \notin contested' => credits'[l]["DAO_TREASURY"] <= 1
      BY <1>1, <1>4, <2>2, <2>4
    <2>8. LeaseBooked(l)'
      BY <2>3, <2>5, <2>6, <2>7 DEF LeaseBooked, LeaseAccounts
    <2>9. l \notin contested' => \A v \in Sessions : session'[v].ref # l
      BY <1>1, <1>2, <1>3, <1>5 DEF OneSettles
    <2> QED
      BY <2>8, <2>9 DEF OneSettles
  <1>6. CASE session[s].ref # l
    <2>1. \A a \in LeaseAccounts(l) : credits'[l][a] = credits[l][a]
      BY <1>1, <1>3, <1>4, <1>6, CreditsCount
    <2>2. lease'[l] = lease[l]
      BY <1>1, <1>6 DEF LeaseAfter
    <2>3. LeaseBooked(l)'
      BY <1>1, <1>2, <1>4, <2>1, <2>2 DEF LeaseBooked, LeaseAccounts
    <2>4. OneSettles(l)'
      BY <1>1, <1>2, <1>3, <1>4, <2>1 DEF OneSettles
    <2> QED
      BY <2>3, <2>4
  <1> QED
    BY <1>5, <1>6

-----------------------------------------------------------------------------
(* Tasks: as long as no account of a task has been created twice, none of    *)
(* its attempts but the last has committed anything.                         *)

TasksHold == \A t \in Tasks : TaskBooked(t)

\* Steps that finalise nothing; an account that has two rows keeps them.
LEMMA OtherTasksHold ==
    ASSUME NEW t \in Tasks, TaskBooked(t), rows \in SomeRows, rows' \in SomeRows,
           Grown(rows, rows'), \A a \in TaskAccounts(t) : credits'[t][a] = credits[t][a],
           attempts'[t] = MaxAttempts + 1 <=> attempts[t] = MaxAttempts + 1
    PROVE  TaskBooked(t)'
  <1>1. TaskAccounts(t) \subseteq Accounts
    BY LedgerAssumption DEF TaskAccounts, Accounts, Pools, References
  <1>2. \A a \in TaskAccounts(t) : Ambiguous(a) => Ambiguous(a)'
    <2> SUFFICES ASSUME NEW a \in TaskAccounts(t), Ambiguous(a) PROVE Len(rows'[a]) > 1
      BY DEF Ambiguous
    <2> DEFINE was == Len(rows[a])
               is == Len(rows'[a])
    <2>1. was \in Nat /\ is \in Nat
      BY <1>1, LenProperties DEF SomeRows
    <2>2. was > 1 /\ is >= was
      BY <1>1 DEF Ambiguous, Grown
    <2> HIDE DEF was, is
    <2>3. is > 1
      BY <2>1, <2>2
    <2> QED
      BY <2>3 DEF is
  <1> QED
    BY <1>2 DEF TaskBooked, TaskAccounts, Ambiguous

LEMMA WrittenTasksHold ==
    ASSUME Inv, OrderHolds, TasksHold, NEW s \in Sessions, Commit(s) \/ WorkerRaises(s)
    PROVE  TasksHold'
  <1>1. /\ CountCredits(s) /\ WriteRows(s) /\ session[s].stage = "busy"
        /\ attempts \in [Tasks -> 0 .. MaxAttempts + 1] /\ MaxAttempts \in Nat
    BY LedgerAssumption DEF Commit, WorkerRaises, Inv, WorkHolds
  <1>2. rows \in SomeRows /\ rows' \in SomeRows /\ Grown(rows, rows')
    BY <1>1, CommitKeepsRows DEF Inv, RowsHold
  <1> SUFFICES ASSUME NEW t \in Tasks PROVE TaskBooked(t)'
    BY DEF TasksHold
  <1>3. TaskBooked(t) /\ t \in References
    BY DEF TasksHold, References
  <1>4. TaskAccounts(t) \subseteq Accounts
    BY LedgerAssumption DEF TaskAccounts, Accounts, Pools, References
  <1>5. CASE session[s].ref # t
    <2>1. \A a \in TaskAccounts(t) : credits'[t][a] = credits[t][a]
      BY <1>1, <1>3, <1>4, <1>5, CreditsCount
    <2>2. attempts'[t] = attempts[t]
      BY <1>1, <1>5 DEF Commit, WorkerRaises
    <2> QED
      BY <1>2, <1>3, <2>1, <2>2, OtherTasksHold
  <1>6. CASE session[s].ref = t
    <2>1. s \in Workers /\ attempts[t] < MaxAttempts
      BY <1>6 DEF Inv, WorkHolds, Sessions
    <2>2. attempts[t] # MaxAttempts + 1
      BY <1>1, <2>1
    <2>3. CASE Commit(s)
      <3>1. \A a \in TaskAccounts(t) : Pending(s, a)
        BY <1>1, <1>3, <1>6, <2>3, AllIsCommitted DEF TaskAccounts, PoolOf, Commit
      <3>2. \A a \in TaskAccounts(t) : credits'[t][a] = credits[t][a] + 1
        BY <1>1, <1>3, <1>4, <1>6, <3>1, CreditsCount
      <3>3. attempts'[t] = MaxAttempts + 1
        BY <1>6, <2>3 DEF Commit
      <3>4. \A a \in TaskAccounts(t) : Ambiguous(a) => Ambiguous(a)'
        <4> SUFFICES ASSUME NEW a \in TaskAccounts(t), Ambiguous(a) PROVE Len(rows'[a]) > 1
          BY DEF Ambiguous
        <4> DEFINE was == Len(rows[a])
                   is == Len(rows'[a])
        <4>1. was \in Nat /\ is \in Nat
          BY <1>2, <1>4, LenProperties DEF SomeRows
        <4>2. was > 1 /\ is >= was
          BY <1>2, <1>4 DEF Ambiguous, Grown
        <4> HIDE DEF was, is
        <4>3. is > 1
          BY <4>1, <4>2
        <4> QED
          BY <4>3 DEF is
      <3> SUFFICES ASSUME \A a \in TaskAccounts(t) : ~Ambiguous(a)
                   PROVE  \A a \in TaskAccounts(t) : credits'[t][a] = 1
        BY <3>3, <3>4 DEF TaskBooked, TaskAccounts, Ambiguous
      <3>5. \A a \in TaskAccounts(t) : credits[t][a] = 0
        BY <1>3, <2>2 DEF TaskBooked
      <3> QED
        BY <3>2, <3>5
    <2>4. CASE WorkerRaises(s)
      <3>0. Head(session[s].todo).account \in TaskAccounts(t)
        BY <1>1, <1>3, <1>6, <2>4, RaisesAtItsAccount DEF TaskAccounts, PoolOf, WorkerRaises
      <3>1. Len(rows[Head(session[s].todo).account]) > 1
        BY <2>4 DEF WorkerRaises, Ambiguous
      <3>2. PICK a \in TaskAccounts(t) : Len(rows[a]) > 1
        BY <3>0, <3>1
      <3> DEFINE was == Len(rows[a])
                 is == Len(rows'[a])
      <3>3. was \in Nat /\ is \in Nat
        BY <1>2, <1>4, <3>2, LenProperties DEF SomeRows
      <3>4. was > 1 /\ is >= was
        BY <1>2, <1>4, <3>2 DEF Grown
      <3> HIDE DEF was, is
      <3>5. is > 1
        BY <3>3, <3>4
      <3>6. Ambiguous(a)'
        BY <3>5 DEF is, Ambiguous
      <3> QED
        BY <3>2, <3>6 DEF TaskBooked, TaskAccounts, Ambiguous
    <2> QED
      BY <2>3, <2>4
  <1> QED
    BY <1>5, <1>6

\* The other steps finish no task: an attempt that fails leaves another one.
LEMMA QuietAttempts ==
    ASSUME Inv, rows' = rows, credits' = credits,
           \/ attempts' = attempts
           \/ \E s \in Workers : WorkerDies(s)
    PROVE  TasksHold => TasksHold'
  <1> SUFFICES ASSUME TasksHold, NEW t \in Tasks PROVE TaskBooked(t)'
    BY DEF TasksHold
  <1>1. TaskBooked(t) /\ rows \in SomeRows /\ attempts \in [Tasks -> 0 .. MaxAttempts + 1]
        /\ MaxAttempts \in Nat
    BY LedgerAssumption DEF TasksHold, Inv, RowsHold, WorkHolds
  <1>2. Grown(rows, rows')
    <2>1. \A a \in Accounts : rows[a] \in Seq(Row)
      BY <1>1 DEF SomeRows
    <2>2. ASSUME NEW a \in Accounts
          PROVE  Len(rows[a]) >= Len(rows[a])
                 /\ (Len(rows[a]) >= 1 => rows[a][1].credited >= rows[a][1].credited)
      <3>1. Len(rows[a]) \in Nat
        BY <2>1, LenProperties
      <3>2. ASSUME Len(rows[a]) >= 1 PROVE rows[a][1].credited \in Nat
        <4>1. 1 \in 1..Len(rows[a])
          BY <3>1, <3>2
        <4>2. rows[a][1] \in Row
          BY <2>1, <4>1, ElementOfSeq
        <4> QED
          BY <4>2 DEF Row
      <3> QED
        BY <3>1, <3>2
    <2> QED
      BY <2>2 DEF Grown
  <1>3. attempts'[t] = MaxAttempts + 1 <=> attempts[t] = MaxAttempts + 1
    <2>1. CASE attempts' = attempts
      BY <2>1
    <2>2. ASSUME NEW s \in Workers, WorkerDies(s) PROVE <1>3!1 <=> <1>3!2
      <3>1. /\ attempts' = [attempts EXCEPT ![session[s].ref] = @ + 1]
            /\ session[s].ref \in Tasks /\ attempts[session[s].ref] < MaxAttempts
        BY <2>2 DEF WorkerDies, Inv, WorkHolds
      <3> QED
        BY <1>1, <3>1
    <2> QED
      BY <2>1, <2>2
  <1> QED
    BY <1>1, <1>2, <1>3, OtherTasksHold

-----------------------------------------------------------------------------
SettlementsHold == LeasesHold /\ TasksHold
Books == Inv /\ OrderHolds /\ LeasesHold /\ TasksHold

LEMMA BooksInitially == Init => Books
  <1> SUFFICES ASSUME Init PROVE Books
    OBVIOUS
  <1>1. Inv
    BY InvHoldsInitially
  <1>2. \A s \in Sessions : session[s] = Idle
    BY DEF Init
  <1>3. OrderHolds
    BY <1>2, IdleIsInOrder DEF OrderHolds
  <1>4. NoReference \notin References
    BY LedgerAssumption
  <1>5. \A r \in References, a \in Accounts : credits[r][a] = 0
    BY DEF Init
  <1>6. ASSUME NEW l \in Leases PROVE LeaseBooked(l) /\ OneSettles(l)
    <2>1. \A a \in LeaseAccounts(l) : credits[l][a] = 0
      BY <1>5, LedgerAssumption DEF LeaseAccounts, References, Accounts, Pools
    <2>2. lease[l] = "NONE" /\ credits[l]["DAO_TREASURY"] = 0
      BY <2>1 DEF Init, LeaseAccounts
    <2>3. \A s \in Sessions : session[s].ref # l
      BY <1>2, <1>4, IdleIsTrusted DEF References
    <2> QED
      BY <2>1, <2>2, <2>3 DEF LeaseBooked, OneSettles
  <1>7. ASSUME NEW t \in Tasks PROVE TaskBooked(t)
    <2>1. \A a \in TaskAccounts(t) : credits[t][a] = 0
      BY <1>5, LedgerAssumption DEF TaskAccounts, References, Accounts, Pools
    <2>2. attempts[t] # MaxAttempts + 1
      BY LedgerAssumption DEF Init
    <2> QED
      BY <2>1, <2>2 DEF TaskBooked
  <1> QED
    BY <1>1, <1>3, <1>6, <1>7 DEF Books, LeasesHold, TasksHold

LEMMA BooksAreKept == Books /\ [Next]_vars => Books'
  <1> SUFFICES ASSUME Books, [Next]_vars PROVE Books'
    OBVIOUS
  <1>1. Inv /\ OrderHolds /\ LeasesHold /\ TasksHold /\ Inv' /\ OrderHolds'
    BY InvIsKept, OrderIsKept DEF Books
  <1>2. session \in [Sessions -> SessionRow] /\ NoReference \notin Leases /\ Leases \cap Tasks = {}
    BY <1>1, LedgerAssumption DEF Inv, SessionsHold, References
  <1>3. ASSUME NEW l \in Leases, Rent(l) PROVE SettlementsHold'
    <2>1. /\ UNCHANGED <<rows, attempts, session, credits, contested>>
          /\ \A k \in Leases : lease'[k] = "SETTLED" <=> lease[k] = "SETTLED"
      BY <1>1, <1>3 DEF Rent, Inv, CountsHold
    <2> QED
      BY <1>1, <2>1, UnsettledLeasesHold, QuietAttempts DEF SettlementsHold
  <1>4. ASSUME NEW s \in Requests, RequestStep(s) PROVE SettlementsHold'
    <2>1. s \in Sessions
      BY DEF Sessions
    <2>2. ASSUME NEW l \in Leases, NEW caller, BeginLease(s, l, caller)
          PROVE  SettlementsHold'
      <3>1. UNCHANGED <<rows, attempts, credits>>
        BY <2>2 DEF BeginLease
      <3> QED
        BY <1>1, <2>1, <2>2, <3>1, BeginLeaseKeepsLeases, QuietAttempts DEF SettlementsHold
    <2>3. ASSUME NEW d \in Developers, NEW amount \in WithdrawAmounts, BeginWithdrawal(s, d, amount)
          PROVE  SettlementsHold'
      <3>1. /\ UNCHANGED <<rows, attempts, credits, lease, contested>>
            /\ session'[s].ref = NoReference
            /\ \A v \in Sessions : v # s => session'[v] = session[v]
        BY <1>2, <2>1, <2>3 DEF BeginWithdrawal
      <3> QED
        BY <1>1, <1>2, <3>1, UnsettledLeasesHold, QuietAttempts DEF SettlementsHold
    <2>4. CASE RequestFails(s)
      <3>1. /\ UNCHANGED <<rows, attempts, credits, lease, contested>>
            /\ session'[s].ref = NoReference
            /\ \A v \in Sessions : v # s => session'[v] = session[v]
        BY <1>2, <2>1, <2>4, IdleIsTrusted DEF RequestFails, RollBack
      <3> QED
        BY <1>1, <1>2, <3>1, UnsettledLeasesHold, QuietAttempts DEF SettlementsHold
    <2> QED
      BY <1>4, <2>2, <2>3, <2>4 DEF RequestStep
  <1>5. ASSUME NEW s \in Workers, WorkerStep(s) PROVE SettlementsHold'
    <2>1. s \in Sessions
      BY DEF Sessions
    <2>2. ASSUME NEW t \in Tasks, BeginTask(s, t) PROVE SettlementsHold'
      <3>1. UNCHANGED <<rows, attempts, credits, lease, contested>>
        BY <2>2 DEF BeginTask
      <3>2. \A v \in Sessions : v # s => session'[v] = session[v]
        BY <1>2, <2>1, <2>2 DEF BeginTask
      <3>3. session'[s].ref = t
        BY <1>2, <2>1, <2>2 DEF BeginTask, SessionRow
      <3> QED
        BY <1>1, <1>2, <3>1, <3>2, <3>3, UnsettledLeasesHold, QuietAttempts DEF SettlementsHold
    <2>3. CASE WorkerRaises(s)
      <3>1. /\ CountCredits(s) /\ UNCHANGED <<lease, contested>>
            /\ session[s].ref \in Tasks /\ session'[s].ref = NoReference
            /\ \A v \in Sessions : v # s => session'[v] = session[v]
        BY <1>1, <1>2, <2>1, <2>3, IdleIsInOrder DEF WorkerRaises, Inv, WorkHolds
      <3>2. ASSUME NEW l \in Leases PROVE credits'[l] = credits[l]
        <4>1. l \in References /\ session[s].ref # l
          BY <1>2, <3>1 DEF References
        <4>2. \A a \in Accounts : credits'[l][a] = credits[l][a]
          BY <1>1, <2>1, <3>1, <4>1, CreditsCount
        <4>3. credits[l] \in [Accounts -> Nat] /\ credits'[l] \in [Accounts -> Nat]
          BY <1>1, <4>1 DEF Inv, CountsHold
        <4> QED
          BY <4>2, <4>3
      <3>3. LeasesHold'
        BY <1>1, <1>2, <3>1, <3>2, UnsettledLeasesHold
      <3> QED
        BY <1>1, <2>1, <2>3, <3>3, WrittenTasksHold DEF SettlementsHold
    <2>4. CASE WorkerDies(s)
      <3>1. /\ UNCHANGED <<rows, credits, lease, contested>>
            /\ session'[s].ref = NoReference
            /\ \A v \in Sessions : v # s => session'[v] = session[v]
        BY <1>2, <2>1, <2>4, IdleIsTrusted DEF WorkerDies, RollBack
      <3> QED
        BY <1>1, <1>2, <2>4, <3>1, UnsettledLeasesHold, QuietAttempts DEF SettlementsHold
    <2> QED
      BY <1>5, <2>2, <2>3, <2>4 DEF WorkerStep
  <1>6. ASSUME NEW s \in Sessions, LookUp(s) PROVE SettlementsHold'
    <2>1. UNCHANGED <<rows, attempts, credits, lease>> /\ contested \subseteq contested'
      BY <1>6 DEF LookUp
    <2>2. \A v \in Sessions : v # s => session'[v] = session[v]
      BY <1>2, <1>6 DEF LookUp
    <2>3. session'[s].ref = session[s].ref
      BY <1>1, <1>6, LookUpGoesOn
    <2> QED
      BY <1>1, <2>1, <2>2, <2>3, UnsettledLeasesHold, QuietAttempts DEF SettlementsHold
  <1>7. ASSUME NEW s \in Sessions, Commit(s) PROVE SettlementsHold'
    BY <1>1, <1>7, CommitKeepsLeases, WrittenTasksHold DEF SettlementsHold
  <1>8. ASSUME UNCHANGED vars PROVE SettlementsHold'
    BY <1>1, <1>8, UnsettledLeasesHold, QuietAttempts DEF SettlementsHold, vars
  <1>9. SettlementsHold'
    BY <1>3, <1>4, <1>5, <1>6, <1>7, <1>8 DEF Next
  <1> QED
    BY <1>1, <1>9 DEF Books, SettlementsHold

(* A lease is booked to its three accounts or to none, exactly when its row  *)
(* says settled, and once unless two confirmations overlapped; a task is     *)
(* booked once by the attempt that finalised it and never by one that        *)
(* failed, as long as no account of it was created twice.  For any number of *)
(* sessions, failures and retries (ledger.py:106).                           *)
THEOREM BooksAreWhole == Spec => []SettledIsBooked
  <1>1. Books => SettledIsBooked
    BY DEF Books, LeasesHold, TasksHold, SettledIsBooked
  <1> QED
    BY <1>1, BooksInitially, BooksAreKept, PTL DEF Spec
=============================================================================
