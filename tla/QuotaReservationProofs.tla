----------------------- MODULE QuotaReservationProofs -----------------------
(***************************************************************************)
(* Proofs about QuotaReservation: row locks exclude, an outcome is final,  *)
(* committed quota is metered, a pending reservation has a job, the two    *)
(* counters of the balance are what the reservations add up to, and the    *)
(* transactions implement the ledger.                                      *)
(***************************************************************************)
EXTENDS QuotaReservation, SetLemmas

-----------------------------------------------------------------------------
(* Types, as far as the reservations and the transactions go *)

ReservationRow ==
  [status: {"absent", "pending", "committed", "released", "expired"},
   requested: Nat, committed: Nat, expiresAt: Nat]

Shape ==
  /\ now \in Nat
  /\ granted \subseteq Grants
  /\ reservation \in [Keys -> ReservationRow]
  /\ event \in [Keys -> Nat]
  /\ job \in [Keys -> {"none", "queued", "done"}]
  /\ txn \in [Sessions -> Transaction \union {NoTxn}]

\* One session at most holds the entitlement, and one a reservation.  A session that
\* holds the entitlement is a repeated reserve that found its reservation pending and
\* due; nobody can have settled it since.
LockInv ==
  /\ \A s, o \in Sessions : HoldsEntitlement(s) /\ HoldsEntitlement(o) => s = o
  /\ \A s, o \in Sessions, k \in Keys :
       HoldsReservation(s, k) /\ HoldsReservation(o, k) => s = o
  /\ \A s \in Sessions : HoldsEntitlement(s) =>
       /\ reservation[txn[s].key].status = "pending"
       /\ reservation[txn[s].key].expiresAt <= txn[s].at

\* A pending reservation always has a job that will expire it.
PendingHasJob ==
  \A k \in Keys : reservation[k].status = "pending" => job[k] = "queued"

-----------------------------------------------------------------------------
(* The sums of the model *)

Quantities == [g \in Grants |-> Terms[g].quantity]

Active(gs, at) == {g \in gs : Terms[g].effectiveAt <= at /\ at < Terms[g].expiresAt}

LEMMA GrantsSum ==
  ASSUME NEW gs \in SUBSET Grants, NEW at
  PROVE  ActiveGranted(gs, at) = SumOver(Quantities, Active(gs, at))
<1> DEFINE A == Active(gs, at)
           Adds(h) == h = [s \in SUBSET A |-> IF s = {} THEN 0
                             ELSE Terms[CHOOSE g \in s : TRUE].quantity
                                    + h[s \ {CHOOSE g \in s : TRUE}]]
           Iter == CHOOSE h : Adds(h)
<1>1. A \subseteq Grants /\ IsFiniteSet(A) /\ \A g \in A : Quantities[g] \in Int
  BY ConstantsAssumption, FS_Subset DEF Active, Quantities
<1>2. \A s \in SUBSET A : s # {} =>
        Quantities[Chosen(s)] = Terms[CHOOSE g \in s : TRUE].quantity
  BY <1>1 DEF Quantities, Chosen
<1>3. \A h : IsSum(h, Quantities, A) => Adds(h)
  BY <1>2 DEF IsSum, Chosen
<1>4. \A h : Adds(h) => IsSum(h, Quantities, A)
  BY <1>2 DEF IsSum, Chosen
<1>5. ActiveGranted(gs, at) = Iter[A]
  BY DEF ActiveGranted, MapThenSumSet, MapThenFoldSet, Active
<1> HIDE DEF A, Adds
<1>6. \E h : IsSum(h, Quantities, A)
  BY <1>1, SumHas
<1>7. Adds(Iter)
  BY <1>3, <1>6
<1> QED
  BY <1>1, <1>4, <1>5, <1>7, SumIs DEF A

\* The active grants are a natural number, and more grants are no less.
LEMMA ActiveGrows ==
  ASSUME NEW gs \in SUBSET Grants, NEW more \in SUBSET Grants, gs \subseteq more, NEW at
  PROVE  /\ ActiveGranted(gs, at) \in Nat /\ ActiveGranted(more, at) \in Nat
         /\ ActiveGranted(gs, at) <= ActiveGranted(more, at)
<1>1. /\ IsFiniteSet(Active(more, at)) /\ Active(gs, at) \in SUBSET Active(more, at)
      /\ \A g \in Active(more, at) : Quantities[g] \in Nat
  BY ConstantsAssumption, FS_Subset DEF Active, Quantities
<1>2. /\ ActiveGranted(gs, at) = SumOver(Quantities, Active(gs, at))
      /\ ActiveGranted(more, at) = SumOver(Quantities, Active(more, at))
  BY GrantsSum
<1> QED
  BY <1>1, <1>2, SumGrows

Pending(row) == {k \in Keys : row[k].status = "pending"}

Settled(row) == {k \in Keys : row[k].status = "committed"}

RequestedOf(row) == [k \in Keys |-> row[k].requested]

CommittedOf(row) == [k \in Keys |-> row[k].committed]

\* What the balance should be, for any contents of the reservation table.
Balance(e, row) ==
  /\ e.reserved = SumOver(RequestedOf(row), Pending(row))
  /\ e.committed = SumOver(CommittedOf(row), Settled(row))

LEMMA PendingSum ==
  ASSUME reservation \in [Keys -> ReservationRow]
  PROVE  MapThenSumSet(LAMBDA k : reservation[k].requested,
                       {k \in Keys : reservation[k].status = "pending"})
           = SumOver(RequestedOf(reservation), Pending(reservation))
<1> DEFINE A == Pending(reservation)
           f == RequestedOf(reservation)
           Adds(h) == h = [s \in SUBSET A |-> IF s = {} THEN 0
                             ELSE reservation[CHOOSE k \in s : TRUE].requested
                                    + h[s \ {CHOOSE k \in s : TRUE}]]
           Iter == CHOOSE h : Adds(h)
<1>1. A \subseteq Keys /\ IsFiniteSet(A) /\ \A k \in A : f[k] \in Int
  BY ConstantsAssumption, FS_Subset DEF Pending, RequestedOf, ReservationRow
<1>2. \A s \in SUBSET A : s # {} =>
        f[Chosen(s)] = reservation[CHOOSE k \in s : TRUE].requested
  BY <1>1 DEF RequestedOf, Chosen
<1> HIDE DEF f
<1>3. \A h : IsSum(h, f, A) => Adds(h)
  BY <1>2 DEF IsSum, Chosen
<1>4. \A h : Adds(h) => IsSum(h, f, A)
  BY <1>2 DEF IsSum, Chosen
<1>5. MapThenSumSet(LAMBDA k : reservation[k].requested,
                    {k \in Keys : reservation[k].status = "pending"}) = Iter[A]
  BY DEF MapThenSumSet, MapThenFoldSet, Pending
<1> HIDE DEF A, Adds
<1>6. \E h : IsSum(h, f, A)
  BY <1>1, SumHas
<1>7. Adds(Iter)
  BY <1>3, <1>6
<1> QED
  BY <1>1, <1>4, <1>5, <1>7, SumIs DEF A, f

LEMMA CommittedSum ==
  ASSUME reservation \in [Keys -> ReservationRow]
  PROVE  MapThenSumSet(LAMBDA k : reservation[k].committed,
                       {k \in Keys : reservation[k].status = "committed"})
           = SumOver(CommittedOf(reservation), Settled(reservation))
<1> DEFINE A == Settled(reservation)
           f == CommittedOf(reservation)
           Adds(h) == h = [s \in SUBSET A |-> IF s = {} THEN 0
                             ELSE reservation[CHOOSE k \in s : TRUE].committed
                                    + h[s \ {CHOOSE k \in s : TRUE}]]
           Iter == CHOOSE h : Adds(h)
<1>1. A \subseteq Keys /\ IsFiniteSet(A) /\ \A k \in A : f[k] \in Int
  BY ConstantsAssumption, FS_Subset DEF Settled, CommittedOf, ReservationRow
<1>2. \A s \in SUBSET A : s # {} =>
        f[Chosen(s)] = reservation[CHOOSE k \in s : TRUE].committed
  BY <1>1 DEF CommittedOf, Chosen
<1> HIDE DEF f
<1>3. \A h : IsSum(h, f, A) => Adds(h)
  BY <1>2 DEF IsSum, Chosen
<1>4. \A h : Adds(h) => IsSum(h, f, A)
  BY <1>2 DEF IsSum, Chosen
<1>5. MapThenSumSet(LAMBDA k : reservation[k].committed,
                    {k \in Keys : reservation[k].status = "committed"}) = Iter[A]
  BY DEF MapThenSumSet, MapThenFoldSet, Settled
<1> HIDE DEF A, Adds
<1>6. \E h : IsSum(h, f, A)
  BY <1>1, SumHas
<1>7. Adds(Iter)
  BY <1>3, <1>6
<1> QED
  BY <1>1, <1>4, <1>5, <1>7, SumIs DEF A, f

\* The sums of the model are these.
LEMMA BalanceMeans == Shape => (BalanceIsExact <=> Balance(entitlement, reservation))
  BY PendingSum, CommittedSum DEF Shape, BalanceIsExact, Balance

LEMMA BalanceIsNatural ==
  ASSUME NEW row \in [Keys -> ReservationRow], NEW e, Balance(e, row)
  PROVE  e.reserved \in Nat /\ e.committed \in Nat
<1>1. /\ IsFiniteSet(Pending(row)) /\ \A k \in Pending(row) : RequestedOf(row)[k] \in Nat
      /\ IsFiniteSet(Settled(row)) /\ \A k \in Settled(row) : CommittedOf(row)[k] \in Nat
  BY ConstantsAssumption, FS_Subset
     DEF Pending, Settled, RequestedOf, CommittedOf, ReservationRow
<1> QED
  BY <1>1, SumIsNatural DEF Balance

LEMMA BalanceOfReserve ==
  ASSUME NEW row \in [Keys -> ReservationRow], NEW e, Balance(e, row), NEW k \in Keys,
         row[k].status = "absent", NEW r \in ReservationRow, r.status = "pending",
         NEW d, d.reserved = e.reserved + r.requested, d.committed = e.committed
  PROVE  Balance(d, [row EXCEPT ![k] = r])
<1> DEFINE new == [row EXCEPT ![k] = r]
<1>1. /\ Pending(new) = Pending(row) \union {k} /\ k \notin Pending(row)
      /\ Settled(new) = Settled(row) /\ k \notin Settled(row)
  BY DEF Pending, Settled
<1>2. /\ IsFiniteSet(Pending(row)) /\ IsFiniteSet(Settled(row))
      /\ RequestedOf(new)[k] = r.requested /\ RequestedOf(new)[k] \in Int
      /\ \A i \in Pending(row) :
           RequestedOf(row)[i] = RequestedOf(new)[i] /\ RequestedOf(row)[i] \in Int
      /\ \A i \in Settled(row) :
           CommittedOf(row)[i] = CommittedOf(new)[i] /\ CommittedOf(row)[i] \in Int
  BY <1>1, ConstantsAssumption, FS_Subset
     DEF Pending, Settled, RequestedOf, CommittedOf, ReservationRow
<1> HIDE DEF new
<1>3. SumOver(RequestedOf(new), Pending(new))
        = RequestedOf(new)[k] + SumOver(RequestedOf(new), Pending(new) \ {k})
  <2>1. IsFiniteSet(Pending(new)) /\ k \in Pending(new)
    BY <1>1, <1>2, FS_AddElement
  <2>2. \A i \in Pending(new) : RequestedOf(new)[i] \in Int
    BY <1>1, <1>2
  <2> QED
    BY <2>1, <2>2, SumTakes
<1>5. Pending(new) \ {k} = Pending(row)
  BY <1>1
<1>6. /\ SumOver(RequestedOf(row), Pending(row)) = SumOver(RequestedOf(new), Pending(row))
      /\ SumOver(RequestedOf(row), Pending(row)) \in Int
  BY <1>2, SumOfEqual
<1>4. SumOver(CommittedOf(new), Settled(new)) = SumOver(CommittedOf(row), Settled(row))
  BY <1>1, <1>2, SumOfEqual
<1>7. d.reserved = SumOver(RequestedOf(new), Pending(new))
  <2> DEFINE sum == SumOver(RequestedOf(row), Pending(row))
             one == RequestedOf(new)[k]
  <2>1. sum \in Int /\ one \in Int
    BY <1>2, <1>6
  <2>2. d.reserved = sum + one
    BY <1>2 DEF Balance
  <2>3. SumOver(RequestedOf(new), Pending(new)) = one + sum
    BY <1>3, <1>5, <1>6
  <2> HIDE DEF sum, one
  <2> QED
    BY <2>1, <2>2, <2>3
<1>8. d.committed = SumOver(CommittedOf(new), Settled(new))
  BY <1>4 DEF Balance
<1> QED
  BY <1>7, <1>8 DEF Balance, new

LEMMA BalanceOfReturn ==
  ASSUME NEW row \in [Keys -> ReservationRow], NEW e, Balance(e, row), NEW k \in Keys,
         row[k].status = "pending", NEW new \in [Keys -> ReservationRow],
         new[k].status # "pending", \A i \in Keys \ {k} : new[i] = row[i]
  PROVE  /\ e.reserved - row[k].requested = SumOver(RequestedOf(new), Pending(new))
         /\ row[k].requested \in Nat
<1>1. Pending(row) = Pending(new) \union {k} /\ k \notin Pending(new)
  BY DEF Pending
<1>2. IsFiniteSet(Pending(new))
  BY ConstantsAssumption, FS_Subset DEF Pending
<1>3. /\ RequestedOf(row)[k] = row[k].requested /\ row[k].requested \in Nat
      /\ RequestedOf(row)[k] \in Int
      /\ \A i \in Pending(new) :
           RequestedOf(new)[i] = RequestedOf(row)[i] /\ RequestedOf(new)[i] \in Int
  BY <1>1 DEF Pending, RequestedOf, ReservationRow
<1>4. SumOver(RequestedOf(row), Pending(row))
        = RequestedOf(row)[k] + SumOver(RequestedOf(row), Pending(row) \ {k})
  <2>1. IsFiniteSet(Pending(row)) /\ k \in Pending(row)
    BY <1>1, <1>2, FS_AddElement
  <2>2. \A i \in Pending(row) : RequestedOf(row)[i] \in Int
    BY <1>1, <1>3
  <2> QED
    BY <2>1, <2>2, SumTakes
<1>5. Pending(row) \ {k} = Pending(new)
  BY <1>1
<1>6. /\ SumOver(RequestedOf(new), Pending(new)) = SumOver(RequestedOf(row), Pending(new))
      /\ SumOver(RequestedOf(new), Pending(new)) \in Int
  BY <1>3, <1>2, SumOfEqual
<1> QED
  BY <1>3, <1>4, <1>5, <1>6 DEF Balance

LEMMA BalanceOfCommit ==
  ASSUME NEW row \in [Keys -> ReservationRow], NEW e, Balance(e, row), NEW k \in Keys,
         row[k].status = "pending", NEW r \in ReservationRow, r.status = "committed",
         NEW d, d.reserved = e.reserved - row[k].requested,
         d.committed = e.committed + r.committed
  PROVE  Balance(d, [row EXCEPT ![k] = r])
<1> DEFINE new == [row EXCEPT ![k] = r]
<1>1. Settled(new) = Settled(row) \union {k} /\ k \notin Settled(row)
  BY DEF Settled
<1>2. /\ IsFiniteSet(Settled(row))
      /\ CommittedOf(new)[k] = r.committed /\ CommittedOf(new)[k] \in Int
      /\ \A i \in Settled(row) :
           CommittedOf(row)[i] = CommittedOf(new)[i] /\ CommittedOf(row)[i] \in Int
  BY <1>1, ConstantsAssumption, FS_Subset DEF Settled, CommittedOf, ReservationRow
<1>3. e.reserved - row[k].requested = SumOver(RequestedOf(new), Pending(new))
  <2>1. /\ new \in [Keys -> ReservationRow] /\ new[k].status # "pending"
        /\ \A i \in Keys \ {k} : new[i] = row[i]
    OBVIOUS
  <2> HIDE DEF new
  <2> QED BY <2>1, BalanceOfReturn
<1> HIDE DEF new
<1>4. SumOver(CommittedOf(new), Settled(new))
        = CommittedOf(new)[k] + SumOver(CommittedOf(new), Settled(new) \ {k})
  <2>1. IsFiniteSet(Settled(new)) /\ k \in Settled(new)
    BY <1>1, <1>2, FS_AddElement
  <2>2. \A i \in Settled(new) : CommittedOf(new)[i] \in Int
    BY <1>1, <1>2
  <2> QED
    BY <2>1, <2>2, SumTakes
<1>5. Settled(new) \ {k} = Settled(row)
  BY <1>1
<1>6. /\ SumOver(CommittedOf(row), Settled(row)) = SumOver(CommittedOf(new), Settled(row))
      /\ SumOver(CommittedOf(row), Settled(row)) \in Int
  BY <1>2, SumOfEqual
<1>7. d.committed = SumOver(CommittedOf(new), Settled(new))
  <2> DEFINE sum == SumOver(CommittedOf(row), Settled(row))
             one == CommittedOf(new)[k]
  <2>1. sum \in Int /\ one \in Int
    BY <1>2, <1>6
  <2>2. d.committed = sum + one
    BY <1>2 DEF Balance
  <2>3. SumOver(CommittedOf(new), Settled(new)) = one + sum
    BY <1>4, <1>5, <1>6
  <2> HIDE DEF sum, one
  <2> QED
    BY <2>1, <2>2, <2>3
<1> QED
  BY <1>3, <1>7 DEF Balance, new

LEMMA BalanceOfEnd ==
  ASSUME NEW row \in [Keys -> ReservationRow], NEW e, Balance(e, row), NEW k \in Keys,
         row[k].status = "pending", NEW r \in ReservationRow,
         r.status \in {"released", "expired"},
         NEW d, d.reserved = e.reserved - row[k].requested, d.committed = e.committed
  PROVE  Balance(d, [row EXCEPT ![k] = r])
<1> DEFINE new == [row EXCEPT ![k] = r]
<1>1. Settled(new) = Settled(row)
  BY DEF Settled
<1>2. /\ IsFiniteSet(Settled(row))
      /\ \A i \in Settled(row) :
           CommittedOf(row)[i] = CommittedOf(new)[i] /\ CommittedOf(row)[i] \in Int
  BY <1>1, ConstantsAssumption, FS_Subset DEF Settled, CommittedOf, ReservationRow
<1>3. e.reserved - row[k].requested = SumOver(RequestedOf(new), Pending(new))
  <2>1. /\ new \in [Keys -> ReservationRow] /\ new[k].status # "pending"
        /\ \A i \in Keys \ {k} : new[i] = row[i]
    OBVIOUS
  <2> HIDE DEF new
  <2> QED BY <2>1, BalanceOfReturn
<1> HIDE DEF new
<1>4. SumOver(CommittedOf(new), Settled(new)) = SumOver(CommittedOf(row), Settled(row))
  BY <1>1, <1>2, SumOfEqual
<1> QED
  BY <1>3, <1>4 DEF Balance, new

\* What the ledger has in use is what the balance row says.
LEMMA InUseMeans ==
  ASSUME reservation \in [Keys -> ReservationRow], Balance(entitlement, reservation)
  PROVE  Ledger!InUse = entitlement.reserved + entitlement.committed
<1> DEFINE f == [k \in Keys |-> Ledger!Uses(reservation[k])]
           Adds(h) == h = [s \in SUBSET Keys |-> IF s = {} THEN 0
                             ELSE Ledger!Uses(reservation[CHOOSE k \in s : TRUE])
                                    + h[s \ {CHOOSE k \in s : TRUE}]]
           Iter == CHOOSE h : Adds(h)
           P == Pending(reservation)
           S == Settled(reservation)
<1>1. /\ \A k \in P : f[k] = RequestedOf(reservation)[k] /\ f[k] \in Int
      /\ \A k \in S : f[k] = CommittedOf(reservation)[k] /\ f[k] \in Int
      /\ \A k \in (Keys \ P) \ S : f[k] = 0
  BY DEF Ledger!Uses, Pending, Settled, RequestedOf, CommittedOf, ReservationRow
<1>2. /\ \A k \in Keys : f[k] \in Int
      /\ P \in SUBSET Keys /\ S \in SUBSET (Keys \ P)
  BY <1>1 DEF Pending, Settled
<1>3. \A s \in SUBSET Keys : s # {} =>
        f[Chosen(s)] = Ledger!Uses(reservation[CHOOSE k \in s : TRUE])
  BY DEF Chosen
<1>4. Ledger!InUse = Iter[Keys]
  BY DEF Ledger!InUse, Ledger!MapThenSumSet, Ledger!MapThenFoldSet
<1> HIDE DEF f, P, S
<1>5. \A h : IsSum(h, f, Keys) => Adds(h)
  BY <1>3 DEF IsSum, Chosen
<1>6. \A h : Adds(h) => IsSum(h, f, Keys)
  BY <1>3 DEF IsSum, Chosen
<1> HIDE DEF Adds
<1>7. \E h : IsSum(h, f, Keys)
  BY <1>2, ConstantsAssumption, SumHas
<1>8. Adds(Iter)
  BY <1>5, <1>7
<1>9. Ledger!InUse = SumOver(f, Keys)
  BY <1>2, <1>4, <1>6, <1>8, ConstantsAssumption, SumIs
<1>10. /\ IsFiniteSet(Keys) /\ IsFiniteSet(Keys \ P) /\ IsFiniteSet((Keys \ P) \ S)
       /\ IsFiniteSet(P) /\ IsFiniteSet(S)
  BY <1>2, ConstantsAssumption, FS_Subset
<1>11. /\ SumOver(f, Keys) = SumOver(f, P) + SumOver(f, Keys \ P)
       /\ SumOver(f, Keys \ P) = SumOver(f, S) + SumOver(f, (Keys \ P) \ S)
  BY <1>2, <1>10, SumSplits
<1>12. SumOver(f, (Keys \ P) \ S) = 0
  BY <1>1, <1>10, SumOfZeros
<1>13. /\ SumOver(f, P) = SumOver(RequestedOf(reservation), P) /\ SumOver(f, P) \in Int
       /\ SumOver(f, S) = SumOver(CommittedOf(reservation), S) /\ SumOver(f, S) \in Int
  BY <1>1, <1>10, SumOfEqual
<1> QED
  BY <1>9, <1>11, <1>12, <1>13 DEF Balance, P, S

-----------------------------------------------------------------------------
(* What one step can do to a reservation *)

Kept(k) ==
  /\ reservation'[k] = reservation[k] /\ event'[k] = event[k]
  /\ job'[k] = job[k] \/ reservation[k].status # "pending"

Reserved(k) ==
  /\ reservation[k].status = "absent" /\ reservation'[k].status = "pending"
  /\ event'[k] = 0 /\ job'[k] = "queued"

Charged(k) ==
  /\ reservation[k].status = "pending" /\ reservation'[k].status = "committed"
  /\ event'[k] = reservation'[k].committed

Ended(k) ==
  /\ reservation[k].status = "pending"
  /\ reservation'[k].status \in {"released", "expired"}
  /\ event'[k] = event[k]

KeyStep == \A k \in Keys : Kept(k) \/ Reserved(k) \/ Charged(k) \/ Ended(k)

-----------------------------------------------------------------------------
(* Updates of the records *)

LEMMA StepUpdate ==
  ASSUME NEW t \in Transaction, NEW step \in {"started", "locking", "entitlement", "reservation"}
  PROVE  /\ [t EXCEPT !.step = step] \in Transaction
         /\ [t EXCEPT !.step = step].step = step
         /\ [t EXCEPT !.step = step].key = t.key
         /\ [t EXCEPT !.step = step].at = t.at
  BY DEF Transaction

LEMMA SeenUpdate ==
  ASSUME NEW t \in Transaction, NEW sum \in Nat
  PROVE  [t EXCEPT !.seen = sum] \in Transaction
  BY DEF Transaction

LEMMA StatusUpdate ==
  ASSUME NEW r \in ReservationRow,
         NEW status \in {"absent", "pending", "committed", "released", "expired"}
  PROVE  /\ [r EXCEPT !.status = status] \in ReservationRow
         /\ [r EXCEPT !.status = status].status = status
  BY DEF ReservationRow

LEMMA CommitUpdate ==
  ASSUME NEW r \in ReservationRow, NEW quantity \in Nat
  PROVE  LET c == [r EXCEPT !.status = "committed", !.committed = quantity] IN
         c \in ReservationRow /\ c.status = "committed" /\ c.committed = quantity
  BY DEF ReservationRow

\* A session that waits for a lock is in a transaction on some reservation.
LEMMA TxnType ==
  ASSUME Shape, NEW s \in Sessions, txn[s] # NoTxn
  PROVE  txn[s] \in Transaction /\ txn[s].key \in Keys /\ txn[s].at \in Nat
  BY DEF Shape, Transaction

LEMMA FinishStep ==
  ASSUME Shape, NEW s \in Sessions, Finish(s)
  PROVE  /\ txn' \in [Sessions -> Transaction \union {NoTxn}]
         /\ txn'[s] = NoTxn
         /\ \A o \in Sessions \ {s} : txn'[o] = txn[o]
  BY DEF Shape, Finish

LEMMA MovesStep ==
  ASSUME Shape, NEW s \in Sessions, txn[s] # NoTxn,
         NEW step \in {"started", "locking", "entitlement", "reservation"},
         Moves(s, step)
  PROVE  /\ txn' \in [Sessions -> Transaction \union {NoTxn}]
         /\ txn'[s] \in Transaction /\ txn'[s].step = step
         /\ txn'[s].key = txn[s].key /\ txn'[s].at = txn[s].at
         /\ \A o \in Sessions \ {s} : txn'[o] = txn[o]
<1>1. txn[s] \in Transaction
  BY TxnType
<1>2. /\ [txn[s] EXCEPT !.step = step] \in Transaction
      /\ [txn[s] EXCEPT !.step = step].step = step
      /\ [txn[s] EXCEPT !.step = step].key = txn[s].key
      /\ [txn[s] EXCEPT !.step = step].at = txn[s].at
  BY <1>1, StepUpdate
<1>3. txn' = [txn EXCEPT ![s] = [txn[s] EXCEPT !.step = step]]
  BY DEF Moves
<1> QED
  BY <1>2, <1>3 DEF Shape

\* Locks survive a step of s after which s holds nothing, if it writes no reservation
\* that another session relies on.
LEMMA LocksKept ==
  ASSUME LockInv, NEW s \in Sessions,
         \A o \in Sessions \ {s} : txn'[o] = txn[o],
         txn'[s] = NoTxn \/ txn'[s].step \in {"started", "locking"},
         EntitlementFree \/ HoldsEntitlement(s) \/ reservation' = reservation
  PROVE  LockInv'
<1>1. \A o \in Sessions : HoldsEntitlement(o)' => o # s /\ HoldsEntitlement(o)
  BY DEF HoldsEntitlement
<1>2. \A o \in Sessions, k \in Keys :
        HoldsReservation(o, k)' => o # s /\ HoldsReservation(o, k)
  BY DEF HoldsReservation
<1>3. \A o \in Sessions : HoldsEntitlement(o)' => reservation' = reservation
  BY <1>1 DEF LockInv, EntitlementFree
<1>4. \A o \in Sessions : HoldsEntitlement(o)' => txn'[o] = txn[o]
  BY <1>1
<1>5. \A a, o \in Sessions : HoldsEntitlement(a)' /\ HoldsEntitlement(o)' => a = o
  BY <1>1 DEF LockInv
<1>6. \A a, o \in Sessions, k \in Keys :
        HoldsReservation(a, k)' /\ HoldsReservation(o, k)' => a = o
  BY <1>2 DEF LockInv
<1>7. \A o \in Sessions : HoldsEntitlement(o)' =>
        /\ reservation'[txn'[o].key].status = "pending"
        /\ reservation'[txn'[o].key].expiresAt <= txn'[o].at
  BY <1>1, <1>3, <1>4 DEF LockInv
<1> QED
  BY <1>5, <1>6, <1>7 DEF LockInv

\* Nothing is written.
LEMMA NoWrite ==
  ASSUME UNCHANGED <<reservation, event, job>>
  PROVE  KeyStep
  BY DEF KeyStep, Kept

-----------------------------------------------------------------------------
(* The actions *)

Step == Shape' /\ LockInv' /\ KeyStep

LEMMA BeginStep ==
  ASSUME Shape, LockInv, NEW s \in Sessions,
         NEW op \in {"reserve", "commit", "release", "expire"}, NEW key \in Keys,
         NEW quantity \in Nat, NEW expiresAt \in Nat, Begin(s, op, key, quantity, expiresAt)
  PROVE  Step
<1> DEFINE t == [op |-> op, key |-> key, quantity |-> quantity, expiresAt |-> expiresAt,
                 at |-> now, seen |-> 0, step |-> "started"]
<1>1. t \in Transaction /\ t.step = "started"
  BY DEF Shape, Transaction
<1>2. txn' = [txn EXCEPT ![s] = t] /\ UNCHANGED <<now, tables, aborts>>
  BY DEF Begin
<1> HIDE DEF t
<1>3. /\ txn' \in [Sessions -> Transaction \union {NoTxn}] /\ txn'[s] = t
      /\ \A o \in Sessions \ {s} : txn'[o] = txn[o]
  BY <1>1, <1>2 DEF Shape
<1>4. LockInv'
  BY <1>1, <1>2, <1>3, LocksKept DEF tables
<1>5. Shape'
  BY <1>2, <1>3 DEF Shape, tables
<1> QED
  BY <1>2, <1>4, <1>5, NoWrite DEF Step, tables

\* A session that ends, having written under the entitlement's row or not at all.
LEMMA EndStep ==
  ASSUME Shape, LockInv, NEW s \in Sessions, Finish(s), UNCHANGED <<now, granted>>,
         EntitlementFree \/ HoldsEntitlement(s) \/ reservation' = reservation,
         reservation' \in [Keys -> ReservationRow], event' \in [Keys -> Nat],
         job' \in [Keys -> {"none", "queued", "done"}], KeyStep
  PROVE  Step
<1>1. /\ txn' \in [Sessions -> Transaction \union {NoTxn}] /\ txn'[s] = NoTxn
      /\ \A o \in Sessions \ {s} : txn'[o] = txn[o]
  BY FinishStep
<1>2. LockInv'
  BY <1>1, LocksKept
<1> QED
  BY <1>1, <1>2 DEF Step, Shape

LEMMA StartSteps ==
  ASSUME Shape, LockInv, NEW s \in Sessions,
         \/ StartReserve(s) \/ StartSettle(s)
         \/ \E k \in Keys : StartExpire(s, k)
  PROVE  Step
<1>1. CASE StartReserve(s)
  <2>1. PICK request \in Requests :
          Begin(s, "reserve", request.key, request.quantity, request.expiresAt)
    BY <1>1 DEF StartReserve
  <2>2. request.key \in Keys /\ request.quantity \in Nat /\ request.expiresAt \in Nat
    BY ConstantsAssumption
  <2> QED
    BY <2>1, <2>2, BeginStep
<1>2. CASE StartSettle(s)
  <2>1. PICK k \in Keys : \/ \E quantity \in Actuals : Begin(s, "commit", k, quantity, 0)
                          \/ Begin(s, "release", k, 0, 0)
    BY <1>2 DEF StartSettle
  <2>2. CASE Begin(s, "release", k, 0, 0)
    BY <2>2, BeginStep
  <2>3. CASE \E quantity \in Actuals : Begin(s, "commit", k, quantity, 0)
    <3>1. PICK quantity \in Actuals : Begin(s, "commit", k, quantity, 0)
      BY <2>3
    <3>2. quantity \in Nat
      BY ConstantsAssumption
    <3> QED
      BY <3>1, <3>2, BeginStep
  <2> QED
    BY <2>1, <2>2, <2>3
<1>3. CASE \E k \in Keys : StartExpire(s, k)
  <2>1. PICK k \in Keys : Begin(s, "expire", k, 0, 0)
    BY <1>3 DEF StartExpire
  <2> QED
    BY <2>1, BeginStep
<1> QED
  BY <1>1, <1>2, <1>3

LEMMA LockEntitlementStep ==
  ASSUME Shape, LockInv, NEW s \in Sessions, LockEntitlement(s)
  PROVE  Step
<1>1. /\ txn[s] # NoTxn /\ UNCHANGED <<now, tables, aborts>>
      /\ \/ Finish(s)
         \/ txn' = [txn EXCEPT ![s].seen = ActiveGranted(granted, txn[s].at),
                               ![s].step = "locking"]
  BY DEF LockEntitlement
<1>2. CASE Finish(s)
  <2>1. KeyStep
    BY <1>1, NoWrite DEF tables
  <2> QED
    BY <1>1, <1>2, <2>1, EndStep DEF Shape, tables
<1>3. CASE txn' = [txn EXCEPT ![s].seen = ActiveGranted(granted, txn[s].at),
                              ![s].step = "locking"]
  <2>1. txn[s] \in Transaction /\ txn[s].at \in Nat
    BY <1>1, TxnType
  <2>2. ActiveGranted(granted, txn[s].at) \in Nat
    BY ActiveGrows DEF Shape
  <2> DEFINE read == [txn[s] EXCEPT !.seen = ActiveGranted(granted, txn[s].at)]
             waiting == [read EXCEPT !.step = "locking"]
  <2>3. read \in Transaction
    BY <2>1, <2>2, SeenUpdate
  <2>4. waiting \in Transaction /\ waiting.step = "locking"
    BY <2>3, StepUpdate
  <2>5. txn' = [txn EXCEPT ![s] = waiting]
    BY <1>3 DEF Shape
  <2> HIDE DEF waiting
  <2>6. /\ txn' \in [Sessions -> Transaction \union {NoTxn}] /\ txn'[s] = waiting
        /\ \A o \in Sessions \ {s} : txn'[o] = txn[o]
    BY <2>4, <2>5 DEF Shape
  <2>7. LockInv'
    BY <1>1, <2>4, <2>6, LocksKept DEF tables
  <2>8. Shape'
    BY <1>1, <2>6 DEF Shape, tables
  <2> QED
    BY <1>1, <2>7, <2>8, NoWrite DEF Step, tables
<1> QED
  BY <1>1, <1>2, <1>3

\* A step that settles or creates the reservation of s's transaction, or changes nothing.
LEMMA WriteOrNot ==
  ASSUME Shape, LockInv, NEW s \in Sessions, NEW k \in Keys, Finish(s), EntitlementFree,
         UNCHANGED <<now, granted>>,
         NEW e, NEW r \in ReservationRow, NEW ev \in Nat, NEW j \in {"none", "queued", "done"},
         Write(k, e, r, ev, j) \/ WritesNothing,
         reservation'[k] = r /\ event'[k] = ev /\ job'[k] = j =>
           Kept(k) \/ Reserved(k) \/ Charged(k) \/ Ended(k)
  PROVE  Step
<1>1. CASE WritesNothing
  <2>1. KeyStep
    BY <1>1, NoWrite DEF WritesNothing
  <2> QED
    BY <1>1, <2>1, EndStep DEF WritesNothing, Shape
<1>2. CASE Write(k, e, r, ev, j)
  <2>1. /\ reservation' \in [Keys -> ReservationRow]
        /\ event' \in [Keys -> Nat]
        /\ job' \in [Keys -> {"none", "queued", "done"}]
        /\ \A o \in Keys \ {k} : Kept(o)
        /\ \/ Kept(k)
           \/ reservation'[k] = r /\ event'[k] = ev /\ job'[k] = j
    BY <1>2 DEF Write, WritesNothing, Shape, Kept
  <2>2. KeyStep
    BY <2>1 DEF KeyStep
  <2> QED
    BY <2>1, <2>2, EndStep
<1> QED
  BY <1>1, <1>2

LEMMA ReserveNewStep ==
  ASSUME Shape, LockInv, NEW s \in Sessions, ReserveNew(s)
  PROVE  Step
<1> DEFINE k == txn[s].key
           e == [entitlement EXCEPT !.granted = txn[s].seen, !.reserved = @ + txn[s].quantity]
           r == [status |-> "pending", requested |-> txn[s].quantity, committed |-> 0,
                 expiresAt |-> txn[s].expiresAt]
<1>1. /\ txn[s] # NoTxn /\ EntitlementFree /\ reservation[k].status = "absent"
      /\ Write(k, e, r, 0, "queued") \/ WritesNothing
      /\ Finish(s) /\ UNCHANGED <<now, granted>>
  BY DEF ReserveNew
<1>2. k \in Keys /\ txn[s].quantity \in Nat /\ txn[s].expiresAt \in Nat
  BY <1>1, TxnType DEF Transaction
<1>3. r \in ReservationRow /\ r.status = "pending"
  BY <1>2 DEF ReservationRow
<1> HIDE DEF k, e, r
<1>4. reservation'[k] = r /\ event'[k] = 0 /\ job'[k] = "queued" => Reserved(k)
  BY <1>1, <1>3 DEF Reserved
<1> QED
  BY <1>1, <1>2, <1>3, <1>4, WriteOrNot

\* The same transaction ends its reservation.
LEMMA EndReservation ==
  ASSUME Shape, NEW k \in Keys, NEW status \in {"released", "expired"},
         reservation[k].status = "pending",
         reservation'[k] = [reservation[k] EXCEPT !.status = status], event'[k] = event[k]
  PROVE  Ended(k)
<1>1. reservation[k] \in ReservationRow
  BY DEF Shape
<1>2. reservation'[k].status = status
  BY <1>1, StatusUpdate
<1> QED
  BY <1>2 DEF Ended

LEMMA ExpireRepeatedStep ==
  ASSUME Shape, LockInv, NEW s \in Sessions, ExpireRepeated(s)
  PROVE  Step
<1> DEFINE k == txn[s].key
<1>1. /\ txn[s] # NoTxn /\ txn[s].step = "reservation" /\ Finish(s)
      /\ reservation' = [reservation EXCEPT ![k].status = "expired"]
      /\ UNCHANGED <<now, granted, event, job, aborts>>
  BY DEF ExpireRepeated
<1>2. k \in Keys
  BY <1>1, TxnType
<1>3. HoldsEntitlement(s)
  BY <1>1 DEF HoldsEntitlement
<1>4. reservation[k].status = "pending"
  BY <1>3 DEF LockInv
<1> HIDE DEF k
<1>5. reservation[k] \in ReservationRow
  BY <1>2 DEF Shape
<1>6. [reservation[k] EXCEPT !.status = "expired"] \in ReservationRow
  BY <1>5, StatusUpdate
<1>7. /\ reservation' \in [Keys -> ReservationRow]
      /\ reservation'[k] = [reservation[k] EXCEPT !.status = "expired"]
      /\ \A o \in Keys \ {k} : reservation'[o] = reservation[o]
  BY <1>1, <1>2, <1>6 DEF Shape
<1>8. Ended(k)
  BY <1>1, <1>2, <1>4, <1>7, EndReservation
<1>9. KeyStep
  BY <1>1, <1>7, <1>8 DEF KeyStep, Kept
<1> QED
  BY <1>1, <1>3, <1>7, <1>9, EndStep DEF Shape

LEMMA ReserveAgainStep ==
  ASSUME Shape, LockInv, NEW s \in Sessions, ReserveAgain(s)
  PROVE  Step
<1> DEFINE k == txn[s].key
<1>1. /\ txn[s] # NoTxn /\ EntitlementFree /\ UNCHANGED <<now, tables, aborts>>
      /\ \/ /\ reservation[k].status = "pending" /\ reservation[k].expiresAt <= txn[s].at
            /\ Moves(s, "reservation")
         \/ Finish(s)
  BY DEF ReserveAgain
<1>2. KeyStep
  BY <1>1, NoWrite DEF tables
<1>3. CASE Finish(s)
  BY <1>1, <1>2, <1>3, EndStep DEF Shape, tables
<1>4. CASE /\ reservation[k].status = "pending" /\ reservation[k].expiresAt <= txn[s].at
           /\ Moves(s, "reservation")
  <2>1. /\ txn' \in [Sessions -> Transaction \union {NoTxn}]
        /\ txn'[s] \in Transaction /\ txn'[s].step = "reservation"
        /\ txn'[s].key = k /\ txn'[s].at = txn[s].at
        /\ \A o \in Sessions \ {s} : txn'[o] = txn[o]
    BY <1>1, <1>4, MovesStep
  <2>2. \A o \in Sessions : HoldsEntitlement(o)' => o = s
    BY <1>1, <2>1 DEF EntitlementFree, HoldsEntitlement
  <2>3. \A o \in Sessions, i \in Keys :
          HoldsReservation(o, i)' => HoldsReservation(o, i)
    BY <2>1 DEF HoldsReservation
  <2>4. /\ \A a, o \in Sessions : HoldsEntitlement(a)' /\ HoldsEntitlement(o)' => a = o
        /\ \A a, o \in Sessions, i \in Keys :
             HoldsReservation(a, i)' /\ HoldsReservation(o, i)' => a = o
    BY <2>2, <2>3 DEF LockInv
  <2>5. \A o \in Sessions : HoldsEntitlement(o)' =>
          /\ reservation'[txn'[o].key].status = "pending"
          /\ reservation'[txn'[o].key].expiresAt <= txn'[o].at
    BY <1>1, <1>4, <2>1, <2>2 DEF tables
  <2>6. LockInv'
    BY <2>4, <2>5 DEF LockInv
  <2>7. Shape'
    BY <1>1, <2>1 DEF Shape, tables
  <2> QED
    BY <1>2, <2>6, <2>7 DEF Step
<1> QED
  BY <1>1, <1>3, <1>4

LEMMA LockReservationStep ==
  ASSUME Shape, LockInv, NEW s \in Sessions, LockReservation(s)
  PROVE  Step
<1> DEFINE k == txn[s].key
<1>1. /\ txn[s] # NoTxn /\ ReservationFree(k)
      /\ UNCHANGED <<now, entitlement, reservation, granted, event, aborts>>
      /\ \/ /\ Finish(s)
            /\ \/ reservation[k].status # "pending" /\ job' = [job EXCEPT ![k] = "done"]
               \/ job' = job
         \/ Moves(s, "entitlement") /\ UNCHANGED job
  BY DEF LockReservation
<1>2. k \in Keys
  BY <1>1, TxnType
<1> HIDE DEF k
<1>3. job' \in [Keys -> {"none", "queued", "done"}] /\ KeyStep
  BY <1>1, <1>2 DEF KeyStep, Kept, Shape
<1>4. CASE Finish(s)
  BY <1>1, <1>3, <1>4, EndStep DEF Shape
<1>5. CASE Moves(s, "entitlement")
  <2>1. /\ txn' \in [Sessions -> Transaction \union {NoTxn}]
        /\ txn'[s] \in Transaction /\ txn'[s].step = "entitlement" /\ txn'[s].key = k
        /\ \A o \in Sessions \ {s} : txn'[o] = txn[o]
    BY <1>1, <1>5, MovesStep DEF k
  <2>2. \A o \in Sessions, i \in Keys : HoldsReservation(o, i)' =>
          \/ o # s /\ HoldsReservation(o, i)
          \/ o = s /\ i = k
    BY <2>1 DEF HoldsReservation
  <2>3. \A a, o \in Sessions, i \in Keys :
          HoldsReservation(a, i)' /\ HoldsReservation(o, i)' => a = o
    BY <1>1, <2>2 DEF LockInv, ReservationFree
  <2>4. \A o \in Sessions : HoldsEntitlement(o)' =>
          HoldsEntitlement(o) /\ txn'[o] = txn[o]
    BY <2>1 DEF HoldsEntitlement
  <2>5. \A a, o \in Sessions : HoldsEntitlement(a)' /\ HoldsEntitlement(o)' => a = o
    BY <2>4 DEF LockInv
  <2>6. \A o \in Sessions : HoldsEntitlement(o)' =>
          /\ reservation'[txn'[o].key].status = "pending"
          /\ reservation'[txn'[o].key].expiresAt <= txn'[o].at
    BY <1>1, <2>4 DEF LockInv
  <2>7. LockInv'
    BY <2>3, <2>5, <2>6 DEF LockInv
  <2>8. Shape'
    BY <1>1, <1>3, <2>1 DEF Shape
  <2> QED
    BY <1>3, <2>7, <2>8 DEF Step
<1> QED
  BY <1>1, <1>4, <1>5

\* What commit, release and the expiry job have in common.
LEMMA SettleStep ==
  ASSUME Shape, LockInv, NEW s \in Sessions, txn[s] # NoTxn, EntitlementFree, Finish(s),
         UNCHANGED <<now, granted>>, NEW status \in {"released", "expired"},
         NEW j \in {"none", "queued", "done"}, NEW e,
         reservation[txn[s].key].status = "pending",
         \/ Write(txn[s].key, e, [reservation[txn[s].key] EXCEPT !.status = status],
                  event[txn[s].key], j)
         \/ WritesNothing
  PROVE  Step
<1> DEFINE k == txn[s].key
           r == [reservation[k] EXCEPT !.status = status]
<1>1. k \in Keys
  BY TxnType
<1>2. reservation[k] \in ReservationRow /\ event[k] \in Nat
  BY <1>1 DEF Shape
<1>3. r \in ReservationRow
  BY <1>2, StatusUpdate
<1>4. reservation'[k] = r /\ event'[k] = event[k] => Ended(k)
  BY <1>1, EndReservation
<1> QED
  BY <1>1, <1>2, <1>3, <1>4, WriteOrNot

LEMMA CommitStep ==
  ASSUME Shape, LockInv, NEW s \in Sessions, Commit(s)
  PROVE  Step
<1> DEFINE k == txn[s].key
           r == [reservation[k] EXCEPT !.status = "committed", !.committed = txn[s].quantity]
<1>1. /\ txn[s] # NoTxn /\ EntitlementFree /\ Finish(s) /\ UNCHANGED <<now, granted>>
      /\ \/ /\ reservation[k].status = "pending"
            /\ Write(k, Returned(reservation[k]),
                     [reservation[k] EXCEPT !.status = "expired"], event[k], job[k])
         \/ /\ reservation[k].status = "pending"
            /\ Write(k, CommittedBalance(txn[s], reservation[k]), r, txn[s].quantity, job[k])
         \/ WritesNothing
  BY DEF Commit, Ready
<1>2. k \in Keys /\ txn[s].quantity \in Nat
  BY <1>1, TxnType DEF Transaction
<1>3. reservation[k] \in ReservationRow /\ job[k] \in {"none", "queued", "done"}
  BY <1>2 DEF Shape
<1>4. r \in ReservationRow /\ r.status = "committed" /\ r.committed = txn[s].quantity
  BY <1>2, <1>3, CommitUpdate
<1> HIDE DEF r
<1>5. ASSUME reservation[k].status = "pending",
             reservation'[k] = r, event'[k] = txn[s].quantity
      PROVE  Charged(k)
  BY <1>4, <1>5 DEF Charged
<1>6. CASE WritesNothing
  <2>1. KeyStep
    BY <1>6, NoWrite DEF WritesNothing
  <2> QED
    BY <1>1, <1>6, <2>1, EndStep DEF WritesNothing, Shape
<1>7. CASE /\ reservation[k].status = "pending"
           /\ Write(k, Returned(reservation[k]),
                    [reservation[k] EXCEPT !.status = "expired"], event[k], job[k])
  BY <1>1, <1>3, <1>7, SettleStep
<1>8. CASE /\ reservation[k].status = "pending"
           /\ Write(k, CommittedBalance(txn[s], reservation[k]), r, txn[s].quantity, job[k])
  BY <1>1, <1>2, <1>3, <1>4, <1>5, <1>8, WriteOrNot
<1> QED
  BY <1>1, <1>6, <1>7, <1>8

LEMMA ReleaseStep ==
  ASSUME Shape, LockInv, NEW s \in Sessions, Release(s)
  PROVE  Step
<1> DEFINE k == txn[s].key
<1>1. /\ txn[s] # NoTxn /\ EntitlementFree /\ Finish(s) /\ UNCHANGED <<now, granted>>
      /\ \/ /\ reservation[k].status = "pending"
            /\ Write(k, Returned(reservation[k]),
                     [reservation[k] EXCEPT !.status = "released"], event[k], job[k])
         \/ WritesNothing
  BY DEF Release, Ready
<1>2. job[k] \in {"none", "queued", "done"}
  BY <1>1, TxnType DEF Shape
<1>3. CASE WritesNothing
  <2>1. KeyStep
    BY <1>3, NoWrite DEF WritesNothing
  <2> QED
    BY <1>1, <1>3, <2>1, EndStep DEF WritesNothing, Shape
<1> QED
  BY <1>1, <1>2, <1>3, SettleStep

LEMMA ExpireStep ==
  ASSUME Shape, LockInv, NEW s \in Sessions, Expire(s)
  PROVE  Step
<1> DEFINE k == txn[s].key
<1>1. /\ txn[s] # NoTxn /\ EntitlementFree /\ Finish(s) /\ UNCHANGED <<now, granted>>
      /\ \/ /\ reservation[k].status = "pending"
            /\ \E j \in {"queued", "done"} :
                 Write(k, Returned(reservation[k]),
                       [reservation[k] EXCEPT !.status = "expired"], event[k], j)
         \/ WritesNothing
  BY DEF Expire, Ready
<1>2. CASE WritesNothing
  <2>1. KeyStep
    BY <1>2, NoWrite DEF WritesNothing
  <2> QED
    BY <1>1, <1>2, <2>1, EndStep DEF WritesNothing, Shape
<1>3. CASE /\ reservation[k].status = "pending"
           /\ \E j \in {"queued", "done"} :
                Write(k, Returned(reservation[k]),
                      [reservation[k] EXCEPT !.status = "expired"], event[k], j)
  <2>1. PICK j \in {"queued", "done"} :
          Write(k, Returned(reservation[k]),
                [reservation[k] EXCEPT !.status = "expired"], event[k], j)
    BY <1>3
  <2> QED
    BY <1>1, <1>3, <2>1, SettleStep
<1> QED
  BY <1>1, <1>2, <1>3

LEMMA InitShape == Init => Shape /\ LockInv
<1> SUFFICES ASSUME Init PROVE Shape /\ LockInv
  OBVIOUS
<1>1. Shape
  BY DEF Init, Shape, ReservationRow
<1>2. \A s \in Sessions : txn[s] = NoTxn
  BY DEF Init
<1>3. LockInv
  BY <1>2 DEF LockInv, HoldsEntitlement, HoldsReservation
<1> QED
  BY <1>1, <1>3

LEMMA NextStep == Shape /\ LockInv /\ [Next]_vars => Step
<1> SUFFICES ASSUME Shape, LockInv, [Next]_vars PROVE Step
  OBVIOUS
<1>1. ASSUME NEW c \in Clients, StartReserve(c) \/ StartSettle(c) PROVE Step
  BY <1>1, StartSteps DEF Sessions
<1>2. ASSUME NEW w \in Workers, NEW k \in Keys, StartExpire(w, k) PROVE Step
  BY <1>2, StartSteps DEF Sessions
<1>3. ASSUME NEW s \in Sessions, Proceed(s) PROVE Step
  BY <1>3, LockEntitlementStep, ReserveNewStep, ReserveAgainStep, ExpireRepeatedStep,
     LockReservationStep, CommitStep, ReleaseStep, ExpireStep DEF Proceed
<1>4. ASSUME NEW s \in Sessions, Finish(s), UNCHANGED <<now, tables>> PROVE Step
  <2>1. KeyStep
    BY <1>4, NoWrite DEF tables
  <2> QED
    BY <1>4, <2>1, EndStep DEF tables, Shape
<1>5. ASSUME NEW s \in Sessions, Abort(s) PROVE Step
  BY <1>4, <1>5 DEF Abort
<1>6. CASE BreakDeadlock
  BY <1>4, <1>6 DEF BreakDeadlock
<1>7. ASSUME UNCHANGED <<reservation, event, job, txn>>,
             now' \in Nat, granted' \subseteq Grants
      PROVE  Step
  <2>1. LockInv'
    BY <1>7 DEF LockInv, HoldsEntitlement, HoldsReservation
  <2> QED
    BY <1>7, <2>1, NoWrite DEF Step, Shape
<1>8. ASSUME NEW g \in Grants, AddGrant(g) PROVE Step
  BY <1>7, <1>8 DEF AddGrant, Shape
<1>9. CASE Tick
  BY <1>7, <1>9 DEF Tick, tables, Shape
<1>10. CASE UNCHANGED vars
  BY <1>7, <1>10 DEF vars, Shape
<1> QED
  BY <1>1, <1>2, <1>3, <1>5, <1>6, <1>8, <1>9, <1>10 DEF Next

-----------------------------------------------------------------------------
(* What one step does to the balance *)

EntitlementRow == [granted: Nat, committed: Int, reserved: Int]

\* What a transaction knows of its request and of what it has read: its clock value is
\* no later than now, what it reserves was asked for, the sum of the grants it saw is
\* no more than the one of now, and a job that waits for the entitlement has found its
\* reservation due.
TxnRight(t) ==
  /\ t.at <= now
  /\ t.op = "reserve" =>
       [key |-> t.key, quantity |-> t.quantity, expiresAt |-> t.expiresAt] \in Requests
  /\ t.op = "commit" => t.quantity \in Actuals
  /\ t.step = "locking" => t.op = "reserve" /\ t.seen <= ActiveGranted(granted, t.at)
  /\ t.op = "expire" /\ t.step = "entitlement" =>
       reservation[t.key].status # "absent" /\ reservation[t.key].expiresAt <= t.at

TxnInv == \A s \in Sessions : txn[s] # NoTxn => TxnRight(txn[s])

Good == Shape /\ LockInv /\ TxnInv /\ entitlement \in EntitlementRow

Reserves(k) ==
  /\ reservation[k].status = "absent"
  /\ \E request \in Requests, at \in 0..now :
       /\ request.key = k /\ at < request.expiresAt
       /\ entitlement.committed + entitlement.reserved + request.quantity
            <= ActiveGranted(granted, at)
       /\ reservation' = [reservation EXCEPT ![k] =
            [status |-> "pending", requested |-> request.quantity, committed |-> 0,
             expiresAt |-> request.expiresAt]]
       /\ entitlement'.reserved = entitlement.reserved + request.quantity
  /\ entitlement'.committed = entitlement.committed
  /\ UNCHANGED <<now, granted>>

Charges(k) ==
  /\ reservation[k].status = "pending"
  /\ \E quantity \in 1..reservation[k].requested :
       /\ reservation' = [reservation EXCEPT ![k].status = "committed",
                                             ![k].committed = quantity]
       /\ entitlement'.committed = entitlement.committed + quantity
  /\ entitlement'.reserved = entitlement.reserved - reservation[k].requested
  /\ UNCHANGED <<now, granted>>

Returns(k, status) ==
  /\ reservation[k].status = "pending"
  /\ status = "expired" => reservation[k].expiresAt <= now
  /\ reservation' = [reservation EXCEPT ![k].status = status]
  /\ entitlement'.reserved = entitlement.reserved - reservation[k].requested
  /\ entitlement'.committed = entitlement.committed
  /\ UNCHANGED <<now, granted>>

KeepsBalance ==
  /\ UNCHANGED reservation
  /\ entitlement'.reserved = entitlement.reserved
  /\ entitlement'.committed = entitlement.committed
  /\ \/ UNCHANGED <<now, granted>>
     \/ now' = now + 1 /\ UNCHANGED granted
     \/ UNCHANGED now /\ \E g \in Grants : g \notin granted /\ granted' = granted \union {g}

Moved ==
  \/ KeepsBalance
  \/ \E k \in Keys :
       Reserves(k) \/ Charges(k) \/ \E status \in {"released", "expired"} : Returns(k, status)

Accounted == Moved /\ entitlement' \in EntitlementRow

LEMMA GrantedUpdate ==
  ASSUME NEW e \in EntitlementRow, NEW n \in Nat
  PROVE  LET d == [e EXCEPT !.granted = n] IN
         d \in EntitlementRow /\ d.reserved = e.reserved /\ d.committed = e.committed
  BY DEF EntitlementRow

LEMMA ReservedUpdate ==
  ASSUME NEW e \in EntitlementRow, NEW n \in Int
  PROVE  LET d == [e EXCEPT !.reserved = n] IN
         d \in EntitlementRow /\ d.reserved = n /\ d.committed = e.committed
  BY DEF EntitlementRow

LEMMA CommittedUpdate ==
  ASSUME NEW e \in EntitlementRow, NEW n \in Int
  PROVE  LET d == [e EXCEPT !.committed = n] IN
         d \in EntitlementRow /\ d.reserved = e.reserved /\ d.committed = n
  BY DEF EntitlementRow

LEMMA CountersAreNumbers ==
  ASSUME NEW e \in EntitlementRow
  PROVE  e.reserved \in Int /\ e.committed \in Int
  BY DEF EntitlementRow

\* A reservation keeps its expiry time, and time and grants only grow.
LEMMA MovedKeeps ==
  ASSUME Shape, Moved
  PROVE  /\ now <= now' /\ granted \subseteq granted'
         /\ \A k \in Keys : reservation[k].status # "absent" =>
              /\ reservation'[k].status # "absent"
              /\ reservation'[k].expiresAt = reservation[k].expiresAt
<1>1. CASE KeepsBalance
  BY <1>1 DEF KeepsBalance, Shape
<1>2. ASSUME NEW k \in Keys, Reserves(k) PROVE
        /\ now <= now' /\ granted \subseteq granted'
        /\ \A i \in Keys \ {k} : reservation'[i] = reservation[i]
        /\ reservation[k].status = "absent"
  BY <1>2 DEF Reserves, Shape
<1>3. ASSUME NEW k \in Keys, Charges(k) PROVE
        /\ now <= now' /\ granted \subseteq granted'
        /\ \A i \in Keys \ {k} : reservation'[i] = reservation[i]
        /\ reservation'[k].status = "committed"
        /\ reservation'[k].expiresAt = reservation[k].expiresAt
  BY <1>3 DEF Charges, Shape, ReservationRow
<1>4. ASSUME NEW k \in Keys, NEW status \in {"released", "expired"}, Returns(k, status)
      PROVE  /\ now <= now' /\ granted \subseteq granted'
             /\ \A i \in Keys \ {k} : reservation'[i] = reservation[i]
             /\ reservation'[k].status = status
             /\ reservation'[k].expiresAt = reservation[k].expiresAt
  BY <1>4 DEF Returns, Shape, ReservationRow
<1> QED
  BY <1>1, <1>2, <1>3, <1>4 DEF Moved

\* What a transaction knows stays true when others move.
LEMMA RightStays ==
  ASSUME Shape, Shape', Moved, NEW t \in Transaction, TxnRight(t), NEW u, u = t
  PROVE  /\ u.at <= now'
         /\ u.op = "reserve" =>
              [key |-> u.key, quantity |-> u.quantity, expiresAt |-> u.expiresAt] \in Requests
         /\ u.op = "commit" => u.quantity \in Actuals
         /\ u.step = "locking" => u.op = "reserve" /\ u.seen <= ActiveGranted(granted', u.at)
         /\ u.op = "expire" /\ u.step = "entitlement" =>
              reservation'[u.key].status # "absent" /\ reservation'[u.key].expiresAt <= u.at
<1>1. now \in Nat /\ now' \in Nat /\ granted \in SUBSET Grants /\ granted' \in SUBSET Grants
  BY DEF Shape
<1>2. now <= now' /\ granted \subseteq granted'
  BY MovedKeeps
<1>3. t.at \in Nat /\ t.seen \in Nat /\ t.key \in Keys
  BY DEF Transaction
<1>4. /\ ActiveGranted(granted, t.at) \in Nat /\ ActiveGranted(granted', t.at) \in Nat
      /\ ActiveGranted(granted, t.at) <= ActiveGranted(granted', t.at)
  BY <1>1, <1>2, ActiveGrows
<1>5. reservation[t.key].status # "absent" =>
        /\ reservation'[t.key].status # "absent"
        /\ reservation'[t.key].expiresAt = reservation[t.key].expiresAt
  BY <1>3, MovedKeeps
<1>6. t.step = "locking" => t.op = "reserve" /\ t.seen <= ActiveGranted(granted', t.at)
  BY <1>3, <1>4 DEF TxnRight
<1>7. t.at <= now'
  BY <1>1, <1>2, <1>3 DEF TxnRight
<1> QED
  BY <1>5, <1>6, <1>7 DEF TxnRight

\* After a step of s that leaves the other transactions alone.
LEMMA TxnsStayRight ==
  ASSUME Shape, Shape', TxnInv, Moved, NEW s \in Sessions,
         \A o \in Sessions \ {s} : txn'[o] = txn[o],
         txn'[s] # NoTxn => TxnRight(txn[s])'
  PROVE  TxnInv'
<1> SUFFICES ASSUME NEW o \in Sessions, txn'[o] # NoTxn PROVE TxnRight(txn[o])'
  BY DEF TxnInv
<1>1. CASE o = s
  BY <1>1
<1>2. CASE o # s
  <2>1. txn'[o] = txn[o] /\ txn[o] \in Transaction /\ TxnRight(txn[o])
    BY <1>2 DEF TxnInv, Shape
  <2> QED
    BY <2>1, RightStays DEF TxnRight
<1> QED
  BY <1>1, <1>2

Sound == Accounted /\ TxnInv'

LEMMA NothingMoves ==
  ASSUME Good, UNCHANGED <<now, entitlement, reservation, granted>>
  PROVE  Accounted
  BY DEF Accounted, Moved, KeepsBalance, Good

LEMMA FinishIsSound ==
  ASSUME Good, Shape', NEW s \in Sessions, Finish(s), Accounted
  PROVE  Sound
<1>1. txn'[s] = NoTxn /\ \A o \in Sessions \ {s} : txn'[o] = txn[o]
  BY FinishStep DEF Good
<1> QED
  BY <1>1, TxnsStayRight DEF Good, Accounted, Sound

LEMMA BeginIsSound ==
  ASSUME Good, Shape', NEW s \in Sessions, NEW op, NEW key, NEW quantity, NEW expiresAt,
         Begin(s, op, key, quantity, expiresAt),
         op = "reserve" =>
           [key |-> key, quantity |-> quantity, expiresAt |-> expiresAt] \in Requests,
         op = "commit" => quantity \in Actuals
  PROVE  Sound
<1> DEFINE t == [op |-> op, key |-> key, quantity |-> quantity, expiresAt |-> expiresAt,
                 at |-> now, seen |-> 0, step |-> "started"]
<1>1. txn' = [txn EXCEPT ![s] = t] /\ UNCHANGED <<now, tables, aborts>>
  BY DEF Begin
<1>2. txn'[s] = t /\ \A o \in Sessions \ {s} : txn'[o] = txn[o]
  BY <1>1 DEF Good, Shape
<1>3. now' = now /\ now \in Nat
  BY <1>1 DEF Good, Shape
<1>4. TxnRight(txn[s])'
  BY <1>2, <1>3 DEF TxnRight
<1>5. Accounted
  BY <1>1, NothingMoves DEF tables
<1> QED
  BY <1>2, <1>4, <1>5, TxnsStayRight DEF Good, Accounted, Sound

LEMMA StartsAreSound ==
  ASSUME Good, Shape', NEW s \in Sessions,
         StartReserve(s) \/ StartSettle(s) \/ \E k \in Keys : StartExpire(s, k)
  PROVE  Sound
<1>1. CASE StartReserve(s)
  <2>1. PICK request \in Requests :
          Begin(s, "reserve", request.key, request.quantity, request.expiresAt)
    BY <1>1 DEF StartReserve
  <2>2. [key |-> request.key, quantity |-> request.quantity,
         expiresAt |-> request.expiresAt] = request
    BY ConstantsAssumption
  <2> QED
    BY <2>1, <2>2, BeginIsSound
<1>2. CASE StartSettle(s)
  <2>1. PICK k \in Keys : \/ \E quantity \in Actuals : Begin(s, "commit", k, quantity, 0)
                          \/ Begin(s, "release", k, 0, 0)
    BY <1>2 DEF StartSettle
  <2>2. CASE Begin(s, "release", k, 0, 0)
    BY <2>2, BeginIsSound
  <2>3. CASE \E quantity \in Actuals : Begin(s, "commit", k, quantity, 0)
    BY <2>3, BeginIsSound
  <2> QED
    BY <2>1, <2>2, <2>3
<1>3. CASE \E k \in Keys : StartExpire(s, k)
  BY <1>3, BeginIsSound DEF StartExpire
<1> QED
  BY <1>1, <1>2, <1>3

\* The sum that reserve's locking statement reads is that of the grants of now.
LEMMA LockEntitlementIsSound ==
  ASSUME Good, Shape', NEW s \in Sessions, LockEntitlement(s)
  PROVE  Sound
<1>1. /\ txn[s] # NoTxn /\ txn[s].op = "reserve" /\ UNCHANGED <<now, tables, aborts>>
      /\ \/ Finish(s)
         \/ txn' = [txn EXCEPT ![s].seen = ActiveGranted(granted, txn[s].at),
                               ![s].step = "locking"]
  BY DEF LockEntitlement
<1>2. Accounted
  BY <1>1, NothingMoves DEF tables
<1>3. CASE txn' = [txn EXCEPT ![s].seen = ActiveGranted(granted, txn[s].at),
                              ![s].step = "locking"]
  <2>1. txn[s] \in Transaction /\ TxnRight(txn[s])
    BY <1>1 DEF Good, Shape, TxnInv
  <2> DEFINE sum == ActiveGranted(granted, txn[s].at)
             t == [[txn[s] EXCEPT !.seen = sum] EXCEPT !.step = "locking"]
  <2>2. txn'[s] = t /\ \A o \in Sessions \ {s} : txn'[o] = txn[o]
    BY <1>3 DEF Good, Shape
  <2>3. sum \in Nat
    BY ActiveGrows DEF Good, Shape
  <2> HIDE DEF sum
  <2>4. /\ t.op = txn[s].op /\ t.key = txn[s].key /\ t.quantity = txn[s].quantity
        /\ t.expiresAt = txn[s].expiresAt /\ t.at = txn[s].at /\ t.seen = sum
        /\ t.step = "locking"
    BY <2>1 DEF Transaction
  <2> HIDE DEF t
  <2>5. now' = now /\ granted' = granted
    BY <1>1 DEF tables
  <2>6. t.seen <= ActiveGranted(granted, t.at)
    BY <2>3, <2>4 DEF sum
  <2>7. TxnRight(txn[s])'
    BY <1>1, <2>1, <2>2, <2>4, <2>5, <2>6 DEF TxnRight
  <2> QED
    BY <1>2, <2>2, <2>7, TxnsStayRight DEF Good, Accounted, Sound
<1> QED
  BY <1>1, <1>2, <1>3, FinishIsSound

LEMMA MovesIsSound ==
  ASSUME Good, Shape', NEW s \in Sessions, txn[s] # NoTxn,
         NEW step \in {"entitlement", "reservation"}, Moves(s, step),
         UNCHANGED <<now, entitlement, reservation, granted>>,
         txn[s].op = "expire" /\ step = "entitlement" =>
           /\ reservation[txn[s].key].status # "absent"
           /\ reservation[txn[s].key].expiresAt <= txn[s].at
  PROVE  Sound
<1>1. txn[s] \in Transaction /\ TxnRight(txn[s])
  BY DEF Good, Shape, TxnInv
<1> DEFINE t == [txn[s] EXCEPT !.step = step]
<1>2. txn'[s] = t /\ \A o \in Sessions \ {s} : txn'[o] = txn[o]
  BY DEF Moves, Good, Shape
<1>3. /\ t.op = txn[s].op /\ t.key = txn[s].key /\ t.quantity = txn[s].quantity
      /\ t.expiresAt = txn[s].expiresAt /\ t.at = txn[s].at /\ t.step = step
  BY <1>1 DEF Transaction
<1> HIDE DEF t
<1>4. TxnRight(txn[s])'
  BY <1>1, <1>2, <1>3 DEF TxnRight
<1>5. Accounted
  BY NothingMoves
<1> QED
  BY <1>2, <1>4, <1>5, TxnsStayRight DEF Good, Accounted, Sound

LEMMA LocksAreSound ==
  ASSUME Good, Shape', NEW s \in Sessions, ReserveAgain(s) \/ LockReservation(s)
  PROVE  Sound
<1>1. CASE ReserveAgain(s)
  <2>1. /\ txn[s] # NoTxn /\ UNCHANGED <<now, tables, aborts>>
        /\ Moves(s, "reservation") \/ Finish(s)
    BY <1>1 DEF ReserveAgain
  <2>2. Accounted
    BY <2>1, NothingMoves DEF tables
  <2> QED
    BY <2>1, <2>2, FinishIsSound, MovesIsSound DEF tables
<1>2. CASE LockReservation(s)
  <2> DEFINE r == reservation[txn[s].key]
  <2>1. /\ txn[s] # NoTxn /\ UNCHANGED <<now, entitlement, reservation, granted, event, aborts>>
        /\ \/ Finish(s)
           \/ /\ ~(txn[s].op = "expire" /\ (r.status # "pending" \/ r.expiresAt > txn[s].at))
              /\ Moves(s, "entitlement")
    BY <1>2 DEF LockReservation
  <2>2. Accounted
    BY <2>1, NothingMoves
  <2>3. r.expiresAt \in Nat /\ txn[s].at \in Nat
    BY <2>1 DEF Good, Shape, Transaction, ReservationRow
  <2>4. ~(txn[s].op = "expire" /\ (r.status # "pending" \/ r.expiresAt > txn[s].at)) =>
          (txn[s].op = "expire" => r.status # "absent" /\ r.expiresAt <= txn[s].at)
    BY <2>3
  <2> HIDE DEF r
  <2>5. CASE Moves(s, "entitlement") /\
             ~(txn[s].op = "expire" /\ (r.status # "pending" \/ r.expiresAt > txn[s].at))
    <3>1. txn[s].op = "expire" /\ "entitlement" = "entitlement" =>
            /\ reservation[txn[s].key].status # "absent"
            /\ reservation[txn[s].key].expiresAt <= txn[s].at
      BY <2>4, <2>5 DEF r
    <3> QED
      BY <2>1, <2>5, <3>1, MovesIsSound
  <2> QED
    BY <2>1, <2>2, <2>5, FinishIsSound
<1> QED
  BY <1>1, <1>2

LEMMA OthersStayRight ==
  ASSUME Good, Shape', Moved, UNCHANGED txn
  PROVE  TxnInv'
<1> SUFFICES ASSUME NEW o \in Sessions, txn'[o] # NoTxn PROVE TxnRight(txn[o])'
  BY DEF TxnInv
<1>1. txn'[o] = txn[o] /\ txn[o] \in Transaction /\ TxnRight(txn[o])
  BY DEF TxnInv, Good, Shape
<1> QED
  BY <1>1, RightStays DEF TxnRight, Good

\* A balance that gives a reservation's quantity back.
LEMMA ReturnedFields ==
  ASSUME Good, NEW k \in Keys
  PROVE  /\ Returned(reservation[k]) \in EntitlementRow
         /\ Returned(reservation[k]).reserved
              = entitlement.reserved - reservation[k].requested
         /\ Returned(reservation[k]).committed = entitlement.committed
<1> DEFINE n == entitlement.reserved - reservation[k].requested
<1>1. n \in Int
  BY CountersAreNumbers DEF Good, Shape, ReservationRow
<1>2. Returned(reservation[k]) = [entitlement EXCEPT !.reserved = n]
  BY DEF Returned
<1> HIDE DEF n
<1>3. /\ Returned(reservation[k]) \in EntitlementRow
      /\ Returned(reservation[k]).reserved = n
      /\ Returned(reservation[k]).committed = entitlement.committed
  BY <1>1, <1>2, ReservedUpdate DEF Good
<1> QED
  BY <1>3 DEF n

LEMMA WriteMeans ==
  ASSUME NEW k, NEW e, NEW r, NEW ev, NEW j, Write(k, e, r, ev, j)
  PROVE  \/ entitlement' = e /\ reservation' = [reservation EXCEPT ![k] = r]
         \/ UNCHANGED <<entitlement, reservation>>
  BY DEF Write, WritesNothing

LEMMA ReserveNewIsSound ==
  ASSUME Good, Shape', NEW s \in Sessions, ReserveNew(s)
  PROVE  Sound
<1> DEFINE t == txn[s]
           k == t.key
           n == entitlement.reserved + t.quantity
           e == [[entitlement EXCEPT !.granted = t.seen] EXCEPT !.reserved = n]
           r == [status |-> "pending", requested |-> t.quantity, committed |-> 0,
                 expiresAt |-> t.expiresAt]
           request == [key |-> k, quantity |-> t.quantity, expiresAt |-> t.expiresAt]
<1>1. /\ t # NoTxn /\ t.step = "locking" /\ reservation[k].status = "absent"
      /\ Finish(s) /\ UNCHANGED <<now, granted>>
      /\ \/ InPeriod(t) /\ HasCapacity(t) /\ Write(k, e, r, 0, "queued")
         \/ WritesNothing
  BY DEF ReserveNew
<1>2. t \in Transaction /\ TxnRight(t)
  BY <1>1 DEF Good, Shape, TxnInv
<1>3. /\ k \in Keys /\ t.at \in 0..now /\ t.seen \in Nat /\ t.quantity \in Nat
      /\ t.seen <= ActiveGranted(granted, t.at) /\ request \in Requests
  BY <1>1, <1>2 DEF Transaction, TxnRight, Good, Shape
<1>4. CASE WritesNothing
  <2>1. Accounted
    BY <1>1, <1>4, NothingMoves DEF WritesNothing
  <2> QED
    BY <1>1, <2>1, FinishIsSound
<1>5. CASE /\ InPeriod(t) /\ HasCapacity(t)
           /\ entitlement' = e /\ reservation' = [reservation EXCEPT ![k] = r]
  <2>1. entitlement.reserved \in Int /\ entitlement.committed \in Int /\ n \in Int
    BY <1>3, CountersAreNumbers DEF Good
  <2>2. e \in EntitlementRow /\ e.reserved = n /\ e.committed = entitlement.committed
    <3> DEFINE d == [entitlement EXCEPT !.granted = t.seen]
    <3>1. d \in EntitlementRow /\ d.committed = entitlement.committed
      BY <1>3, GrantedUpdate DEF Good
    <3> HIDE DEF n, d
    <3>2. LET x == [d EXCEPT !.reserved = n] IN
          x \in EntitlementRow /\ x.reserved = n /\ x.committed = d.committed
      BY <2>1, <3>1, ReservedUpdate
    <3> QED
      BY <3>1, <3>2 DEF d
  <2>3. ActiveGranted(granted, t.at) \in Nat
    BY ActiveGrows DEF Good, Shape
  <2>4. t.seen >= entitlement.committed + entitlement.reserved + t.quantity
    BY <1>5 DEF HasCapacity
  <2>5. entitlement.committed + entitlement.reserved + t.quantity
          <= ActiveGranted(granted, t.at)
    <3> DEFINE sum == ActiveGranted(granted, t.at)
               all == entitlement.committed + entitlement.reserved + t.quantity
    <3>1. all \in Int /\ sum \in Nat /\ t.seen \in Nat /\ all <= t.seen /\ t.seen <= sum
      BY <1>3, <2>1, <2>3, <2>4
    <3> HIDE DEF sum, all
    <3>2. all <= sum
      BY <3>1
    <3> QED
      BY <3>2 DEF all, sum
  <2>6. t.at < t.expiresAt
    BY <1>5 DEF InPeriod
  <2> HIDE DEF e
  <2>7. Reserves(k)
    <3>1. request.key = k /\ request.quantity = t.quantity /\ request.expiresAt = t.expiresAt
      OBVIOUS
    <3> HIDE DEF request
    <3> QED
      BY <1>1, <1>3, <1>5, <2>2, <2>5, <2>6, <3>1 DEF Reserves
  <2>8. Accounted
    BY <1>3, <1>5, <2>2, <2>7 DEF Accounted, Moved
  <2> QED
    BY <1>1, <2>8, FinishIsSound
<1> HIDE DEF e, r
<1>6. Write(k, e, r, 0, "queued") =>
        \/ entitlement' = e /\ reservation' = [reservation EXCEPT ![k] = r]
        \/ UNCHANGED <<entitlement, reservation>>
  BY WriteMeans
<1>7. CASE UNCHANGED <<entitlement, reservation>>
  <2>1. Accounted
    BY <1>1, <1>7, NothingMoves
  <2> QED
    BY <1>1, <2>1, FinishIsSound
<1> QED
  BY <1>1, <1>4, <1>5, <1>6, <1>7

\* What commit, release and the expiry job have in common.
LEMMA ReturnIsSound ==
  ASSUME Good, Shape', NEW s \in Sessions, NEW k \in Keys, Finish(s),
         UNCHANGED <<now, granted>>, NEW status \in {"released", "expired"},
         reservation[k].status = "pending",
         status = "expired" => reservation[k].expiresAt <= now,
         NEW ev, NEW j,
         Write(k, Returned(reservation[k]), [reservation[k] EXCEPT !.status = status], ev, j)
  PROVE  Sound
<1> DEFINE r == [reservation[k] EXCEPT !.status = status]
<1>1. \/ entitlement' = Returned(reservation[k]) /\ reservation' = [reservation EXCEPT ![k] = r]
      \/ UNCHANGED <<entitlement, reservation>>
  <2> HIDE DEF r
  <2> QED BY WriteMeans DEF r
<1>2. CASE UNCHANGED <<entitlement, reservation>>
  BY <1>2, NothingMoves, FinishIsSound
<1>3. CASE /\ entitlement' = Returned(reservation[k])
           /\ reservation' = [reservation EXCEPT ![k] = r]
  <2>1. Returns(k, status) /\ entitlement' \in EntitlementRow
    BY <1>3, ReturnedFields DEF Returns
  <2>2. Accounted
    BY <2>1 DEF Accounted, Moved
  <2> QED
    BY <2>2, FinishIsSound
<1> QED
  BY <1>1, <1>2, <1>3

\* A transaction that works at its clock value finds due what is due now.
LEMMA DueNow ==
  ASSUME Good, NEW s \in Sessions, txn[s] # NoTxn, NEW k \in Keys,
         reservation[k].expiresAt <= txn[s].at
  PROVE  reservation[k].expiresAt <= now
<1>1. txn[s].at <= now
  BY DEF Good, TxnInv, TxnRight
<1>2. txn[s].at \in Nat /\ now \in Nat /\ reservation[k].expiresAt \in Nat
  BY TxnType DEF Good, Shape, ReservationRow
<1> QED
  BY <1>1, <1>2

LEMMA CommitIsSound ==
  ASSUME Good, Shape', NEW s \in Sessions, Commit(s)
  PROVE  Sound
<1> DEFINE t == txn[s]
           k == t.key
           row == reservation[k]
           n == entitlement.committed + t.quantity
           e == [Returned(row) EXCEPT !.committed = n]
           r == [row EXCEPT !.status = "committed", !.committed = t.quantity]
<1>1. /\ t # NoTxn /\ t.op = "commit" /\ Finish(s) /\ UNCHANGED <<now, granted>>
  BY DEF Commit, Ready
<1>2. t \in Transaction /\ k \in Keys /\ TxnRight(t)
  BY <1>1 DEF Good, Shape, TxnInv, Transaction
<1>3. t.quantity \in Nat \ {0} /\ row.requested \in Nat
  BY <1>1, <1>2, ConstantsAssumption DEF TxnRight, Good, Shape, ReservationRow
<1>4. /\ Returned(row) \in EntitlementRow
      /\ Returned(row).reserved = entitlement.reserved - row.requested
      /\ Returned(row).committed = entitlement.committed
  BY <1>2, ReturnedFields
<1>5. CommittedBalance(t, row) = e
  BY <1>4 DEF CommittedBalance
<1>6. \/ /\ row.status = "pending" /\ row.expiresAt <= t.at
         /\ Write(k, Returned(row), [row EXCEPT !.status = "expired"], event[k], job[k])
      \/ /\ row.status = "pending" /\ t.quantity <= row.requested
         /\ Write(k, e, r, t.quantity, job[k])
      \/ WritesNothing
  BY <1>5 DEF Commit
<1>7. CASE WritesNothing
  BY <1>1, <1>7, NothingMoves, FinishIsSound DEF WritesNothing
<1>8. CASE /\ row.status = "pending" /\ row.expiresAt <= t.at
           /\ Write(k, Returned(row), [row EXCEPT !.status = "expired"], event[k], job[k])
  <2>1. row.expiresAt <= now
    BY <1>1, <1>2, <1>8, DueNow
  <2> QED
    BY <1>1, <1>2, <1>8, <2>1, ReturnIsSound
<1>9. CASE /\ row.status = "pending" /\ t.quantity <= row.requested
           /\ entitlement' = e /\ reservation' = [reservation EXCEPT ![k] = r]
  <2>1. n \in Int
    BY <1>3, CountersAreNumbers DEF Good
  <2>2. /\ e \in EntitlementRow /\ e.committed = n
        /\ e.reserved = entitlement.reserved - row.requested
    <3> HIDE DEF n
    <3> QED BY <1>4, <2>1, CommittedUpdate
  <2>3. t.quantity \in 1..row.requested
    BY <1>3, <1>9
  <2>4. reservation' = [reservation EXCEPT ![k].status = "committed",
                                           ![k].committed = t.quantity]
    BY <1>2, <1>9 DEF Good, Shape, ReservationRow
  <2> HIDE DEF e, r
  <2>5. Charges(k)
    BY <1>1, <1>9, <2>2, <2>3, <2>4 DEF Charges
  <2>6. Accounted
    BY <1>2, <1>9, <2>2, <2>5 DEF Accounted, Moved
  <2> QED
    BY <1>1, <2>6, FinishIsSound
<1> HIDE DEF e, r
<1>10. Write(k, e, r, t.quantity, job[k]) =>
         \/ entitlement' = e /\ reservation' = [reservation EXCEPT ![k] = r]
         \/ UNCHANGED <<entitlement, reservation>>
  BY WriteMeans
<1>11. CASE UNCHANGED <<entitlement, reservation>>
  BY <1>1, <1>11, NothingMoves, FinishIsSound
<1> QED
  BY <1>6, <1>7, <1>8, <1>9, <1>10, <1>11

LEMMA ReleaseIsSound ==
  ASSUME Good, Shape', NEW s \in Sessions, Release(s)
  PROVE  Sound
<1> DEFINE k == txn[s].key
<1>1. /\ txn[s] # NoTxn /\ Finish(s) /\ UNCHANGED <<now, granted>>
      /\ \/ /\ reservation[k].status = "pending"
            /\ Write(k, Returned(reservation[k]),
                     [reservation[k] EXCEPT !.status = "released"], event[k], job[k])
         \/ WritesNothing
  BY DEF Release, Ready
<1>2. k \in Keys
  BY <1>1, TxnType DEF Good
<1>3. CASE WritesNothing
  BY <1>1, <1>3, NothingMoves, FinishIsSound DEF WritesNothing
<1> HIDE DEF k
<1> QED
  BY <1>1, <1>2, <1>3, ReturnIsSound

LEMMA ExpireIsSound ==
  ASSUME Good, Shape', NEW s \in Sessions, Expire(s)
  PROVE  Sound
<1> DEFINE k == txn[s].key
<1>1. /\ txn[s] # NoTxn /\ txn[s].op = "expire" /\ txn[s].step = "entitlement"
      /\ Finish(s) /\ UNCHANGED <<now, granted>>
      /\ \/ /\ reservation[k].status = "pending"
            /\ \E j \in {"queued", "done"} :
                 Write(k, Returned(reservation[k]),
                       [reservation[k] EXCEPT !.status = "expired"], event[k], j)
         \/ WritesNothing
  BY DEF Expire, Ready
<1>2. k \in Keys
  BY <1>1, TxnType DEF Good
<1>3. reservation[k].expiresAt <= txn[s].at
  BY <1>1 DEF Good, TxnInv, TxnRight
<1>4. reservation[k].expiresAt <= now
  BY <1>1, <1>2, <1>3, DueNow
<1>5. CASE WritesNothing
  BY <1>1, <1>5, NothingMoves, FinishIsSound DEF WritesNothing
<1> HIDE DEF k
<1> QED
  BY <1>1, <1>2, <1>4, <1>5, ReturnIsSound

\* The repeated reserve writes its balance first and the reservation's row afterwards,
\* without looking at it again.
LEMMA ExpireRepeatedIsSound ==
  ASSUME Good, Shape', NEW s \in Sessions, ExpireRepeated(s)
  PROVE  Sound
<1> DEFINE k == txn[s].key
<1>1. /\ txn[s] # NoTxn /\ txn[s].step = "reservation" /\ Finish(s)
      /\ UNCHANGED <<now, granted>>
      /\ entitlement' = [Returned(reservation[k]) EXCEPT !.granted = txn[s].seen]
      /\ reservation' = [reservation EXCEPT ![k].status = "expired"]
  BY DEF ExpireRepeated, ExpiredBalance
<1>2. k \in Keys /\ txn[s].seen \in Nat
  BY <1>1, TxnType DEF Good, Transaction
<1>3. reservation[k].status = "pending" /\ reservation[k].expiresAt <= txn[s].at
  BY <1>1 DEF Good, LockInv, HoldsEntitlement
<1>4. reservation[k].expiresAt <= now
  BY <1>1, <1>2, <1>3, DueNow
<1> HIDE DEF k
<1>5. /\ entitlement' \in EntitlementRow
      /\ entitlement'.reserved = entitlement.reserved - reservation[k].requested
      /\ entitlement'.committed = entitlement.committed
  <2>1. /\ Returned(reservation[k]) \in EntitlementRow
        /\ Returned(reservation[k]).reserved
             = entitlement.reserved - reservation[k].requested
        /\ Returned(reservation[k]).committed = entitlement.committed
    BY <1>2, ReturnedFields
  <2> QED
    BY <1>1, <1>2, <2>1, GrantedUpdate
<1>6. Returns(k, "expired")
  BY <1>1, <1>3, <1>4, <1>5 DEF Returns
<1>7. Accounted
  BY <1>2, <1>5, <1>6 DEF Accounted, Moved
<1> QED
  BY <1>1, <1>7, FinishIsSound

LEMMA AddGrantIsSound ==
  ASSUME Good, Shape', NEW g \in Grants, AddGrant(g)
  PROVE  Sound
<1> DEFINE sum == ActiveGranted(granted \union {g}, now)
           e == [entitlement EXCEPT !.granted = sum]
<1>1. /\ g \notin granted /\ granted' = granted \union {g} /\ entitlement' = e
      /\ UNCHANGED <<now, reservation, txn>>
  BY DEF AddGrant
<1>2. sum \in Nat
  BY ActiveGrows DEF Good, Shape
<1> HIDE DEF sum
<1>3. /\ e \in EntitlementRow /\ e.reserved = entitlement.reserved
      /\ e.committed = entitlement.committed
  BY <1>2, GrantedUpdate DEF Good
<1> HIDE DEF e
<1>4. Accounted
  BY <1>1, <1>3 DEF Accounted, Moved, KeepsBalance
<1> QED
  BY <1>1, <1>4, OthersStayRight DEF Sound, Accounted

LEMMA NextIsSound == Good /\ [Next]_vars => Good' /\ Sound
<1> SUFFICES ASSUME Good, [Next]_vars PROVE Good' /\ Sound
  OBVIOUS
<1>1. Shape' /\ LockInv'
  BY NextStep DEF Good, Step
<1>2. SUFFICES Sound
  BY <1>1 DEF Good, Sound, Accounted
<1>3. ASSUME NEW c \in Clients, StartReserve(c) \/ StartSettle(c) PROVE Sound
  BY <1>1, <1>3, StartsAreSound DEF Sessions
<1>4. ASSUME NEW w \in Workers, NEW k \in Keys, StartExpire(w, k) PROVE Sound
  BY <1>1, <1>4, StartsAreSound DEF Sessions
<1>5. ASSUME NEW s \in Sessions, Proceed(s) PROVE Sound
  BY <1>1, <1>5, LockEntitlementIsSound, ReserveNewIsSound, LocksAreSound,
     ExpireRepeatedIsSound, CommitIsSound, ReleaseIsSound, ExpireIsSound DEF Proceed
<1>6. ASSUME NEW s \in Sessions, Finish(s), UNCHANGED <<now, tables>> PROVE Sound
  BY <1>1, <1>6, NothingMoves, FinishIsSound DEF tables
<1>7. ASSUME NEW s \in Sessions, Abort(s) PROVE Sound
  BY <1>6, <1>7 DEF Abort
<1>8. CASE BreakDeadlock
  BY <1>6, <1>8 DEF BreakDeadlock
<1>9. ASSUME NEW g \in Grants, AddGrant(g) PROVE Sound
  BY <1>1, <1>9, AddGrantIsSound
<1>10. CASE Tick
  <2>1. Accounted
    BY <1>10 DEF Tick, tables, Accounted, Moved, KeepsBalance, Good
  <2> QED
    BY <1>1, <1>10, <2>1, OthersStayRight DEF Tick, Sound, Accounted
<1>11. CASE UNCHANGED vars
  BY <1>1, <1>11, NothingMoves, OthersStayRight DEF vars, Sound, Accounted
<1> QED
  BY <1>3, <1>4, <1>5, <1>7, <1>8, <1>9, <1>10, <1>11 DEF Next

-----------------------------------------------------------------------------
(* The balance and the ledger *)

BalanceInv == Balance(entitlement, reservation) /\ reservation \in [Keys -> Reservation]

LEMMA InitGood == Init => Good /\ BalanceInv /\ aborts \in Nat
<1> SUFFICES ASSUME Init PROVE Good /\ BalanceInv /\ aborts \in Nat
  OBVIOUS
<1>1. Shape /\ LockInv
  BY InitShape
<1>2. TxnInv
  BY DEF Init, TxnInv
<1>3. entitlement \in EntitlementRow /\ aborts \in Nat
  BY DEF Init, EntitlementRow
<1>4. reservation \in [Keys -> Reservation]
  BY DEF Init, Reservation
<1>5. Pending(reservation) = {} /\ Settled(reservation) = {}
  BY DEF Init, Pending, Settled
<1>6. entitlement.reserved = 0 /\ entitlement.committed = 0
  BY DEF Init
<1>7. Balance(entitlement, reservation)
  BY <1>5, <1>6, SumOfNone DEF Balance
<1> QED
  BY <1>1, <1>2, <1>3, <1>4, <1>7 DEF Good, BalanceInv

LEMMA RowIsReservation ==
  ASSUME NEW k \in Keys, reservation \in [Keys -> Reservation]
  PROVE  /\ reservation[k] \in ReservationRow
         /\ reservation[k].status = "committed" <=> reservation[k].committed > 0
         /\ reservation[k].committed <= reservation[k].requested
  BY DEF Reservation, ReservationRow

LEMMA ReservationMeans ==
  ASSUME NEW r \in ReservationRow, r.status = "committed" <=> r.committed > 0,
         r.committed <= r.requested
  PROVE  r \in Reservation
  BY DEF Reservation, ReservationRow

LEMMA EndedRow ==
  ASSUME NEW r \in ReservationRow, r.committed = 0, NEW status \in {"released", "expired"},
         NEW n, n = [r EXCEPT !.status = status]
  PROVE  n \in Reservation /\ n \in ReservationRow /\ n.status = status
<1>1. n \in ReservationRow /\ n.status = status
  BY StatusUpdate
<1>2. n.committed = 0 /\ n.requested \in Nat
  BY DEF ReservationRow
<1>3. (n.status = "committed" <=> n.committed > 0) /\ n.committed <= n.requested
  BY <1>1, <1>2
<1> QED
  BY <1>1, <1>3, ReservationMeans

ChargeOf(r, quantity) == [r EXCEPT !.status = "committed", !.committed = quantity]

LEMMA ChargedRow ==
  ASSUME NEW r \in ReservationRow, NEW quantity \in Nat, quantity > 0,
         quantity <= r.requested, NEW n, n = ChargeOf(r, quantity)
  PROVE  /\ n \in Reservation /\ n \in ReservationRow /\ n.status = "committed"
         /\ n.committed = quantity
<1>1. n \in ReservationRow /\ n.status = "committed" /\ n.committed = quantity
  BY CommitUpdate DEF ChargeOf
<1>2. n.requested = r.requested
  BY DEF ReservationRow, ChargeOf
<1>3. (n.status = "committed" <=> n.committed > 0) /\ n.committed <= n.requested
  BY <1>1, <1>2
<1> QED
  BY <1>1, <1>3, ReservationMeans

LEMMA BalanceStep ==
  ASSUME Shape, BalanceInv, Moved
  PROVE  BalanceInv'
<1>1. reservation \in [Keys -> ReservationRow] /\ reservation \in [Keys -> Reservation]
      /\ Balance(entitlement, reservation)
  BY DEF Shape, BalanceInv
<1>2. CASE KeepsBalance
  BY <1>1, <1>2 DEF KeepsBalance, BalanceInv, Balance
<1>3. ASSUME NEW k \in Keys, Reserves(k) PROVE BalanceInv'
  <2>1. PICK request \in Requests :
          /\ reservation' = [reservation EXCEPT ![k] =
               [status |-> "pending", requested |-> request.quantity, committed |-> 0,
                expiresAt |-> request.expiresAt]]
          /\ entitlement'.reserved = entitlement.reserved + request.quantity
    BY <1>3 DEF Reserves
  <2> DEFINE r == [status |-> "pending", requested |-> request.quantity, committed |-> 0,
                   expiresAt |-> request.expiresAt]
  <2>2. r \in Reservation /\ r \in ReservationRow /\ r.status = "pending"
        /\ r.requested = request.quantity
    <3>1. request.quantity \in Nat /\ request.expiresAt \in Nat
      BY ConstantsAssumption
    <3> QED
      BY <3>1 DEF Reservation, ReservationRow
  <2>3. reservation' = [reservation EXCEPT ![k] = r]
    BY <2>1
  <2> HIDE DEF r
  <2>4. reservation[k].status = "absent" /\ entitlement'.committed = entitlement.committed
    BY <1>3 DEF Reserves
  <2>5. Balance(entitlement', [reservation EXCEPT ![k] = r])
    BY <1>1, <2>1, <2>2, <2>4, BalanceOfReserve
  <2>6. reservation' \in [Keys -> Reservation]
    BY <1>1, <2>2, <2>3
  <2> QED
    BY <2>3, <2>5, <2>6 DEF BalanceInv, Balance
<1>4. ASSUME NEW k \in Keys, reservation[k].status = "pending"
      PROVE  reservation[k] \in ReservationRow /\ reservation[k].committed = 0
  BY <1>1, <1>4, RowIsReservation DEF ReservationRow
<1>5. ASSUME NEW k \in Keys, Charges(k) PROVE BalanceInv'
  <2>1. PICK quantity \in 1..reservation[k].requested :
          /\ reservation' = [reservation EXCEPT ![k].status = "committed",
                                                ![k].committed = quantity]
          /\ entitlement'.committed = entitlement.committed + quantity
    BY <1>5 DEF Charges
  <2> DEFINE r == [reservation[k] EXCEPT !.status = "committed", !.committed = quantity]
  <2>2. reservation[k].status = "pending"
        /\ entitlement'.reserved = entitlement.reserved - reservation[k].requested
    BY <1>5 DEF Charges
  <2>3. r \in Reservation /\ r \in ReservationRow /\ r.status = "committed"
        /\ r.committed = quantity
    <3>1. /\ reservation[k] \in ReservationRow /\ quantity \in Nat
          /\ quantity > 0 /\ quantity <= reservation[k].requested
      BY <1>1 DEF ReservationRow
    <3>2. r = ChargeOf(reservation[k], quantity)
      BY DEF ChargeOf
    <3> HIDE DEF r
    <3> QED
      BY <3>1, <3>2, ChargedRow
  <2>4. reservation' = [reservation EXCEPT ![k] = r]
    BY <1>1, <2>1
  <2> HIDE DEF r
  <2>5. Balance(entitlement', [reservation EXCEPT ![k] = r])
    BY <1>1, <2>1, <2>2, <2>3, BalanceOfCommit
  <2>6. reservation' \in [Keys -> Reservation]
    BY <1>1, <2>3, <2>4
  <2> QED
    BY <2>4, <2>5, <2>6 DEF BalanceInv, Balance
<1>6. ASSUME NEW k \in Keys, NEW status \in {"released", "expired"}, Returns(k, status)
      PROVE  BalanceInv'
  <2> DEFINE r == [reservation[k] EXCEPT !.status = status]
  <2>1. /\ reservation[k].status = "pending"
        /\ entitlement'.reserved = entitlement.reserved - reservation[k].requested
        /\ entitlement'.committed = entitlement.committed
        /\ reservation' = [reservation EXCEPT ![k].status = status]
    BY <1>6 DEF Returns
  <2>2. r \in Reservation /\ r \in ReservationRow /\ r.status = status
    BY <1>4, <2>1, EndedRow
  <2>3. reservation' = [reservation EXCEPT ![k] = r]
    BY <1>1, <2>1
  <2> HIDE DEF r
  <2>4. Balance(entitlement', [reservation EXCEPT ![k] = r])
    BY <1>1, <2>1, <2>2, BalanceOfEnd
  <2>5. reservation' \in [Keys -> Reservation]
    BY <1>1, <2>2, <2>3
  <2> QED
    BY <2>3, <2>4, <2>5 DEF BalanceInv, Balance
<1> QED
  BY <1>2, <1>3, <1>5, <1>6 DEF Moved

LEMMA AbortsStep == aborts \in Nat /\ [Next]_vars => aborts' \in Nat
<1> SUFFICES ASSUME aborts \in Nat, [Next]_vars PROVE aborts' \in Nat
  OBVIOUS
<1>1. ASSUME NEW c \in Clients, StartReserve(c) \/ StartSettle(c) PROVE aborts' = aborts
  BY <1>1 DEF StartReserve, StartSettle, Begin
<1>2. ASSUME NEW w \in Workers, NEW k \in Keys, StartExpire(w, k) PROVE aborts' = aborts
  BY <1>2 DEF StartExpire, Begin
<1>3. ASSUME NEW s \in Sessions, Proceed(s) PROVE aborts' = aborts
  BY <1>3 DEF Proceed, LockEntitlement, ReserveNew, ReserveAgain, ExpireRepeated,
              LockReservation, Commit, Release, Expire
<1>4. ASSUME NEW s \in Sessions, Abort(s) PROVE aborts' \in Nat
  BY <1>4 DEF Abort
<1>5. ASSUME NEW g \in Grants, AddGrant(g) PROVE aborts' = aborts
  BY <1>5 DEF AddGrant
<1> QED
  BY <1>1, <1>2, <1>3, <1>4, <1>5 DEF Next, BreakDeadlock, Tick, vars

LEMMA TypesFollow == Good /\ BalanceInv /\ aborts \in Nat => TypeOK
<1> SUFFICES ASSUME Good, BalanceInv, aborts \in Nat PROVE TypeOK
  OBVIOUS
<1>1. entitlement.reserved \in Nat /\ entitlement.committed \in Nat
  BY BalanceIsNatural DEF Good, Shape, BalanceInv
<1>2. entitlement \in Entitlement
  BY <1>1 DEF Good, EntitlementRow, Entitlement
<1>3. txn \in [Sessions -> Transaction \union {NoTxn}]
  BY DEF Good, Shape
<1> QED
  BY <1>2, <1>3 DEF Good, Shape, BalanceInv, TypeOK

LEMMA ActiveMeans ==
  ASSUME NEW at
  PROVE  Ledger!Active(at) = ActiveGranted(granted, at)
  BY DEF Ledger!Active, ActiveGranted, Ledger!MapThenSumSet, Ledger!MapThenFoldSet,
         MapThenSumSet, MapThenFoldSet

\* Every step is one of the ledger or leaves what it sees alone.
LEMMA LedgerStep ==
  ASSUME Good, BalanceInv, Moved
  PROVE  [Ledger!Next]_(Ledger!vars)
<1>1. CASE KeepsBalance
  BY <1>1 DEF KeepsBalance, Ledger!Next, Ledger!Grant, Ledger!Tick, Ledger!vars
<1>2. ASSUME NEW k \in Keys, Reserves(k) PROVE Ledger!Reserve(k)
  <2>1. PICK request \in Requests, at \in 0..now :
          /\ request.key = k /\ at < request.expiresAt
          /\ entitlement.committed + entitlement.reserved + request.quantity
               <= ActiveGranted(granted, at)
          /\ reservation' = [reservation EXCEPT ![k] =
               [status |-> "pending", requested |-> request.quantity, committed |-> 0,
                expiresAt |-> request.expiresAt]]
    BY <1>2 DEF Reserves
  <2>2. Ledger!InUse = entitlement.reserved + entitlement.committed
    BY InUseMeans DEF Good, Shape, BalanceInv
  <2>3. Ledger!Active(at) = ActiveGranted(granted, at)
    BY ActiveMeans
  <2>4. request.quantity \in Nat /\ entitlement.reserved \in Int /\ entitlement.committed \in Int
    BY ConstantsAssumption, CountersAreNumbers DEF Good
  <2>5. Ledger!InUse + request.quantity
          = entitlement.committed + entitlement.reserved + request.quantity
    BY <2>2, <2>4
  <2>6. Ledger!InUse + request.quantity <= Ledger!Active(at)
    BY <2>1, <2>3, <2>5
  <2>7. reservation[k].status = "absent" /\ UNCHANGED <<now, granted>>
    BY <1>2 DEF Reserves
  <2> QED
    BY <2>1, <2>6, <2>7 DEF Ledger!Reserve
<1>3. ASSUME NEW k \in Keys, Charges(k) PROVE Ledger!Commit(k)
  BY <1>3 DEF Charges, Ledger!Commit
<1>4. ASSUME NEW k \in Keys, NEW status \in {"released", "expired"}, Returns(k, status)
      PROVE  Ledger!Release(k) \/ Ledger!Expire(k)
  BY <1>4 DEF Returns, Ledger!Release, Ledger!Expire
<1> QED
  BY <1>1, <1>2, <1>3, <1>4 DEF Moved, Ledger!Next

LEMMA InvariantHolds == Spec => [](Good /\ BalanceInv /\ aborts \in Nat)
<1>1. Good /\ BalanceInv /\ aborts \in Nat /\ [Next]_vars
        => (Good /\ BalanceInv /\ aborts \in Nat)'
  BY NextIsSound, BalanceStep, AbortsStep DEF Good, Sound, Accounted
<1> QED
  BY InitGood, <1>1, PTL DEF Spec

-----------------------------------------------------------------------------
(* Theorems *)

\* Row locks exclude: one transaction at most holds the entitlement and one each
\* reservation, and the repeated reserve that holds the entitlement relies on a
\* reservation that stays pending until it has written.
THEOREM LocksExclude == Spec => [](Shape /\ LockInv)
<1>1. Shape /\ LockInv /\ [Next]_vars => (Shape /\ LockInv)'
  BY NextStep DEF Step
<1> QED
  BY InitShape, <1>1, PTL DEF Spec

\* Committed quota is metered: the event of a reservation and the quantity it was
\* charged are written together or not at all.
THEOREM CommittedQuotaIsMetered == Spec => []CommittedIsMetered
<1>1. Init => CommittedIsMetered
  BY DEF Init, CommittedIsMetered
<1>2. ASSUME CommittedIsMetered, KeyStep PROVE CommittedIsMetered'
  <2> SUFFICES ASSUME NEW k \in Keys
               PROVE  event'[k] = IF reservation'[k].status = "committed"
                                  THEN reservation'[k].committed ELSE 0
    BY DEF CommittedIsMetered
  <2>1. event[k] = IF reservation[k].status = "committed"
                   THEN reservation[k].committed ELSE 0
    BY <1>2 DEF CommittedIsMetered
  <2>2. Kept(k) \/ Reserved(k) \/ Charged(k) \/ Ended(k)
    BY <1>2 DEF KeyStep
  <2> QED
    BY <2>1, <2>2 DEF Kept, Reserved, Charged, Ended
<1>3. CommittedIsMetered /\ Shape /\ LockInv /\ [Next]_vars => CommittedIsMetered'
  BY <1>2, NextStep DEF Step
<1> QED
  BY <1>1, <1>3, LocksExclude, PTL DEF Spec

\* An outcome is final, whichever transactions race for the reservation.
THEOREM OutcomesAreFinal == Spec => OutcomeIsFinal
<1>1. ASSUME KeyStep, NEW k \in Keys,
             reservation[k].status \in {"committed", "released", "expired"}
      PROVE  reservation'[k] = reservation[k]
  BY <1>1 DEF KeyStep, Kept, Reserved, Charged, Ended
<1>2. Shape /\ LockInv /\ [Next]_vars =>
        [\A k \in Keys :
           reservation[k].status \in {"committed", "released", "expired"}
           => reservation'[k] = reservation[k]]_vars
  BY <1>1, NextStep DEF Step
<1> QED
  BY <1>2, LocksExclude, PTL DEF Spec, OutcomeIsFinal

\* No reservation is forgotten: as long as it is pending its expiry job is queued,
\* because both are inserted together and the job is only completed after an outcome.
THEOREM PendingReservationsHaveJobs == Spec => []PendingHasJob
<1>1. Init => PendingHasJob
  BY DEF Init, PendingHasJob
<1>2. ASSUME PendingHasJob, KeyStep PROVE PendingHasJob'
  BY <1>2 DEF PendingHasJob, KeyStep, Kept, Reserved, Charged, Ended
<1>3. PendingHasJob /\ Shape /\ LockInv /\ [Next]_vars => PendingHasJob'
  BY <1>2, NextStep DEF Step
<1> QED
  BY <1>1, <1>3, LocksExclude, PTL DEF Spec
\* Type correctness.  The counters of the balance never leave
\* the natural numbers, although every settlement subtracts from one of them, and the
\* committed quantity of a reservation is what its status says.
THEOREM TypeCorrect == Spec => []TypeOK
  BY InvariantHolds, TypesFollow, PTL

\* The two counters of the balance row are what the reservations add up to: reserve,
\* commit, release, the expiry job and the repeated reserve race to move the quantity of
\* a reservation, each after waiting for its rows, and one of them moves it, once.
THEOREM CountersAreExact == Spec => []BalanceIsExact
<1>1. Good /\ BalanceInv /\ aborts \in Nat => BalanceIsExact
  BY BalanceMeans DEF Good, BalanceInv
<1> QED
  BY InvariantHolds, <1>1, PTL

\* Locks, counters and stale reads implement the ledger: every transaction takes effect
\* in one step of it or in none.
THEOREM LedgerIsImplemented == Spec => ImplementsLedger
<1>1. Init => Ledger!Init
  BY DEF Init, Ledger!Init, Ledger!NoReservation
<1>2. Good /\ BalanceInv /\ aborts \in Nat /\ [Next]_vars => [Ledger!Next]_(Ledger!vars)
  BY NextIsSound, LedgerStep DEF Sound, Accounted
<1> QED
  BY InvariantHolds, <1>1, <1>2, PTL DEF Spec, ImplementsLedger, Ledger!Spec
=============================================================================
