----------------------------- MODULE LoansProofs -----------------------------
(***************************************************************************)
(* Proofs about Loans.  The table and the types are inductive (TableInv)   *)
(* whatever guest code does.  With the slices an unasked operation exposed *)
(* set apart, guest code and live slices exclude each other and the memory *)
(* of a live slice stays in place (StackInv); the refinement of Borrowing  *)
(* rests on both.  As long as guest code has replaced nothing an unasked   *)
(* operation reads, no slice is exposed (Untouched).                       *)
(***************************************************************************)
EXTENDS Loans, FiniteSetTheorems, TLAPS

-----------------------------------------------------------------------------
(* The holders of a storage. *)

LEMMA HoldersAreFinite ==
    ASSUME NEW s
    PROVE  IsFiniteSet(Holders(s)) /\ Holders(s) \subseteq Borrows
<1>1. Holders(s) \in SUBSET Borrows
  BY DEF Holders
<1> QED
  BY <1>1, FS_Subset, BorrowsAssumption

\* A new Bytes value holds the storage it names and no other.
LEMMA HoldersAfterNew ==
    ASSUME NEW g \in Borrows, NEW v \in BytesType, NEW s \in Storages,
           bytes \in [Borrows -> BytesType \cup {NoBorrow}],
           bytes[g] = NoBorrow,
           bytes' = [bytes EXCEPT ![g] = v]
    PROVE  /\ g \notin Holders(s)
           /\ v.storage = s => Holders(s)' = Holders(s) \cup {g}
           /\ v.storage # s => Holders(s)' = Holders(s)
<1>1. g \notin Holders(s)
  BY DEF Holders
<1>2. v # NoBorrow
  BY NoBorrowAssumption
<1>3. \A h \in Borrows : bytes'[h] = IF h = g THEN v ELSE bytes[h]
  OBVIOUS
<1>4. Holders(s)' = {h \in Borrows : bytes'[h] # NoBorrow /\ bytes'[h].storage = s}
  BY DEF Holders
<1> QED
  BY <1>1, <1>2, <1>3, <1>4 DEF Holders

\* A dropped Bytes value holds nothing, and the others hold what they held.
LEMMA HoldersAfterDrop ==
    ASSUME NEW g \in Borrows, NEW s \in Storages,
           bytes \in [Borrows -> BytesType \cup {NoBorrow}],
           bytes[g] # NoBorrow,
           bytes' = [bytes EXCEPT ![g] = NoBorrow]
    PROVE  /\ bytes[g].storage = s => g \in Holders(s)
           /\ bytes[g].storage # s => Holders(s)' = Holders(s)
           /\ Holders(s)' = Holders(s) \ {g}
<1>1. \A h \in Borrows : bytes'[h] = IF h = g THEN NoBorrow ELSE bytes[h]
  OBVIOUS
<1>2. Holders(s)' = {h \in Borrows : bytes'[h] # NoBorrow /\ bytes'[h].storage = s}
  BY DEF Holders
<1> QED
  BY <1>1, <1>2 DEF Holders

-----------------------------------------------------------------------------
(* The table. *)

TableInv == TypeOK /\ TableIsExact /\ ExclusiveIsAlone

\* What the table says of a storage, without the cardinality.
LEMMA LoanOfStorage ==
    ASSUME TableInv, NEW s \in Storages
    PROVE  /\ entries[s] \in LoanType
           /\ entries[s] = NoLoan <=> Holders(s) = {}
           /\ entries[s].kind = "none" <=> entries[s] = NoLoan
           /\ entries[s].kind \notin Kinds <=> entries[s] = NoLoan
<1>1. entries[s] \in LoanType
  BY DEF TableInv, TypeOK
<1>2. entries[s].count = 0 <=> Holders(s) = {}
  BY HoldersAreFinite, FS_EmptySet DEF TableInv, TableIsExact
<1>3. entries[s].kind = "none" <=> Holders(s) = {}
  BY DEF TableInv, TableIsExact
<1>4. entries[s] = NoLoan <=> entries[s].kind = "none" /\ entries[s].count = 0
  BY <1>1 DEF LoanType, NoLoan
<1> QED
  BY <1>1, <1>2, <1>3, <1>4 DEF LoanType, Kinds

\* The steps that neither lend nor release leave the table's facts alone.
LEMMA TableKept ==
    ASSUME TableInv, UNCHANGED <<entries, bytes>>
    PROVE  /\ TableIsExact' /\ ExclusiveIsAlone'
           /\ \A s : Holders(s)' = Holders(s)
<1>1. \A s : Holders(s)' = Holders(s)
  BY DEF Holders
<1> QED
  BY <1>1 DEF TableInv, TableIsExact, ExclusiveIsAlone

LEMMA TableAfterEmpty ==
    ASSUME TableInv, NEW g \in Borrows, NEW b \in Buffers, NEW kind \in Kinds,
           BorrowEmpty(g, b, kind)
    PROVE  TableInv'
<1> DEFINE v == [storage |-> Empty, buffer |-> b, kind |-> kind, frame |-> depth]
<1>1. v \in BytesType
  BY DEF TableInv, TypeOK, BytesType
<1>2. bytes' = [bytes EXCEPT ![g] = v] /\ bytes[g] = NoBorrow
  BY DEF BorrowEmpty, New
<1>4. ASSUME NEW s \in Storages
      PROVE  Holders(s)' = Holders(s) /\ \A h \in Holders(s) : bytes'[h] = bytes[h]
  <2>1. v.storage # s
    BY StoragesAssumption
  <2>2. g \notin Holders(s) /\ Holders(s)' = Holders(s)
    BY <1>1, <1>2, <2>1, HoldersAfterNew DEF TableInv, TypeOK
  <2> QED
    BY <1>2, <2>2, HoldersAreFinite DEF TableInv, TypeOK
<1>3. TypeOK'
  <2>1. exposed' \subseteq (UNION {Holders(s) : s \in Storages})'
    BY <1>4 DEF TableInv, TypeOK, BorrowEmpty
  <2> QED
    BY <1>1, <1>2, <2>1 DEF TableInv, TypeOK, BorrowEmpty, New, Kinds
<1>5. TableIsExact'
  BY <1>4 DEF TableInv, TableIsExact, BorrowEmpty
<1>6. ExclusiveIsAlone'
  BY <1>4 DEF TableInv, ExclusiveIsAlone
<1> QED
  BY <1>3, <1>5, <1>6 DEF TableInv

LEMMA TableAfterLend ==
    ASSUME TableInv, NEW g \in Borrows, NEW b \in Buffers, NEW kind \in Kinds,
           Lend(g, b, kind)
    PROVE  TableInv'
<1>1. PICK m \in Storages : m = memory[b]
  BY DEF Lend, New, Reachable
<1> DEFINE v == [storage |-> m, buffer |-> b, kind |-> kind, frame |-> depth]
<1>2. v \in BytesType
  BY <1>1 DEF TableInv, TypeOK, BytesType
<1>3. bytes' = [bytes EXCEPT ![g] = v] /\ bytes[g] = NoBorrow
  BY <1>1 DEF Lend, New
<1>4. /\ entries[m] \in LoanType
      /\ Grants(entries[m], kind)
      /\ entries' = [entries EXCEPT ![m] = [kind |-> kind, count |-> entries[m].count + 1]]
      /\ entries' \in [Storages -> LoanType]
  BY <1>1 DEF TableInv, TypeOK, Lend, Lent, LoanType
<1>6. g \notin Holders(m) /\ Holders(m)' = Holders(m) \cup {g}
  <2>1. v.storage = m /\ bytes \in [Borrows -> BytesType \cup {NoBorrow}]
    BY DEF TableInv, TypeOK
  <2>2. QED
    BY <1>2, <1>3, <2>1, HoldersAfterNew
<1>7. ASSUME NEW s \in Storages, s # m
      PROVE  Holders(s)' = Holders(s) /\ g \notin Holders(s) /\ entries'[s] = entries[s]
  <2>1. v.storage # s
    BY <1>7
  <2>2. Holders(s)' = Holders(s) /\ g \notin Holders(s)
    BY <1>2, <1>3, <2>1, HoldersAfterNew DEF TableInv, TypeOK
  <2> QED
    BY <1>4, <1>7, <2>2 DEF TableInv, TypeOK
<1>5. TypeOK'
  <2>1. bytes' \in [Borrows -> BytesType \cup {NoBorrow}]
    BY <1>2, <1>3 DEF TableInv, TypeOK
  <2>2. answer' = "granted" /\ UNCHANGED <<depth, code>>
    BY DEF Lend, New
  <2>3. memory' \in [Buffers -> Storages \cup {Detached}]
    BY DEF Lend, TableInv, TypeOK
  <2>4. \A s \in Storages : Holders(s) \subseteq Holders(s)'
    BY <1>6, <1>7
  <2>5. exposed \subseteq (UNION {Holders(s) : s \in Storages})'
    BY <2>4 DEF TableInv, TypeOK
  <2>6. g \in (UNION {Holders(s) : s \in Storages})'
    BY <1>1, <1>6
  <2>7. exposed' \subseteq exposed \cup {g}
    BY DEF Lend
  <2>8. exposed' \subseteq (UNION {Holders(s) : s \in Storages})'
    BY <2>5, <2>6, <2>7
  <2> QED
    BY <1>4, <2>1, <2>2, <2>3, <2>8 DEF TableInv, TypeOK
<1>8. \A s \in Storages : \A h \in Holders(s) : h # g => bytes'[h] = bytes[h]
  BY <1>3, HoldersAreFinite DEF TableInv, TypeOK
<1>9. bytes'[g] = v /\ bytes'[g].kind = kind
  BY <1>3 DEF TableInv, TypeOK
\* Before the step the storage is free, or everything that holds it is shared.
<1>10. \/ Holders(m) = {}
       \/ kind = "shared" /\ \A h \in Holders(m) : bytes[h].kind = "shared"
  BY <1>1, <1>4, LoanOfStorage DEF Grants, TableInv, TableIsExact
<1>11. entries'[m].kind = kind /\ entries'[m].count = entries[m].count + 1
  BY <1>1, <1>4 DEF TableInv, TypeOK
<1>12. Cardinality(Holders(m)') = Cardinality(Holders(m)) + 1
  BY <1>6, HoldersAreFinite, FS_AddElement
<1>13. TableIsExact'
  <2> SUFFICES ASSUME NEW s \in Storages
               PROVE  /\ entries'[s].count = Cardinality(Holders(s)')
                      /\ entries'[s].kind = "none" <=> Holders(s)' = {}
                      /\ \A h \in Holders(s)' : bytes'[h].kind = entries'[s].kind
    BY DEF TableIsExact
  <2>1. CASE s = m
    <3>1. entries'[s].count = Cardinality(Holders(s)')
      BY <1>1, <1>11, <1>12, <2>1 DEF TableInv, TableIsExact
    <3>2. entries'[s].kind # "none" /\ Holders(s)' # {}
      BY <1>6, <1>11, <2>1 DEF Kinds
    <3>3. \A h \in Holders(s)' : bytes'[h].kind = entries'[s].kind
      BY <1>1, <1>6, <1>8, <1>9, <1>10, <1>11, <2>1
    <3> QED
      BY <3>1, <3>2, <3>3
  <2>2. CASE s # m
    BY <1>7, <1>8, <2>2 DEF TableInv, TableIsExact
  <2> QED
    BY <2>1, <2>2
<1>14. ExclusiveIsAlone'
  <2> SUFFICES ASSUME NEW s \in Storages, NEW h \in Holders(s)', NEW k \in Holders(s)', h # k
               PROVE  bytes'[h].kind = "shared" /\ bytes'[k].kind = "shared"
    BY DEF ExclusiveIsAlone
  <2>1. CASE s = m
    BY <1>1, <1>6, <1>8, <1>9, <1>10, <2>1
  <2>2. CASE s # m
    BY <1>7, <1>8, <2>2 DEF TableInv, ExclusiveIsAlone
  <2> QED
    BY <2>1, <2>2
<1> QED
  BY <1>5, <1>13, <1>14 DEF TableInv

LEMMA TableAfterDrop ==
    ASSUME TableInv, NEW g \in Borrows, Drop(g)
    PROVE  TableInv'
<1>1. bytes[g] \in BytesType /\ bytes' = [bytes EXCEPT ![g] = NoBorrow]
  BY DEF Drop, TableInv, TypeOK
<1>2. \A s \in Storages : \A h \in Holders(s)' : h # g /\ bytes'[h] = bytes[h]
  BY <1>1 DEF TableInv, TypeOK, Holders
<1>3. \A s \in Storages : Holders(s)' = Holders(s) \ {g}
  BY HoldersAfterDrop, <1>1 DEF Drop, TableInv, TypeOK
<1>4. ExclusiveIsAlone'
  BY <1>2, <1>3 DEF TableInv, ExclusiveIsAlone
<1>7. exposed' \subseteq (UNION {Holders(s) : s \in Storages})'
  BY <1>3 DEF Drop, TableInv, TypeOK
<1>5. CASE bytes[g].storage = Empty
  <2>1. \A s \in Storages : bytes[g].storage # s
    BY <1>5, StoragesAssumption
  <2>2. \A s \in Storages : Holders(s)' = Holders(s)
    BY <2>1, <1>1, HoldersAfterDrop DEF Drop, TableInv, TypeOK
  <2>3. TypeOK'
    BY <1>1, <1>5, <1>7 DEF TableInv, TypeOK, Drop
  <2>4. TableIsExact'
    BY <1>2, <1>5, <2>2 DEF TableInv, TableIsExact, Drop
  <2> QED
    BY <1>4, <2>3, <2>4 DEF TableInv
<1>6. CASE bytes[g].storage # Empty
  <2>1. PICK m \in Storages : m = bytes[g].storage
    BY <1>1, <1>6 DEF BytesType
  <2>2. entries' = [entries EXCEPT ![m] = Released(entries[m])]
    BY <1>6, <2>1 DEF Drop
  <2>3. entries[m] \in LoanType /\ Released(entries[m]) \in LoanType
    BY DEF TableInv, TypeOK, LoanType, Released, NoLoan
  <2>4. TypeOK'
    BY <1>1, <1>7, <2>2, <2>3 DEF TableInv, TypeOK, Drop
  <2>5. g \in Holders(m) /\ Holders(m)' = Holders(m) \ {g}
    BY <1>1, <1>3, <2>1, HoldersAfterDrop DEF Drop, TableInv, TypeOK
  <2>6. Cardinality(Holders(m)') = entries[m].count - 1
    BY <2>5, HoldersAreFinite, FS_RemoveElement DEF TableInv, TableIsExact
  <2>7. Holders(m)' = {} <=> entries[m].count = 1
    <3>1. IsFiniteSet(Holders(m)')
      BY <2>5, HoldersAreFinite, FS_RemoveElement
    <3> QED
      BY <2>3, <2>6, <3>1, FS_EmptySet DEF LoanType
  <2>8. entries[m].kind = bytes[g].kind /\ entries[m].kind \in Kinds
    BY <1>1, <2>5 DEF TableInv, TableIsExact, BytesType
  <2>9. entries[m].kind = "exclusive" => Holders(m)' = {}
    BY <2>5, <2>8 DEF TableInv, ExclusiveIsAlone
  <2>10. TableIsExact'
    <3> SUFFICES ASSUME NEW s \in Storages
                 PROVE  /\ entries'[s].count = Cardinality(Holders(s)')
                        /\ entries'[s].kind = "none" <=> Holders(s)' = {}
                        /\ \A h \in Holders(s)' : bytes'[h].kind = entries'[s].kind
      BY DEF TableIsExact
    <3>1. CASE s # m
      <4>1. Holders(s)' = Holders(s)
        BY <1>1, <2>1, <3>1, HoldersAfterDrop DEF Drop, TableInv, TypeOK
      <4>2. entries'[s] = entries[s]
        BY <2>2, <3>1 DEF TableInv, TypeOK
      <4> QED
        BY <1>2, <4>1, <4>2 DEF TableInv, TableIsExact
    <3>2. CASE s = m /\ entries[m].kind = "shared" /\ entries[m].count > 1
      <4>1. entries'[m].kind = "shared" /\ entries'[m].count = entries[m].count - 1
        BY <2>2, <2>3, <3>2 DEF TableInv, TypeOK, LoanType, Released
      <4>2. Holders(m)' # {}
        BY <2>7, <3>2
      <4>3. \A h \in Holders(m)' : bytes'[h].kind = "shared"
        BY <1>2, <2>5, <3>2 DEF TableInv, TableIsExact
      <4> QED
        BY <2>6, <3>2, <4>1, <4>2, <4>3
    <3>3. CASE s = m /\ ~(entries[m].kind = "shared" /\ entries[m].count > 1)
      <4>1. entries'[m] = NoLoan
        BY <2>2, <3>3 DEF TableInv, TypeOK, Released
      <4>2. Holders(m)' = {}
        <5>1. CASE entries[m].kind = "shared"
          <6>1. entries[m].count \in Nat /\ entries[m].count # 0
            BY <2>3, <2>5, HoldersAreFinite, FS_EmptySet DEF LoanType, TableInv, TableIsExact
          <6> QED
            BY <2>7, <3>3, <5>1, <6>1
        <5> QED
          BY <2>8, <2>9, <5>1 DEF Kinds
      <4> QED
        BY <3>3, <4>1, <4>2, FS_EmptySet DEF NoLoan
    <3> QED
      BY <3>1, <3>2, <3>3
  <2> QED
    BY <1>4, <2>4, <2>10 DEF TableInv
<1> QED
  BY <1>5, <1>6

LEMMA InitTableInv == Init => TableInv
<1> SUFFICES ASSUME Init
             PROVE  TableInv
  OBVIOUS
<1>1. \A s : Holders(s) = {}
  BY DEF Init, Holders
<1>2. NoLoan \in LoanType
  BY DEF NoLoan, LoanType
<1>3. TypeOK
  BY <1>2 DEF Init, TypeOK
<1>4. TableIsExact /\ ExclusiveIsAlone
  BY <1>1, FS_EmptySet DEF Init, TableIsExact, ExclusiveIsAlone, NoLoan
<1> QED
  BY <1>3, <1>4 DEF TableInv

LEMMA StepTableInv == TableInv /\ [Next]_vars => TableInv'
<1> SUFFICES ASSUME TableInv, [Next]_vars
             PROVE  TableInv'
  OBVIOUS
<1>1. ASSUME NEW b \in Buffers, NEW kind \in Kinds, RefuseLend(b, kind)
      PROVE  TableInv'
  <2>1. memory[b] \in Storages /\ entries[memory[b]] # NoLoan
    BY <1>1 DEF RefuseLend, Reachable, Grants
  <2>2. entries[memory[b]].kind \in Kinds
    BY <2>1, LoanOfStorage
  <2> QED
    BY <1>1, <2>2, TableKept DEF TableInv, TypeOK, RefuseLend
<1>2. CASE RefuseCall
  <2>1. PICK s \in Storages : entries[s] # NoLoan /\ answer' = entries[s].kind
    BY <1>2 DEF RefuseCall
  <2>2. entries[s].kind \in Kinds
    BY <2>1, LoanOfStorage
  <2> QED
    BY <1>2, <2>1, <2>2, TableKept DEF TableInv, TypeOK, RefuseCall
<1>3. ASSUME \/ \E b \in Buffers, kind \in Kinds : ThrowNew(b, kind)
             \/ AskDataView \/ NewSet
      PROVE  TableInv'
  <2>1. UNCHANGED <<entries, bytes, memory, answer>> /\ code = "host"
    BY <1>3 DEF ThrowNew, AskDataView, NewSet
  <2>2. \/ UNCHANGED <<depth, code, exposed>>
        \/ depth' = depth + 1 /\ code' = "guest" /\ exposed' = UNION {Holders(s) : s \in Storages}
    BY <1>3 DEF ThrowNew, AskDataView, NewSet, Expose
  <2>3. depth' \in Nat \ {0} /\ code' \in {"host", "guest"} /\ (code' = "host" <=> depth' % 2 = 1)
    BY <2>1, <2>2 DEF TableInv, TypeOK
  <2>4. exposed' \subseteq (UNION {Holders(s) : s \in Storages})'
    BY <2>1, <2>2, TableKept DEF TableInv, TypeOK
  <2>5. TypeOK'
    BY <2>1, <2>3, <2>4 DEF TableInv, TypeOK
  <2> QED
    BY <2>1, <2>5, TableKept DEF TableInv
<1>4. CASE Call
  <2>1. UNCHANGED <<entries, bytes>>
    BY <1>4 DEF Call
  <2>2. TypeOK'
    BY <1>4, <2>1, TableKept DEF TableInv, TypeOK, Call
  <2> QED
    BY <2>1, <2>2, TableKept DEF TableInv
<1>5. CASE HostReturns
  <2>1. UNCHANGED <<entries, bytes>>
    BY <1>5 DEF HostReturns
  <2>2. TypeOK'
    BY <1>5, <2>1, TableKept DEF TableInv, TypeOK, HostReturns
  <2> QED
    BY <2>1, <2>2, TableKept DEF TableInv
<1>6. CASE GuestReturns
  <2>1. UNCHANGED <<entries, bytes>>
    BY <1>6 DEF GuestReturns
  <2>2. TypeOK'
    BY <1>6, <2>1, TableKept DEF TableInv, TypeOK, GuestReturns
  <2> QED
    BY <2>1, <2>2, TableKept DEF TableInv
<1>7. CASE GuestCallsHost
  <2>1. UNCHANGED <<entries, bytes>>
    BY <1>7 DEF GuestCallsHost
  <2>2. TypeOK'
    BY <1>7, <2>1, TableKept DEF TableInv, TypeOK, GuestCallsHost
  <2> QED
    BY <2>1, <2>2, TableKept DEF TableInv
<1>8. ASSUME NEW b \in Buffers, NEW s \in Storages, Move(b, s)
      PROVE  TableInv'
  <2>1. UNCHANGED <<entries, bytes>>
    BY <1>8 DEF Move
  <2>2. TypeOK'
    BY <1>8, <2>1, TableKept DEF TableInv, TypeOK, Move
  <2> QED
    BY <2>1, <2>2, TableKept DEF TableInv
<1>9. ASSUME NEW b \in Buffers, Detach(b)
      PROVE  TableInv'
  <2>1. memory' \in [Buffers -> Storages \cup {Detached}]
    BY <1>9 DEF TableInv, TypeOK, Detach
  <2>2. UNCHANGED <<entries, bytes>>
    BY <1>9 DEF Detach
  <2>3. TypeOK'
    BY <1>9, <2>1, <2>2, TableKept DEF TableInv, TypeOK, Detach
  <2> QED
    BY <2>2, <2>3, TableKept DEF TableInv
<1>10. CASE UNCHANGED vars
  <2>1. UNCHANGED <<entries, bytes>>
    BY <1>10 DEF vars
  <2>2. TypeOK'
    BY <1>10, <2>1, TableKept DEF TableInv, TypeOK, vars
  <2> QED
    BY <2>1, <2>2, TableKept DEF TableInv
<1> QED
  BY <1>1, <1>2, <1>3, <1>4, <1>5, <1>6, <1>7, <1>8, <1>9, <1>10,
     TableAfterEmpty, TableAfterLend, TableAfterDrop
  DEF Next

LEMMA TableInvariance == Spec => []TableInv
BY InitTableInv, StepTableInv, PTL DEF Spec

\* Every variable keeps its type, and host and guest frames alternate.
THEOREM TypeCorrect == Spec => []TypeOK
BY TableInvariance, PTL DEF TableInv

\* The table counts exactly the Bytes values that hold each loan, in whatever
\* order they are made and dropped, whatever guest code does in between.
THEOREM TableAlwaysExact == Spec => []TableIsExact
BY TableInvariance, PTL DEF TableInv

\* A mutable slice of guest memory is the only slice of it.
THEOREM ExclusiveAlwaysAlone == Spec => []ExclusiveIsAlone
BY TableInvariance, PTL DEF TableInv

-----------------------------------------------------------------------------
(* Guest code and live slices that are not exposed exclude each other.    *)

\* A slice that is not exposed belongs to the frame on top of the stack, and that is
\* a host frame: everything below waits for it with nothing else lent.
SlicesOnTop ==
    \A s \in Storages : \A g \in Holders(s) :
        g \in exposed \/ (code = "host" /\ bytes[g].frame = depth)

StackInv == SlicesOnTop /\ SlicesStayInPlace

LoansInv == TableInv /\ StackInv

\* With an empty table nothing is lent.
LEMMA SettledLendsNothing ==
    ASSUME TableInv, Settled
    PROVE  \A s \in Storages : Holders(s) = {}
BY LoanOfStorage DEF Settled

LEMMA GuestRunsBesideExposed ==
    ASSUME StackInv, code = "guest"
    PROVE  \A s \in Storages : Holders(s) \subseteq exposed
BY DEF StackInv, SlicesOnTop

\* A step that finds every slice exposed, or exposes it, may change the stack and
\* the memory.
LEMMA OnlyExposed ==
    ASSUME UNCHANGED bytes, \A s \in Storages : Holders(s) \subseteq exposed'
    PROVE  StackInv'
<1>1. \A s \in Storages : Holders(s)' = Holders(s)
  BY DEF Holders
<1> QED
  BY <1>1 DEF StackInv, SlicesOnTop, SlicesStayInPlace

LEMMA StackKept ==
    ASSUME StackInv, UNCHANGED <<bytes, memory, depth, code, exposed>>
    PROVE  StackInv'
<1>1. \A s \in Storages : Holders(s)' = Holders(s)
  BY DEF Holders
<1> QED
  BY <1>1 DEF StackInv, SlicesOnTop, SlicesStayInPlace

\* What a new Bytes value holds and what the others hold.
LEMMA HoldersOfNew ==
    ASSUME LoansInv, NEW g \in Borrows, NEW b \in Buffers, NEW kind \in Kinds,
           NEW m \in Storages \cup {Empty}, New(g, b, m, kind),
           NEW s \in Storages, NEW h \in Holders(s)'
    PROVE  \/ /\ h = g /\ m = s /\ code' = "host"
              /\ bytes'[h].buffer = b /\ bytes'[h].frame = depth'
           \/ h \in Holders(s) /\ bytes'[h] = bytes[h]
<1> DEFINE v == [storage |-> m, buffer |-> b, kind |-> kind, frame |-> depth]
<1>1. bytes' = [bytes EXCEPT ![g] = v] /\ code = "host" /\ UNCHANGED <<depth, code>>
  BY DEF New
<1>2. h \in Borrows /\ bytes'[h] # NoBorrow /\ bytes'[h].storage = s
  BY DEF Holders
<1>3. CASE h = g
  <2>1. bytes'[h] = v
    BY <1>1, <1>2, <1>3 DEF LoansInv, TableInv, TypeOK
  <2> QED
    BY <1>1, <1>2, <1>3, <2>1
<1>4. CASE h # g
  <2>1. bytes'[h] = bytes[h]
    BY <1>1, <1>2, <1>4 DEF LoansInv, TableInv, TypeOK
  <2> QED
    BY <1>2, <2>1 DEF Holders
<1> QED
  BY <1>3, <1>4

LEMMA StackAfterEmpty ==
    ASSUME LoansInv, NEW g \in Borrows, NEW b \in Buffers, NEW kind \in Kinds,
           BorrowEmpty(g, b, kind)
    PROVE  StackInv'
<1>1. New(g, b, Empty, kind) /\ UNCHANGED <<memory, exposed, depth, code>>
  BY DEF BorrowEmpty, New
<1>2. ASSUME NEW s \in Storages, NEW h \in Holders(s)'
      PROVE  h \in Holders(s) /\ bytes'[h] = bytes[h]
  BY <1>1, HoldersOfNew, StoragesAssumption
<1> QED
  BY <1>1, <1>2 DEF LoansInv, StackInv, SlicesOnTop, SlicesStayInPlace

LEMMA StackAfterLend ==
    ASSUME LoansInv, NEW g \in Borrows, NEW b \in Buffers, NEW kind \in Kinds,
           Lend(g, b, kind)
    PROVE  StackInv'
<1>1. PICK m \in Storages : m = memory[b]
  BY DEF Lend, New, Reachable
<1>2. New(g, b, m, kind) /\ UNCHANGED <<depth, code>>
  BY <1>1 DEF Lend, New
<1>3. exposed \subseteq exposed'
  BY DEF Lend
<1>4. SlicesOnTop'
  BY <1>2, <1>3, HoldersOfNew DEF LoansInv, StackInv, SlicesOnTop
<1>5. CASE UNCHANGED <<memory, exposed>>
  <2>1. SlicesStayInPlace'
    BY <1>1, <1>2, <1>5, HoldersOfNew DEF LoansInv, StackInv, SlicesStayInPlace
  <2> QED
    BY <1>4, <2>1 DEF StackInv
\* The memory was lent to slices that are exposed, if to any, and goes with the buffer.
<1>6. CASE /\ Holders(m) \subseteq exposed
           /\ memory' = [memory EXCEPT ![b] = Detached]
           /\ exposed' = exposed \cup {g}
  <2>1. ASSUME NEW s \in Storages, NEW h \in Holders(s)', h \notin exposed'
        PROVE  memory'[bytes'[h].buffer] = s
    <3>1. h \in Holders(s) /\ bytes'[h] = bytes[h] /\ h \notin exposed
      BY <1>2, <1>6, <2>1, HoldersOfNew
    <3>2. memory[bytes[h].buffer] = s
      BY <3>1 DEF LoansInv, StackInv, SlicesStayInPlace
    <3>3. s # m
      BY <1>6, <3>1
    <3>4. bytes[h].buffer # b
      BY <1>1, <3>2, <3>3
    <3>5. bytes[h] \in BytesType
      BY <3>1 DEF Holders, LoansInv, TableInv, TypeOK
    <3>6. bytes[h].buffer \in Buffers
      BY <3>5 DEF BytesType
    <3> QED
      BY <1>6, <3>1, <3>2, <3>4, <3>6 DEF LoansInv, TableInv, TypeOK
  <2>2. SlicesStayInPlace'
    BY <2>1 DEF SlicesStayInPlace
  <2> QED
    BY <1>4, <2>2 DEF StackInv
<1> QED
  BY <1>1, <1>5, <1>6 DEF Lend

LEMMA StackAfterDrop ==
    ASSUME LoansInv, NEW g \in Borrows, Drop(g)
    PROVE  StackInv'
<1>1. /\ bytes' = [bytes EXCEPT ![g] = NoBorrow] /\ UNCHANGED <<memory, depth, code>>
      /\ exposed' = exposed \ {g}
  BY DEF Drop
<1>2. ASSUME NEW s \in Storages, NEW h \in Holders(s)'
      PROVE  h \in Holders(s) /\ h # g /\ bytes'[h] = bytes[h]
  BY <1>1 DEF LoansInv, TableInv, TypeOK, Holders
<1> QED
  BY <1>1, <1>2 DEF LoansInv, StackInv, SlicesOnTop, SlicesStayInPlace

LEMMA HostReturnsBesideExposed ==
    ASSUME LoansInv, HostReturns
    PROVE  \A s \in Storages : Holders(s) \subseteq exposed
BY DEF LoansInv, StackInv, SlicesOnTop, HostReturns, Holders

LEMMA InitLoansInv == Init => LoansInv
<1>1. Init => \A s \in Storages : Holders(s) = {}
  BY DEF Init, Holders
<1> QED
  BY <1>1, InitTableInv DEF LoansInv, StackInv, SlicesOnTop, SlicesStayInPlace

LEMMA StepLoansInv == LoansInv /\ [Next]_vars => LoansInv'
<1> SUFFICES ASSUME LoansInv, [Next]_vars
             PROVE  LoansInv'
  OBVIOUS
<1> USE DEF LoansInv
<1>1. SUFFICES StackInv'
  BY StepTableInv
<1>2. ASSUME NEW b \in Buffers, NEW kind \in Kinds, RefuseLend(b, kind)
      PROVE  StackInv'
  BY <1>2, StackKept DEF RefuseLend
<1>3. ASSUME \/ \E b \in Buffers, kind \in Kinds : ThrowNew(b, kind)
             \/ AskDataView \/ NewSet
      PROVE  StackInv'
  <2>1. UNCHANGED <<bytes, memory>>
    BY <1>3 DEF ThrowNew, AskDataView, NewSet
  <2>2. \/ UNCHANGED <<depth, code, exposed>>
        \/ exposed' = UNION {Holders(s) : s \in Storages}
    BY <1>3 DEF ThrowNew, AskDataView, NewSet, Expose
  <2> QED
    BY <2>1, <2>2, StackKept, OnlyExposed
<1>5. CASE RefuseCall
  BY <1>5, StackKept DEF RefuseCall
<1>6. CASE Call
  BY <1>6, SettledLendsNothing, OnlyExposed DEF Call
<1>7. CASE HostReturns
  BY <1>7, HostReturnsBesideExposed, OnlyExposed DEF HostReturns
<1>8. CASE GuestReturns
  BY <1>8, GuestRunsBesideExposed, OnlyExposed DEF GuestReturns
<1>9. CASE GuestCallsHost
  BY <1>9, GuestRunsBesideExposed, OnlyExposed DEF GuestCallsHost
<1>10. ASSUME NEW b \in Buffers, NEW s \in Storages, Move(b, s)
       PROVE  StackInv'
  BY <1>10, GuestRunsBesideExposed, OnlyExposed DEF Move
<1>11. ASSUME NEW b \in Buffers, Detach(b)
       PROVE  StackInv'
  BY <1>11, GuestRunsBesideExposed, OnlyExposed DEF Detach
<1>12. CASE UNCHANGED vars
  BY <1>12, StackKept DEF vars
<1> QED
  BY <1>2, <1>3, <1>5, <1>6, <1>7, <1>8, <1>9, <1>10, <1>11, <1>12,
     StackAfterEmpty, StackAfterLend, StackAfterDrop
  DEF Next

LEMMA LoansInvariance == Spec => []LoansInv
BY InitLoansInv, StepLoansInv, PTL DEF Spec

\* No memory moves or goes away under a live slice, but under one an operation that
\* does not ask the table exposed to guest code.
THEOREM SlicesAlwaysInPlace == Spec => []SlicesStayInPlace
<1>1. LoansInv => SlicesStayInPlace
  BY DEF LoansInv, StackInv
<1> QED
  BY <1>1, LoansInvariance, PTL

\* Whatever guest code has replaced: called by the host or returned to by a host
\* function, it runs beside no slice but those that are exposed already.
THEOREM GuestAlwaysBesideExposed == Spec => []RunsBesideExposed
<1>1. LoansInv => RunsBesideExposed
  BY GuestRunsBesideExposed DEF LoansInv, RunsBesideExposed
<1> QED
  BY <1>1, LoansInvariance, PTL

\* As long as guest code has replaced nothing an unasked operation reads, guest code
\* never runs while a borrow is live.
THEOREM GuestAlwaysRunsAlone ==
    ASSUME Patched = {}
    PROVE  Spec => []GuestRunsAlone
<1> DEFINE Untouched == exposed = {}
<1>1. Init => Untouched
  BY DEF Init
<1>2. ASSUME Untouched, [Next]_vars
      PROVE  Untouched'
  BY <1>2 DEF Next, vars, BorrowEmpty, Lend, RefuseLend, ThrowNew, AskDataView, NewSet,
       Expose, Drop, Call, RefuseCall, HostReturns, GuestReturns, GuestCallsHost, Move, Detach
<1>3. LoansInv /\ Untouched => GuestRunsAlone
  BY GuestRunsBesideExposed DEF LoansInv, GuestRunsAlone
<1> QED
  BY <1>1, <1>2, <1>3, LoansInvariance, PTL DEF Spec

-----------------------------------------------------------------------------
(* The refinement of Borrowing.                                            *)

\* A borrow is live exactly if it holds a storage, and it is of the kind it holds.
LEMMA LiveIsHolding ==
    ASSUME TypeOK, NEW g \in Borrows
    PROVE  /\ \A s \in Storages :
                /\ g \in Holders(s) <=> LiveBorrow(g) # NoBorrow /\ LiveBorrow(g).storage = s
                /\ g \in Holders(s) => LiveBorrow(g).kind = bytes[g].kind
           /\ LiveBorrow(g) # NoBorrow <=> \E s \in Storages : g \in Holders(s)
<1>1. CASE bytes[g] = NoBorrow \/ bytes[g].storage = Empty
  BY <1>1, StoragesAssumption DEF LiveBorrow, Holders
<1>2. CASE bytes[g] # NoBorrow /\ bytes[g].storage # Empty
  <2>1. bytes[g] \in BytesType /\ bytes[g].storage \in Storages
    BY <1>2 DEF TypeOK, BytesType
  <2>2. LiveBorrow(g) = [storage |-> bytes[g].storage, kind |-> bytes[g].kind]
    BY <1>2 DEF LiveBorrow
  <2>3. LiveBorrow(g) \in [storage : Storages, kind : Kinds]
    BY <2>1, <2>2 DEF BytesType
  <2>4. LiveBorrow(g) # NoBorrow
    BY <2>3, NoBorrowAssumption
  <2> QED
    BY <1>2, <2>1, <2>2, <2>4 DEF Holders
<1> QED
  BY <1>1, <1>2

LEMMA NothingLive ==
    ASSUME TypeOK, \A s \in Storages : Holders(s) = {}
    PROVE  [g \in Borrows |-> LiveBorrow(g)] = [g \in Borrows |-> NoBorrow]
BY LiveIsHolding

LEMMA SameLive ==
    ASSUME UNCHANGED bytes
    PROVE  \A g \in Borrows : LiveBorrow(g)' = LiveBorrow(g)
BY DEF LiveBorrow

LEMMA LendBegins ==
    ASSUME LoansInv, NEW g \in Borrows, NEW b \in Buffers, NEW kind \in Kinds,
           Lend(g, b, kind)
    PROVE  Abstract!Next
<1>1. PICK m \in Storages : m = memory[b]
  BY DEF Lend, New, Reachable
<1> DEFINE v == [storage |-> m, buffer |-> b, kind |-> kind, frame |-> depth]
           w == [storage |-> m, kind |-> kind]
<1>2. v \in BytesType /\ TypeOK
  BY DEF LoansInv, TableInv, TypeOK, BytesType
<1>3. bytes[g] = NoBorrow /\ bytes' = [bytes EXCEPT ![g] = v]
  BY <1>1 DEF Lend, New
<1>4. \A h \in Borrows : LiveBorrow(h)' = IF h = g THEN w ELSE LiveBorrow(h)
  <2> SUFFICES ASSUME NEW h \in Borrows
               PROVE  LiveBorrow(h)' = IF h = g THEN w ELSE LiveBorrow(h)
    OBVIOUS
  <2>1. CASE h = g
    <3>1. bytes'[h] = v
      BY <1>2, <1>3, <2>1 DEF TypeOK
    <3>2. v # NoBorrow /\ v.storage = m /\ v.kind = kind /\ m # Empty
      BY <1>2, NoBorrowAssumption, StoragesAssumption
    <3> QED
      BY <2>1, <3>1, <3>2 DEF LiveBorrow
  <2>2. CASE h # g
    <3>1. bytes'[h] = bytes[h]
      BY <1>2, <1>3, <2>2 DEF TypeOK
    <3> QED
      BY <2>2, <3>1 DEF LiveBorrow
  <2> QED
    BY <2>1, <2>2
<1>5. \/ Holders(m) = {}
      \/ kind = "shared" /\ \A h \in Holders(m) : bytes[h].kind = "shared"
  BY <1>1, LoanOfStorage DEF Lend, Grants, LoansInv, TableInv, TableIsExact
<1>6. Abstract!Conflicts(m, kind) = {}
  <2> SUFFICES ASSUME NEW h \in Borrows,
                      LiveBorrow(h) # NoBorrow, LiveBorrow(h).storage = m
               PROVE  kind = "shared" /\ LiveBorrow(h).kind = "shared"
    BY DEF Abstract!Conflicts
  <2> QED
    BY <1>2, <1>5, LiveIsHolding
<1>7. LiveBorrow(g) = NoBorrow
  BY <1>3 DEF LiveBorrow
<1>8. [h \in Borrows |-> LiveBorrow(h)]'
        = [[h \in Borrows |-> LiveBorrow(h)] EXCEPT ![g] = w]
  BY <1>4
<1>9. UNCHANGED exposed \/ (Patched # {} /\ exposed' = exposed \cup {g})
  BY DEF Lend
<1>10. Abstract!Begin(g, m, kind)
  BY <1>6, <1>7, <1>8, <1>9 DEF Abstract!Begin, Lend, New
<1> QED
  BY <1>10 DEF Abstract!Next, Abstract!Kinds, Kinds

LEMMA EmptyBegins ==
    ASSUME LoansInv, NEW g \in Borrows, NEW b \in Buffers, NEW kind \in Kinds,
           BorrowEmpty(g, b, kind)
    PROVE  Abstract!Next
<1> DEFINE v == [storage |-> Empty, buffer |-> b, kind |-> kind, frame |-> depth]
<1>1. bytes[g] = NoBorrow /\ bytes' = [bytes EXCEPT ![g] = v]
  BY DEF BorrowEmpty, New
<1>2. \A h \in Borrows : LiveBorrow(h)' = LiveBorrow(h)
  <2> SUFFICES ASSUME NEW h \in Borrows
               PROVE  LiveBorrow(h)' = LiveBorrow(h)
    OBVIOUS
  <2>1. h = g => bytes'[h] = v /\ v.storage = Empty
    BY <1>1 DEF LoansInv, TableInv, TypeOK
  <2>2. h # g => bytes'[h] = bytes[h]
    BY <1>1 DEF LoansInv, TableInv, TypeOK
  <2> QED
    BY <1>1, <2>1, <2>2 DEF LiveBorrow
<1>3. Abstract!BeginEmpty
  BY <1>2 DEF Abstract!BeginEmpty, BorrowEmpty, New
<1> QED
  BY <1>3 DEF Abstract!Next

LEMMA DropEnds ==
    ASSUME LoansInv, NEW g \in Borrows, Drop(g)
    PROVE  [Abstract!Next]_(Abstract!vars)
<1>1. bytes[g] # NoBorrow /\ bytes' = [bytes EXCEPT ![g] = NoBorrow]
  BY DEF Drop
<1>2. \A h \in Borrows : LiveBorrow(h)' = IF h = g THEN NoBorrow ELSE LiveBorrow(h)
  <2> SUFFICES ASSUME NEW h \in Borrows
               PROVE  LiveBorrow(h)' = IF h = g THEN NoBorrow ELSE LiveBorrow(h)
    OBVIOUS
  <2>1. h = g => bytes'[h] = NoBorrow
    BY <1>1 DEF LoansInv, TableInv, TypeOK
  <2>2. h # g => bytes'[h] = bytes[h]
    BY <1>1 DEF LoansInv, TableInv, TypeOK
  <2> QED
    BY <2>1, <2>2 DEF LiveBorrow
<1>3. [h \in Borrows |-> LiveBorrow(h)]'
        = [[h \in Borrows |-> LiveBorrow(h)] EXCEPT ![g] = NoBorrow]
  BY <1>2
<1>4. CASE LiveBorrow(g) = NoBorrow
  <2>1. UNCHANGED [h \in Borrows |-> LiveBorrow(h)]
    BY <1>3, <1>4
  <2>2. g \notin exposed
    BY <1>4, LiveIsHolding DEF LoansInv, TableInv, TypeOK
  <2>3. UNCHANGED exposed
    BY <2>2 DEF Drop
  <2> QED
    BY <2>1, <2>3 DEF Abstract!vars, Drop
<1>5. CASE LiveBorrow(g) # NoBorrow
  <2>1. Abstract!End(g)
    BY <1>3, <1>5 DEF Abstract!End, Drop
  <2> QED
    BY <2>1 DEF Abstract!Next
<1> QED
  BY <1>4, <1>5

LEMMA RefuseLendRefuses ==
    ASSUME LoansInv, NEW b \in Buffers, NEW kind \in Kinds, RefuseLend(b, kind)
    PROVE  Abstract!Next
<1>1. PICK m \in Storages : m = memory[b]
  BY DEF RefuseLend, Reachable
<1>2. ~Grants(entries[m], kind) /\ answer' = entries[m].kind /\ TypeOK
  BY <1>1 DEF RefuseLend, LoansInv, TableInv
<1>3. PICK h \in Holders(m) : TRUE
  BY <1>2, LoanOfStorage DEF LoansInv, Grants
<1>4. h \in Borrows /\ LiveBorrow(h) # NoBorrow /\ LiveBorrow(h).storage = m
  BY <1>2, <1>3, LiveIsHolding, HoldersAreFinite
<1>5. LiveBorrow(h).kind = entries[m].kind /\ entries[m].kind \in Kinds
  <2>1. h \in Borrows /\ bytes[h].kind = entries[m].kind /\ entries[m] # NoLoan
    BY <1>2, <1>3, <1>4 DEF LoansInv, TableInv, TableIsExact, Grants
  <2>2. LiveBorrow(h).kind = bytes[h].kind
    BY <1>2, <1>3, <2>1, LiveIsHolding
  <2> QED
    BY <2>1, <2>2, LoanOfStorage DEF LoansInv
<1>6. kind = "exclusive" \/ entries[m].kind = "exclusive"
  BY <1>2, <1>5 DEF Grants, Kinds
<1>7. h \in Abstract!Conflicts(m, kind)
  BY <1>4, <1>5, <1>6 DEF Abstract!Conflicts
<1>8. [g \in Borrows |-> LiveBorrow(g)][h].kind = answer'
  BY <1>2, <1>4, <1>5
<1>9. Abstract!Refuse(m, kind)
  BY <1>7, <1>8, SameLive DEF Abstract!Refuse, RefuseLend
<1> QED
  BY <1>9 DEF Abstract!Next, Abstract!Kinds, Kinds

LEMMA RefuseCallRefuses ==
    ASSUME LoansInv, RefuseCall
    PROVE  Abstract!Next
<1>1. PICK s \in Storages : entries[s] # NoLoan /\ answer' = entries[s].kind
  BY DEF RefuseCall
<1>2. PICK h \in Holders(s) : TRUE
  BY <1>1, LoanOfStorage DEF LoansInv
<1>3. h \in Borrows /\ LiveBorrow(h) # NoBorrow /\ LiveBorrow(h).kind = bytes[h].kind
  BY <1>2, LiveIsHolding, HoldersAreFinite DEF LoansInv, TableInv
<1>4. bytes[h].kind = entries[s].kind
  BY <1>2 DEF LoansInv, TableInv, TableIsExact
<1>5. Abstract!RefuseRun
  BY <1>1, <1>3, <1>4, SameLive DEF Abstract!RefuseRun, RefuseCall
<1> QED
  BY <1>5 DEF Abstract!Next

\* Guest code is called with nothing lent.
LEMMA CallRuns ==
    ASSUME LoansInv, Call
    PROVE  Abstract!Next
<1>1. [g \in Borrows |-> LiveBorrow(g)] = [g \in Borrows |-> NoBorrow]
  BY SettledLendsNothing, NothingLive DEF Call, LoansInv, TableInv
<1>2. Abstract!Run
  BY <1>1, SameLive DEF Abstract!Run, Call
<1> QED
  BY <1>2 DEF Abstract!Next

\* Guest code goes on beside the slices exposed to it.
LEMMA HostReturnsResumes ==
    ASSUME LoansInv, HostReturns
    PROVE  Abstract!Next
<1>1. \A g \in Borrows : LiveBorrow(g) # NoBorrow => g \in exposed
  BY HostReturnsBesideExposed, LiveIsHolding DEF LoansInv, TableInv
<1>2. Abstract!Resume
  BY <1>1, SameLive DEF Abstract!Resume, HostReturns
<1> QED
  BY <1>2 DEF Abstract!Next

\* An operation that does not ask lets guest code in, if guest code replaced what it
\* reads, and changes nothing otherwise.
LEMMA UnaskedIntrudes ==
    ASSUME LoansInv,
           \/ \E b \in Buffers, kind \in Kinds : ThrowNew(b, kind)
           \/ AskDataView \/ NewSet
    PROVE  [Abstract!Next]_(Abstract!vars)
<1>1. UNCHANGED <<bytes, answer>> /\ code = "host"
  BY DEF ThrowNew, AskDataView, NewSet
<1>2. CASE UNCHANGED <<code, exposed>>
  BY <1>1, <1>2, SameLive DEF Abstract!vars
<1>3. CASE /\ Patched # {} /\ code' = "guest"
           /\ exposed' = UNION {Holders(s) : s \in Storages}
  <2>1. exposed' = {g \in Borrows : [h \in Borrows |-> LiveBorrow(h)][g] # NoBorrow}
    BY <1>3, LiveIsHolding, HoldersAreFinite DEF LoansInv, TableInv
  <2>2. Abstract!Intrude
    BY <1>1, <1>3, <2>1, SameLive DEF Abstract!Intrude
  <2> QED
    BY <2>2 DEF Abstract!Next
<1> QED
  BY <1>2, <1>3 DEF ThrowNew, AskDataView, NewSet, Expose

LEMMA GuestStops ==
    ASSUME GuestReturns \/ GuestCallsHost
    PROVE  Abstract!Next
<1>1. Abstract!Stop
  BY SameLive DEF Abstract!Stop, GuestReturns, GuestCallsHost
<1> QED
  BY <1>1 DEF Abstract!Next

LEMMA StepRefines ==
    ASSUME LoansInv, [Next]_vars
    PROVE  [Abstract!Next]_(Abstract!vars)
<1>1. ASSUME UNCHANGED <<bytes, code, answer, exposed>>
      PROVE  UNCHANGED Abstract!vars
  BY <1>1, SameLive DEF Abstract!vars
<1>2. ASSUME NEW b \in Buffers, Detach(b) \/ \E s \in Storages : Move(b, s)
      PROVE  UNCHANGED Abstract!vars
  BY <1>1, <1>2 DEF Detach, Move
<1>3. CASE UNCHANGED vars
  BY <1>1, <1>3 DEF vars
<1> QED
  BY <1>2, <1>3, LendBegins, EmptyBegins, DropEnds, RefuseLendRefuses, UnaskedIntrudes,
     RefuseCallRefuses, CallRuns, HostReturnsResumes, GuestStops
  DEF Next

LEMMA InitRefines ==
    ASSUME Init
    PROVE  Abstract!Init
<1>1. [g \in Borrows |-> LiveBorrow(g)] = [g \in Borrows |-> NoBorrow]
  BY DEF Init, LiveBorrow
<1> QED
  BY <1>1 DEF Init, Abstract!Init

\* The table and the stack implement the abstract borrows: a borrow is refused
\* exactly when a conflicting one is live, a call of guest code exactly when something
\* is lent, the error names a borrow that stands in the way, and guest code that was
\* not asked for runs on beside the slices it was let in beside and no others.
THEOREM LoansImplementBorrowing == Spec => LendsAsPromised
BY InitRefines, StepRefines, LoansInvariance, PTL DEF LendsAsPromised, Spec, Abstract!Spec

=============================================================================
