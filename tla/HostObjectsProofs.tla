-------------------------- MODULE HostObjectsProofs --------------------------
(***************************************************************************)
(* Proofs about HostObjects, in three parts.  References: whoever has      *)
(* borrowed a payload finds it as he left it; realisation, which shares    *)
(* the stack with the borrowers, only takes frames away or lays frames of  *)
(* its own on top (KeepsBorrowers), and RefCell keeps a writer apart from  *)
(* everyone else (Apart).  One class per type: while a class is being      *)
(* realised its registry entry is empty and no one else realises it,       *)
(* unless its realisation asks for it again, and a module that waits for a *)
(* class has that class above it on the stack.                             *)
(* Realised as declared: every frame on the stack already is as it was     *)
(* declared, no two modules share a state, and the initialisers that have  *)
(* run are the first ones.                                                 *)
(***************************************************************************)
EXTENDS HostObjects, FiniteSetTheorems, SequenceTheorems, TLAPS

\* The stack is a sequence, of whatever frames it has, each of which says what it is.
Sequence(s) == s \in Seq({s[i] : i \in DOMAIN s})
Framed(f) == "kind" \in DOMAIN f
IsStack == Sequence(stack) /\ \A i \in DOMAIN stack : Framed(stack[i])

Borrows(frame) == frame.kind \in {"method", "next"}

BorrowerType ==
    [kind : {"method", "next"}, of : Cells, at : {0}, state : {Empty}, made : {<<>>},
     mode : {"shared", "exclusive"}, saw : Nat]

\* What a borrower remembers is what is there, and an iterator that is asked has not ended.
Remembers(frame) ==
    /\ frame \in BorrowerType
    /\ frame.saw = value[frame.of]
    /\ frame.kind = "next" => frame.mode = "exclusive" /\ ~ended[frame.of]

BorrowersRemember == \A i \in DOMAIN stack : Borrows(stack[i]) => Remembers(stack[i])

Apart ==
    \A i, j \in DOMAIN stack :
        Borrows(stack[i]) /\ Borrows(stack[j]) /\ stack[i].of = stack[j].of /\ i # j =>
            stack[i].mode = "shared"

PayloadTypes ==
    /\ value \in [Cells -> Nat]
    /\ iterator \in [Cells -> {"there", "gone"}]
    /\ ended \in [Cells -> BOOLEAN]
    /\ \A c \in Cells : ended[c] => iterator[c] = "gone"

References == IsStack /\ BorrowersRemember /\ Apart /\ PayloadTypes

\* Every borrower there is was there before, at its place.
KeepsBorrowers ==
    /\ IsStack'
    /\ \A i \in DOMAIN stack' : Borrows(stack'[i]) => i \in DOMAIN stack /\ stack'[i] = stack[i]

-----------------------------------------------------------------------------
(* Sequences of frames. *)

LEMMA IsSequence ==
    ASSUME NEW S, NEW s \in Seq(S)
    PROVE  Sequence(s)
<1>1. Len(s) \in Nat /\ DOMAIN s = 1 .. Len(s) /\ s = [i \in 1 .. Len(s) |-> s[i]]
  OBVIOUS
<1> QED
  BY <1>1 DEF Sequence

\* A prefix, and a prefix with a frame on top.
LEMMA PrefixKeeps ==
    ASSUME IsStack, NEW n \in Int, n <= Len(stack), stack' = SubSeq(stack, 1, n)
    PROVE  KeepsBorrowers
<1> DEFINE S == {stack[i] : i \in DOMAIN stack}
<1>1. stack \in Seq(S)
  BY DEF IsStack, Sequence
<1>2. stack' \in Seq(S) /\ \A i \in DOMAIN stack' : i \in DOMAIN stack /\ stack'[i] = stack[i]
  BY <1>1
<1>3. IsStack'
  BY <1>2, IsSequence DEF IsStack
<1> QED
  BY <1>2, <1>3 DEF KeepsBorrowers

LEMMA LayingKeeps ==
    ASSUME IsStack, NEW n \in 0 .. Len(stack), NEW f, ~Borrows(f), Framed(f),
           stack' = Append(SubSeq(stack, 1, n), f)
    PROVE  KeepsBorrowers
<1> DEFINE S == {stack[i] : i \in DOMAIN stack} \cup {f}
           p == SubSeq(stack, 1, n)
<1>1. stack \in Seq(S)
  BY DEF IsStack, Sequence
<1>2. p \in Seq(S) /\ Len(p) = n /\ \A i \in 1 .. n : i \in DOMAIN stack /\ p[i] = stack[i]
  BY <1>1
<1>3. stack' \in Seq(S) /\ Len(stack') = n + 1 /\ stack'[n + 1] = f /\ \A i \in 1 .. n : stack'[i] = p[i]
  BY <1>2
<1>4. \A i \in DOMAIN stack' : Framed(stack'[i])
  <2> SUFFICES ASSUME NEW i \in 1 .. n + 1
               PROVE  Framed(stack'[i])
    BY <1>3
  <2>1. CASE i = n + 1
    BY <1>3, <2>1
  <2>2. CASE i # n + 1
    <3>1. i \in 1 .. n
      BY <2>2
    <3> QED
      BY <1>2, <1>3, <3>1 DEF IsStack
  <2> QED
    BY <2>1, <2>2
<1>5. IsStack'
  BY <1>3, <1>4, IsSequence DEF IsStack
<1>6. ASSUME NEW i \in DOMAIN stack', Borrows(stack'[i])
      PROVE  i \in DOMAIN stack /\ stack'[i] = stack[i]
  BY <1>2, <1>3, <1>6
<1> QED
  BY <1>5, <1>6 DEF KeepsBorrowers

LEMMA PushKeeps ==
    ASSUME IsStack, NEW f, ~Borrows(f), Framed(f), stack' = Push(f)
    PROVE  KeepsBorrowers
<1>1. SubSeq(stack, 1, Len(stack)) = stack /\ Len(stack) \in 0 .. Len(stack)
  BY DEF IsStack, Sequence
<1> QED
  BY <1>1, LayingKeeps DEF Push

LEMMA ReplaceKeeps ==
    ASSUME IsStack, stack # <<>>, NEW f, ~Borrows(f), Framed(f), stack' = Replace(f)
    PROVE  KeepsBorrowers
<1>1. Len(stack) - 1 \in 0 .. Len(stack)
  BY DEF IsStack, Sequence
<1> QED
  BY <1>1, LayingKeeps DEF Replace, Front

-----------------------------------------------------------------------------
(* Realisation. *)

LEMMA TopIsFramed ==
    ASSUME IsStack, NEW kind, TopIs(kind)
    PROVE  stack # <<>> /\ Top.kind = kind /\ Framed(Top)
<1>1. Len(stack) \in DOMAIN stack
  BY DEF IsStack, Sequence, TopIs
<1> QED
  BY <1>1 DEF IsStack, TopIs, Top, Last

LEMMA FrontKeeps ==
    ASSUME IsStack, stack' = Front(stack)
    PROVE  KeepsBorrowers
<1>1. Len(stack) - 1 \in Int /\ Len(stack) - 1 <= Len(stack)
  BY DEF IsStack, Sequence
<1> QED
  BY <1>1, PrefixKeeps DEF Front

LEMMA UnwoundKeeps ==
    ASSUME IsStack, stack' = Unwound
    PROVE  KeepsBorrowers
<1>1. Len(stack) \in Nat
  BY DEF IsStack, Sequence
<1> DEFINE n == Len(stack) - 1
<1>2. CASE stack' = SubSeq(stack, 1, n)
  BY <1>1, <1>2, PrefixKeeps
<1>3. CASE stack' = SubSeq(stack, 1, n - 1)
  BY <1>1, <1>3, PrefixKeeps
<1> QED
  BY <1>2, <1>3 DEF Unwound

LEMMA EmptiedKeeps ==
    ASSUME IsStack, stack' = <<>>
    PROVE  KeepsBorrowers
<1>1. stack' = SubSeq(stack, 1, 0) /\ 0 <= Len(stack)
  BY DEF IsStack, Sequence
<1> QED
  BY <1>1, PrefixKeeps

LEMMA SameKeeps ==
    ASSUME IsStack, stack' = stack
    PROVE  KeepsBorrowers
BY DEF IsStack, KeepsBorrowers

LEMMA RealisationKeeps ==
    ASSUME References, RealisationNext
    PROVE  KeepsBorrowers
<1> USE DEF References
<1>1. \A kind, of : Framed(Frame(kind, of)) /\ Frame(kind, of).kind = kind
  BY DEF Framed, Frame
<1>2. CASE Build
  BY <1>1, <1>2, PushKeeps DEF Build, Borrows
<1>3. CASE InitializerEnds \/ InitializerFails \/ Built
  BY <1>3, SameKeeps, EmptiedKeeps DEF InitializerEnds, InitializerFails, Built
<1>4. CASE \E m \in Modules : Import(m)
  BY <1>1, <1>4, PushKeeps DEF Import, Borrows
<1>5. CASE FactoryEnds
  <2>1. stack # <<>> /\ Top.kind = "module" /\ Framed(Top)
    BY <1>5, TopIsFramed DEF FactoryEnds
  <2>2. stack' = Unwound \/ \E state : stack' = Replace([Top EXCEPT !.at = 1, !.state = state])
    BY <1>5 DEF FactoryEnds
  <2>3. ASSUME NEW state, stack' = Replace([Top EXCEPT !.at = 1, !.state = state])
        PROVE  KeepsBorrowers
    <3> DEFINE frame == [Top EXCEPT !.at = 1, !.state = state]
    <3>1. Framed(frame) /\ frame.kind = "module"
      BY <2>1 DEF Framed
    <3> HIDE DEF frame
    <3>2. stack' = Replace(frame)
      BY <2>3 DEF frame
    <3> QED
      BY <2>1, <3>1, <3>2, ReplaceKeeps DEF Borrows
  <2> QED
    BY <2>2, <2>3, UnwoundKeeps
<1>6. ASSUME NEW thing, TopIs("module"), stack' = Made(thing)
      PROVE  KeepsBorrowers
  <2>1. stack # <<>> /\ Top.kind = "module" /\ Framed(Top)
    BY <1>6, TopIsFramed
  <2>2. PICK at, made : stack' = Replace([Top EXCEPT !.at = at, !.made = made])
    BY <1>6 DEF Made
  <2> DEFINE frame == [Top EXCEPT !.at = at, !.made = made]
  <2>3. Framed(frame) /\ frame.kind = "module"
    BY <2>1 DEF Framed
  <2> HIDE DEF frame
  <2>4. stack' = Replace(frame)
    BY <2>2 DEF frame
  <2> QED
    BY <2>1, <2>3, <2>4, ReplaceKeeps DEF Borrows
<1>7. CASE MemberMade
  BY <1>6, <1>7 DEF MemberMade
<1>8. CASE AsksForClass
  <2>1. \/ stack' = Unwound
        \/ \E id : stack' = Made(id)
        \/ stack' = Push([Frame("class", Turn(Top)) EXCEPT !.state = Top.state])
    BY <1>8 DEF AsksForClass
  <2>2. CASE stack' = Push([Frame("class", Turn(Top)) EXCEPT !.state = Top.state])
    <3> DEFINE frame == [Frame("class", Turn(Top)) EXCEPT !.state = Top.state]
    <3>1. Framed(frame) /\ frame.kind = "class"
      BY <1>1 DEF Framed, Frame
    <3> HIDE DEF frame
    <3>2. stack' = Push(frame)
      BY <2>2 DEF frame
    <3> QED
      BY <3>1, <3>2, PushKeeps DEF Borrows
  <2> QED
    BY <1>6, <1>8, <2>1, <2>2, UnwoundKeeps DEF AsksForClass
<1>9. CASE StoreExports
  BY <1>9, SameKeeps, UnwoundKeeps DEF StoreExports
<1>10. CASE TakeExports \/ EngineFails
  BY <1>10, FrontKeeps, UnwoundKeeps DEF TakeExports, EngineFails
<1>11. CASE \E c \in Classes : ClassOf(c) \/ Give(c)
  BY <1>1, <1>11, PushKeeps, SameKeeps DEF ClassOf, Give, Borrows
<1>12. CASE PropertyMade
  <2>1. stack # <<>> /\ Top.kind = "class" /\ Framed(Top)
    BY <1>12, TopIsFramed DEF PropertyMade
  <2>2. PICK at : stack' = Replace([Top EXCEPT !.at = at])
    BY <1>12 DEF PropertyMade
  <2> DEFINE frame == [Top EXCEPT !.at = at]
  <2>3. Framed(frame) /\ frame.kind = "class"
    BY <2>1 DEF Framed
  <2> HIDE DEF frame
  <2>4. stack' = Replace(frame)
    BY <2>2 DEF frame
  <2> QED
    BY <2>1, <2>3, <2>4, ReplaceKeeps DEF Borrows
<1>13. CASE ClassEnds
  <2>1. CASE WaitsForClass(Len(stack) - 1)
    <3> DEFINE n == Len(stack) - 1
               module == stack[n]
    <3>1. n - 1 \in 0 .. Len(stack) /\ n \in DOMAIN stack
      BY <1>13, <2>1 DEF WaitsForClass, IsStack, Sequence
    <3>2. module.kind = "module" /\ Framed(module)
      BY <2>1, <3>1 DEF WaitsForClass, IsStack
    <3> DEFINE made == Append(module.made, [name |-> Members[module.of][module.at].name, thing |-> classes[Top.of] + 1])
               frame == [module EXCEPT !.at = module.at + 1, !.made = made]
    <3>3. stack' = Append(SubSeq(stack, 1, Len(stack) - 2), frame)
      BY <1>13, <2>1 DEF ClassEnds
    <3>4. Len(stack) - 2 = n - 1
      BY <3>1 DEF IsStack, Sequence
    <3>5. Framed(frame) /\ frame.kind = "module"
      BY <3>2 DEF Framed
    <3> HIDE DEF frame, made
    <3>6. stack' = Append(SubSeq(stack, 1, n - 1), frame)
      BY <3>3, <3>4
    <3> HIDE DEF n, module
    <3> QED
      BY <3>1, <3>5, <3>6, LayingKeeps DEF Borrows
  <2>2. CASE ~WaitsForClass(Len(stack) - 1)
    BY <1>13, <2>2, FrontKeeps DEF ClassEnds
  <2> QED
    BY <2>1, <2>2
<1>14. CASE RealisationFails
  BY <1>14, UnwoundKeeps DEF RealisationFails
<1> QED
  BY <1>2, <1>3, <1>4, <1>5, <1>7, <1>8, <1>9, <1>10, <1>11, <1>12, <1>13, <1>14
  DEF RealisationNext

-----------------------------------------------------------------------------
(* Payloads. *)

\* A step that lets no borrower in, and leaves alone what those who stay have borrowed.
LEMMA LeavesAlone ==
    ASSUME References, KeepsBorrowers, PayloadTypes',
           \A i \in DOMAIN stack' : Borrows(stack'[i]) =>
               /\ value'[stack[i].of] = value[stack[i].of]
               /\ ended'[stack[i].of] = ended[stack[i].of]
    PROVE  References'
<1> USE DEF References, KeepsBorrowers
<1>1. BorrowersRemember'
  BY DEF BorrowersRemember, Remembers, BorrowerType
<1>2. Apart'
  BY DEF Apart
<1> QED
  BY <1>1, <1>2

\* A step that lays a borrower on top, who is let in beside the others.
LEMMA LetsIn ==
    ASSUME References, PayloadTypes', NEW n \in 0 .. Len(stack), NEW f \in BorrowerType,
           stack' = Append(SubSeq(stack, 1, n), f),
           f.saw = value'[f.of],
           f.kind = "next" => f.mode = "exclusive" /\ ~ended'[f.of],
           \A i \in 1 .. n : Borrows(stack[i]) =>
               /\ value'[stack[i].of] = value[stack[i].of]
               /\ ended'[stack[i].of] = ended[stack[i].of]
               /\ stack[i].of = f.of => stack[i].mode = "shared" /\ f.mode = "shared"
    PROVE  References'
<1> DEFINE S == {stack[i] : i \in DOMAIN stack} \cup {f}
           p == SubSeq(stack, 1, n)
<1>1. stack \in Seq(S)
  BY DEF References, IsStack, Sequence
<1>2. p \in Seq(S) /\ Len(p) = n /\ \A i \in 1 .. n : i \in DOMAIN stack /\ p[i] = stack[i]
  BY <1>1
<1>3. /\ stack' \in Seq(S) /\ DOMAIN stack' = 1 .. n + 1
      /\ stack'[n + 1] = f /\ \A i \in 1 .. n : i \in DOMAIN stack /\ stack'[i] = stack[i]
  BY <1>2
<1>4. \A i \in DOMAIN stack' : i = n + 1 \/ i \in 1 .. n
  BY <1>3
<1> HIDE DEF S, p
<1>5. IsStack'
  <2>1. Framed(f)
    BY DEF Framed, BorrowerType
  <2>2. \A i \in DOMAIN stack' : Framed(stack'[i])
    BY <1>3, <1>4, <2>1 DEF References, IsStack
  <2> QED
    BY <1>3, <2>2, IsSequence DEF IsStack
<1>6. BorrowersRemember'
  <2> SUFFICES ASSUME NEW i \in DOMAIN stack', Borrows(stack'[i])
               PROVE  /\ stack'[i] \in BorrowerType
                      /\ stack'[i].saw = value'[stack'[i].of]
                      /\ stack'[i].kind = "next" => stack'[i].mode = "exclusive" /\ ~ended'[stack'[i].of]
    BY DEF BorrowersRemember, Remembers, BorrowerType
  <2>1. CASE i = n + 1
    BY <1>3, <2>1
  <2>2. CASE i \in 1 .. n
    BY <1>3, <2>2 DEF References, BorrowersRemember, Remembers
  <2> QED
    BY <1>4, <2>1, <2>2
<1>7. Apart'
  BY <1>3, <1>4 DEF References, Apart
<1> QED
  BY <1>5, <1>6, <1>7 DEF References

LEMMA TopBorrows ==
    ASSUME References, NEW kind \in {"method", "next"}, TopIs(kind)
    PROVE  /\ Len(stack) \in DOMAIN stack /\ Top = stack[Len(stack)]
           /\ Borrows(Top) /\ Remembers(Top) /\ Top.kind = kind
           /\ DOMAIN stack = 1 .. Len(stack)
<1>1. Len(stack) \in DOMAIN stack /\ DOMAIN stack = 1 .. Len(stack)
  BY DEF References, IsStack, Sequence, TopIs
<1> QED
  BY <1>1 DEF References, BorrowersRemember, TopIs, Top, Last, Borrows

\* A writer at the top has its cell to itself.
LEMMA Alone ==
    ASSUME References, NEW kind \in {"method", "next"}, TopIs(kind), Top.mode = "exclusive",
           NEW i \in 1 .. Len(stack) - 1, Borrows(stack[i])
    PROVE  stack[i].of # Top.of
<1>1. i \in DOMAIN stack /\ Len(stack) \in DOMAIN stack /\ i # Len(stack) /\ Top = stack[Len(stack)] /\ Borrows(Top)
  BY TopBorrows
<1> QED
  BY <1>1 DEF References, Apart

\* The borrower at the top is gone, and has changed at most what it had for itself.
LEMMA Returns ==
    ASSUME References, NEW kind \in {"method", "next"}, TopIs(kind), stack' = Front(stack), PayloadTypes',
           \/ value' = value /\ ended' = ended
           \/ /\ Top.mode = "exclusive"
              /\ \A c \in Cells \ {Top.of} : value'[c] = value[c] /\ ended'[c] = ended[c]
    PROVE  References'
<1>1. KeepsBorrowers
  BY FrontKeeps DEF References
<1>2. DOMAIN stack' = 1 .. Len(stack) - 1
  BY TopBorrows DEF Front, References, IsStack, Sequence
<1>3. ASSUME NEW i \in DOMAIN stack', Borrows(stack'[i])
      PROVE  /\ value'[stack[i].of] = value[stack[i].of]
             /\ ended'[stack[i].of] = ended[stack[i].of]
  <2>1. i \in DOMAIN stack /\ Borrows(stack[i]) /\ i \in 1 .. Len(stack) - 1
    BY <1>1, <1>2, <1>3 DEF KeepsBorrowers
  <2>2. stack[i].of \in Cells
    BY <2>1 DEF References, BorrowersRemember, Remembers, BorrowerType
  <2> QED
    BY <2>1, <2>2, Alone
<1> QED
  BY <1>1, <1>3, LeavesAlone

LEMMA WholeStack ==
    ASSUME IsStack
    PROVE  SubSeq(stack, 1, Len(stack)) = stack /\ Len(stack) \in 0 .. Len(stack) /\ DOMAIN stack = 1 .. Len(stack)
BY DEF IsStack, Sequence

LEMMA CallKeeps ==
    ASSUME References, NEW cell \in Cells, NEW mode \in {"shared", "exclusive"}, Call(cell, mode)
    PROVE  References'
<1> DEFINE f == Borrower("method", cell, mode)
<1>1. stack' = Append(SubSeq(stack, 1, Len(stack)), f)
  BY WholeStack DEF Call, Push, References
<1>2. f \in BorrowerType /\ f.saw = value[f.of] /\ f.kind = "method" /\ f.of = cell /\ f.mode = mode
  BY DEF Borrower, BorrowerType, References, PayloadTypes
<1>3. ASSUME NEW i \in 1 .. Len(stack), Borrows(stack[i]), stack[i].of = cell
      PROVE  stack[i].mode = "shared" /\ mode = "shared"
  <2>1. i \in DOMAIN stack /\ stack[i].mode \in {"shared", "exclusive"}
    BY <1>3, WholeStack DEF References, BorrowersRemember, Remembers, BorrowerType
  <2> QED
    BY <1>3, <2>1 DEF Call, Borrowable, Borrowers, Borrows
<1>4. value' = value /\ ended' = ended /\ PayloadTypes'
  BY DEF Call, References, PayloadTypes
<1> HIDE DEF f
<1> QED
  BY <1>1, <1>2, <1>3, <1>4, WholeStack, LetsIn DEF References

LEMMA CallNextKeeps ==
    ASSUME References, NEW cell \in Cells, CallNext(cell)
    PROVE  References'
<1> DEFINE f == Borrower("next", cell, "exclusive")
<1>1. stack' = Append(SubSeq(stack, 1, Len(stack)), f)
  BY WholeStack DEF CallNext, Push, References
<1>2. f \in BorrowerType /\ f.saw = value[f.of] /\ f.of = cell /\ f.mode = "exclusive"
  BY DEF Borrower, BorrowerType, References, PayloadTypes
<1>3. ASSUME NEW i \in 1 .. Len(stack), Borrows(stack[i]), stack[i].of = cell
      PROVE  FALSE
  <2>1. i \in DOMAIN stack /\ stack[i].mode \in {"shared", "exclusive"}
    BY <1>3, WholeStack DEF References, BorrowersRemember, Remembers, BorrowerType
  <2> QED
    BY <1>3, <2>1 DEF CallNext, Borrowable, Borrowers, Borrows
<1>4. value' = value /\ ended' = ended /\ PayloadTypes' /\ ~ended[cell]
  BY DEF CallNext, References, PayloadTypes
<1> HIDE DEF f
<1> QED
  BY <1>1, <1>2, <1>3, <1>4, WholeStack, LetsIn DEF References

LEMMA ChangeKeeps ==
    ASSUME References, Change
    PROVE  References'
<1> DEFINE n == Len(stack) - 1
           f == [Top EXCEPT !.saw = value[Top.of] + 1]
<1>1. TopIs("method") /\ Top.mode = "exclusive" /\ Top.kind = "method" /\ Top \in BorrowerType
  BY TopBorrows DEF Change, Remembers
<1>2. f \in BorrowerType /\ f.of = Top.of /\ f.kind = "method" /\ f.saw = value[Top.of] + 1 /\ Top.of \in Cells
  BY <1>1 DEF BorrowerType, References, PayloadTypes
<1>3. /\ ended' = ended /\ value'[Top.of] = value[Top.of] + 1 /\ PayloadTypes'
      /\ \A c \in Cells \ {Top.of} : value'[c] = value[c]
  BY <1>2 DEF Change, References, PayloadTypes
<1>4. n \in 0 .. Len(stack) /\ stack' = Append(SubSeq(stack, 1, n), f)
  BY <1>1, TopBorrows DEF Change, Replace, Front, References, IsStack, Sequence
<1> HIDE DEF f
<1>5. ASSUME NEW i \in 1 .. n, Borrows(stack[i])
      PROVE  value'[stack[i].of] = value[stack[i].of] /\ stack[i].of # f.of
  <2>1. stack[i].of # Top.of
    BY <1>1, <1>5, Alone
  <2>2. stack[i].of \in Cells
    BY <1>1, <1>5, TopBorrows DEF References, BorrowersRemember, Remembers, BorrowerType
  <2> QED
    BY <1>2, <1>3, <2>1, <2>2
<1> HIDE DEF n
<1> QED
  BY <1>2, <1>3, <1>4, <1>5, LetsIn

-----------------------------------------------------------------------------
(* The invariant. *)

LEMMA ReferencesInit ==
    ASSUME Init
    PROVE  References
<1>1. stack = <<>>
  BY DEF Init, RealisationInit
<1>2. IsStack
  BY <1>1 DEF IsStack, Sequence
<1>3. PayloadTypes
  BY DEF Init, PayloadsInit, PayloadTypes
<1> QED
  BY <1>1, <1>2, <1>3 DEF References, BorrowersRemember, Apart

LEMMA ReferencesStep ==
    ASSUME References, [Next]_vars
    PROVE  References'
<1> USE DEF References
<1>1. CASE RealisationNext /\ UNCHANGED payloadVars
  <2>1. KeepsBorrowers
    BY <1>1, RealisationKeeps
  <2>2. PayloadTypes' /\ value' = value /\ ended' = ended
    BY <1>1 DEF payloadVars, PayloadTypes
  <2> QED
    BY <2>1, <2>2, LeavesAlone
<1>2. CASE \E cell \in Cells : \E mode \in {"shared", "exclusive"} : Call(cell, mode)
  BY <1>2, CallKeeps
<1>3. CASE \E cell \in Cells : CallNext(cell)
  BY <1>3, CallNextKeeps
<1>4. ASSUME NEW cell \in Cells, CallReturn(cell)
      PROVE  References'
  <2>1. KeepsBorrowers
    BY <1>4, SameKeeps DEF CallReturn
  <2>2. PayloadTypes' /\ value' = value /\ ended' = ended
    BY <1>4 DEF CallReturn, PayloadTypes
  <2> QED
    BY <2>1, <2>2, LeavesAlone
<1>5. CASE Change
  BY <1>5, ChangeKeeps
<1>6. CASE Leave
  <2>1. PayloadTypes' /\ value' = value /\ ended' = ended
    BY <1>6 DEF Leave, PayloadTypes
  <2> QED
    BY <1>6, <2>1, Returns DEF Leave
<1>7. CASE NextYields \/ NextEnds
  <2>1. TopIs("next") /\ Top.mode = "exclusive" /\ Top.of \in Cells /\ stack' = Front(stack)
    BY <1>7, TopBorrows DEF NextYields, NextEnds, Remembers, BorrowerType
  <2>2. PayloadTypes' /\ \A c \in Cells \ {Top.of} : value'[c] = value[c] /\ ended'[c] = ended[c]
    <3> DEFINE cell == Top.of
    <3>1. cell \in Cells
      BY <2>1
    <3>2. \/ /\ value' = [value EXCEPT ![cell] = @ + 1]
             /\ UNCHANGED <<iterator, ended>>
          \/ /\ iterator' = [iterator EXCEPT ![cell] = "gone"]
             /\ ended' = [ended EXCEPT ![cell] = TRUE]
             /\ UNCHANGED value
      BY <1>7 DEF NextYields, NextEnds, DroppedAtEnd
    <3> HIDE DEF cell
    <3>3. PayloadTypes' /\ \A c \in Cells \ {cell} : value'[c] = value[c] /\ ended'[c] = ended[c]
      <4> USE DEF PayloadTypes
      <4>1. CASE value' = [value EXCEPT ![cell] = @ + 1] /\ UNCHANGED <<iterator, ended>>
        BY <3>1, <4>1
      <4>2. CASE /\ iterator' = [iterator EXCEPT ![cell] = "gone"]
                 /\ ended' = [ended EXCEPT ![cell] = TRUE]
                 /\ UNCHANGED value
        <5>1. \A c \in Cells : iterator'[c] = IF c = cell THEN "gone" ELSE iterator[c]
          BY <4>2
        <5>2. \A c \in Cells \ {cell} : ended'[c] = ended[c]
          BY <4>2
        <5>3. value' \in [Cells -> Nat] /\ iterator' \in [Cells -> {"there", "gone"}] /\ ended' \in [Cells -> BOOLEAN]
          BY <4>2
        <5>4. ASSUME NEW c \in Cells, ended'[c]
              PROVE  iterator'[c] = "gone"
          BY <5>1, <5>2, <5>4
        <5> QED
          BY <4>2, <5>2, <5>3, <5>4
      <4> QED
        BY <3>2, <4>1, <4>2
    <3> QED
      BY <3>3 DEF cell
  <2> DEFINE kind == "next"
  <2>3. kind \in {"method", "next"} /\ TopIs(kind)
    BY <2>1
  <2> HIDE DEF kind
  <2> QED
    BY <2>1, <2>2, <2>3, Returns
<1>8. CASE UNCHANGED vars
  <2>1. KeepsBorrowers
    BY <1>8, SameKeeps DEF vars
  <2>2. PayloadTypes' /\ value' = value /\ ended' = ended
    BY <1>8 DEF vars, payloadVars, PayloadTypes
  <2> QED
    BY <2>1, <2>2, LeavesAlone
<1> QED
  BY <1>1, <1>2, <1>3, <1>4, <1>5, <1>6, <1>7, <1>8 DEF Next, PayloadsNext

LEMMA ReferencesImply ==
    ASSUME References
    PROVE  ReferencesStable
BY DEF References, BorrowersRemember, Borrows, Remembers, ReferencesStable

\* However host and guest code call each other, whoever holds a reference to a payload finds
\* it as he left it: no call that RefCell lets in beside him changes it, and realisation,
\* which unwinds the same stack, never takes a borrower from below him or changes a payload.
\* An iterator that has returned None is not asked again.  For every set of modules, classes
\* and cells, and any depth of nesting.
THEOREM ReferencesAlwaysStable == Spec => []ReferencesStable
<1>1. Init => References
  BY ReferencesInit
<1>2. References /\ [Next]_vars => References'
  BY ReferencesStep
<1>3. References => ReferencesStable
  BY ReferencesImply
<1> QED
  BY <1>1, <1>2, <1>3, PTL DEF Spec

-----------------------------------------------------------------------------
(* One class per type. *)

\* The frames that are realised have the fields they were pushed with.
Realises(f) ==
    /\ f = [kind |-> f.kind, of |-> f.of, at |-> f.at, state |-> f.state, made |-> f.made]
    /\ f.at \in Nat
    /\ f.kind = "class" => f.of \in Classes
    /\ f.kind = "module" => f.of \in Modules /\ Sequence(f.made)

Ids(registry, c) == {r.id : r \in registry[c]}

\* What has been made of classes is what the registry has of them, but for those that
\* asked for themselves while they were realised.
FromRegistry(registry, asked, m, made) ==
    \A i \in DOMAIN made :
        Members[m][i].what \in Classes \ asked => made[i].thing \in Ids(registry, Members[m][i].what)

SoundFrame(registry, asked, f) ==
    /\ Framed(f)
    /\ f.kind \in {"module", "class"} => Realises(f)
    /\ f.kind = "class" => f.of \in asked \/ registry[f.of] = {}
    /\ f.kind = "module" =>
         /\ Len(f.made) = (IF f.at = 0 THEN 0 ELSE f.at - 1)
         /\ FromRegistry(registry, asked, f.of, f.made)

Waiting(f) == f.kind = "module" /\ Turn(f) \in Classes

\* A module that waits for a class has its frame above it, and no class has two but one
\* that asked for itself.
Linked ==
    /\ \A i, j \in DOMAIN stack : i = j + 1 /\ Waiting(stack[j]) =>
         stack[i].kind = "class" /\ stack[i].of = Turn(stack[j])
    /\ \A i, j \in DOMAIN stack :
         stack[i].kind = "class" /\ stack[j].kind = "class" /\ stack[i].of = stack[j].of =>
            i = j \/ stack[i].of \in again

Sound == Sequence(stack) /\ (\A i \in DOMAIN stack : SoundFrame(realised, again, stack[i])) /\ Linked

OneEach ==
    /\ realised = [c \in Classes |-> realised[c]]
    /\ \A c \in Classes : \A r, s \in realised[c] : r.id = s.id

\* Whatever was handed out came from the registry.
HandedOut ==
    /\ loaded = [m \in Modules |-> loaded[m]]
    /\ \A m \in Modules : \A instance \in loaded[m] : FromRegistry(realised, again, m, instance.exports)
    /\ \A i \in instances : i.class \in Classes \ again => i.prototype \in Ids(realised, i.class)

\* What waits in the slot is what the module on top has made; nothing runs before the guest.
Handover ==
    /\ slot # {} => TopIs("module") /\ slot = {Top.made} /\ Turn(Top) = "end"
    /\ life = "new" => stack = <<>>

Registry == Sound /\ OneEach /\ HandedOut /\ Handover

-----------------------------------------------------------------------------
(* One identity for each class. *)

LEMMA IdsOf ==
    ASSUME OneEach, NEW c \in Classes, NEW S, S \subseteq Ids(realised, c)
    PROVE  Cardinality(S) <= 1
<1>1. CASE S = {}
  BY <1>1, FS_EmptySet
<1>2. CASE S # {}
  <2>1. PICK x \in S : TRUE
    BY <1>2
  <2>2. S = {x}
    BY <2>1 DEF OneEach, Ids
  <2> QED
    BY <2>2, FS_Singleton
<1> QED
  BY <1>1, <1>2

LEMMA RegistryImplies ==
    ASSUME Registry
    PROVE  OneClassPerType
<1> SUFFICES ASSUME NEW c \in Classes \ again
             PROVE  Cardinality(ClassesSeen(c)) <= 1
  BY DEF OneClassPerType
<1>1. {r.id : r \in realised[c]} \subseteq Ids(realised, c)
  BY DEF Ids
<1>2. {i.prototype : i \in {j \in instances : j.class = c}} \subseteq Ids(realised, c)
  BY DEF Registry, HandedOut
<1>3. ASSUME NEW m \in Modules
      PROVE  ExportedBy(m, c) \subseteq Ids(realised, c)
  <2> SUFFICES ASSUME NEW instance \in loaded[m], NEW i \in DOMAIN instance.exports, Members[m][i].what = c
               PROVE  instance.exports[i].thing \in Ids(realised, c)
    BY DEF ExportedBy
  <2> QED
    BY DEF Registry, HandedOut, FromRegistry
<1>4. ClassesSeen(c) \subseteq Ids(realised, c)
  BY <1>1, <1>2, <1>3 DEF ClassesSeen
<1> QED
  BY <1>4, IdsOf DEF Registry

-----------------------------------------------------------------------------
(* The stack. *)

\* What may be said of a frame is less when more classes have asked for themselves.
LEMMA AskedMore ==
    ASSUME NEW registry, NEW asked, NEW more, asked \subseteq more, NEW f, SoundFrame(registry, asked, f)
    PROVE  SoundFrame(registry, more, f)
BY DEF SoundFrame, FromRegistry

LEMMA PrefixSound ==
    ASSUME Sound, again \subseteq again', NEW n \in Int, n <= Len(stack), stack' = SubSeq(stack, 1, n),
           \A i \in 1 .. n : SoundFrame(realised', again', stack[i])
    PROVE  Sound'
<1> DEFINE S == {stack[i] : i \in DOMAIN stack}
<1>1. stack \in Seq(S)
  BY DEF Sound, Sequence
<1>2. stack' \in Seq(S) /\ \A i \in DOMAIN stack' : i \in 1 .. n /\ i \in DOMAIN stack /\ stack'[i] = stack[i]
  BY <1>1
<1> HIDE DEF S
<1>3. Sequence(stack')
  BY <1>2, IsSequence
<1>4. \A i \in DOMAIN stack' : SoundFrame(realised', again', stack'[i])
  BY <1>2
<1>5. \A i \in DOMAIN stack' : i \in DOMAIN stack /\ stack'[i] = stack[i]
  BY <1>2
<1>6. Linked'
  <2>1. \A i, j \in DOMAIN stack' : i = j + 1 /\ Waiting(stack'[j]) =>
            stack'[i].kind = "class" /\ stack'[i].of = Turn(stack'[j])
    BY <1>5 DEF Sound, Linked
  <2>2. \A i, j \in DOMAIN stack' :
            stack'[i].kind = "class" /\ stack'[j].kind = "class" /\ stack'[i].of = stack'[j].of =>
                i = j \/ stack'[i].of \in again'
    BY <1>5 DEF Sound, Linked
  <2> QED
    BY <2>1, <2>2 DEF Linked, Waiting
<1> QED
  BY <1>3, <1>4, <1>6 DEF Sound, Sequence

LEMMA LaysSound ==
    ASSUME Sound, again \subseteq again', NEW n \in 0 .. Len(stack), NEW f, SoundFrame(realised', again', f),
           stack' = Append(SubSeq(stack, 1, n), f),
           \A i \in 1 .. n : SoundFrame(realised', again', stack[i]),
           f.kind = "class" => \A i \in 1 .. n : stack[i].kind = "class" => stack[i].of # f.of \/ f.of \in again',
           n > 0 /\ Waiting(stack[n]) => f.kind = "class" /\ f.of = Turn(stack[n])
    PROVE  Sound'
<1> DEFINE S == {stack[i] : i \in DOMAIN stack} \cup {f}
           p == SubSeq(stack, 1, n)
<1>1. stack \in Seq(S)
  BY DEF Sound, Sequence
<1>2. p \in Seq(S) /\ Len(p) = n /\ \A i \in 1 .. n : i \in DOMAIN stack /\ p[i] = stack[i]
  BY <1>1
<1>3. /\ stack' \in Seq(S) /\ DOMAIN stack' = 1 .. n + 1
      /\ stack'[n + 1] = f /\ \A i \in 1 .. n : i \in DOMAIN stack /\ stack'[i] = stack[i]
  BY <1>2
<1>4. \A i \in DOMAIN stack' : i = n + 1 \/ i \in 1 .. n
  BY <1>3
<1> HIDE DEF S, p
<1>5. Sequence(stack')
  BY <1>3, IsSequence
<1>6. \A i \in DOMAIN stack' : SoundFrame(realised', again', stack'[i])
  BY <1>3, <1>4
<1>7. ASSUME NEW i \in DOMAIN stack', NEW j \in DOMAIN stack', i = j + 1, Waiting(stack'[j])
      PROVE  stack'[i].kind = "class" /\ stack'[i].of = Turn(stack'[j])
  <2>1. j \in 1 .. n /\ j \in DOMAIN stack /\ stack'[j] = stack[j]
    BY <1>3, <1>4, <1>7
  <2>2. CASE i = n + 1
    BY <1>3, <1>7, <2>1, <2>2
  <2>3. CASE i \in 1 .. n
    <3>1. i \in DOMAIN stack /\ stack'[i] = stack[i] /\ Waiting(stack[j])
      BY <1>3, <1>7, <2>1, <2>3
    <3> QED
      BY <1>7, <2>1, <3>1 DEF Sound, Linked
  <2> QED
    BY <1>4, <2>2, <2>3
<1>8. ASSUME NEW i \in DOMAIN stack', NEW j \in DOMAIN stack',
             stack'[i].kind = "class", stack'[j].kind = "class", stack'[i].of = stack'[j].of
      PROVE  i = j \/ stack'[i].of \in again'
  BY <1>3, <1>4, <1>8 DEF Sound, Linked
<1>9. Linked'
  <2>1. \A i, j \in DOMAIN stack' : i = j + 1 /\ Waiting(stack'[j]) =>
            stack'[i].kind = "class" /\ stack'[i].of = Turn(stack'[j])
    BY <1>7
  <2>2. \A i, j \in DOMAIN stack' :
            stack'[i].kind = "class" /\ stack'[j].kind = "class" /\ stack'[i].of = stack'[j].of =>
                i = j \/ stack'[i].of \in again'
    BY <1>8
  <2> QED
    BY <2>1, <2>2 DEF Linked, Waiting
<1> QED
  BY <1>5, <1>6, <1>9 DEF Sound, Sequence

-----------------------------------------------------------------------------
(* Steps that leave the registry as it is. *)

Unregistered == UNCHANGED <<realised, loaded, instances>> /\ again \subseteq again'

LEMMA StackIs ==
    ASSUME Sound
    PROVE  /\ Len(stack) \in Nat /\ DOMAIN stack = 1 .. Len(stack)
           /\ SubSeq(stack, 1, Len(stack)) = stack
           /\ stack # <<>> => Len(stack) \in DOMAIN stack /\ Top = stack[Len(stack)] /\ SoundFrame(realised, again, Top)
<1>1. Len(stack) \in Nat /\ DOMAIN stack = 1 .. Len(stack) /\ SubSeq(stack, 1, Len(stack)) = stack
  BY DEF Sound, Sequence
<1>2. ASSUME stack # <<>>
      PROVE  Len(stack) \in DOMAIN stack
  BY <1>2 DEF Sound, Sequence
<1> QED
  BY <1>1, <1>2 DEF Sound, Top, Last

LEMMA RestKept ==
    ASSUME Registry, Unregistered
    PROVE  OneEach' /\ HandedOut'
BY DEF Registry, Unregistered, OneEach, HandedOut, FromRegistry, Ids

LEMMA FramesKept ==
    ASSUME Registry, Unregistered
    PROVE  \A i \in DOMAIN stack : SoundFrame(realised', again', stack[i])
<1> SUFFICES ASSUME NEW i \in DOMAIN stack
             PROVE  SoundFrame(realised', again', stack[i])
  OBVIOUS
<1>1. SoundFrame(realised, again, stack[i]) /\ realised' = realised /\ again \subseteq again'
  BY DEF Registry, Sound, Unregistered
<1>2. SoundFrame(realised, again', stack[i])
  BY <1>1, AskedMore
<1> QED
  BY <1>1, <1>2, Zenon

\* While the host runs the slot is empty, and no module waits for a class.
LEMMA HostIsFree ==
    ASSUME Registry, HostRuns
    PROVE  /\ slot = {} /\ life # "new"
           /\ Len(stack) > 0 => ~Waiting(stack[Len(stack)])
<1>1. life # "new"
  BY DEF HostRuns
<1>2. CASE stack = <<>>
  BY <1>1, <1>2 DEF Registry, Handover, TopIs
<1>3. CASE stack # <<>>
  <2>1. Top = stack[Len(stack)]
    BY <1>3, StackIs DEF Registry
  <2>2. Top.kind = "module" => Turn(Top) = "host"
    BY <1>3 DEF HostRuns
  <2>3. "host" \notin Classes /\ "host" # "end"
    BY MembersAssumption
  <2> QED
    BY <1>1, <2>1, <2>2, <2>3 DEF Registry, Handover, TopIs, Waiting
<1> QED
  BY <1>2, <1>3

LEMMA HostPushes ==
    ASSUME Registry, HostRuns, NEW f, SoundFrame(realised, again, f),
           f.kind = "class" => ~OnStack("class", f.of) \/ f.of \in again',
           stack' = Push(f), Unregistered, UNCHANGED <<slot, life>>
    PROVE  Registry'
<1> DEFINE n == Len(stack)
<1>1. n \in 0 .. Len(stack) /\ stack' = Append(SubSeq(stack, 1, n), f) /\ \A i \in 1 .. n : i \in DOMAIN stack
  BY StackIs DEF Registry, Push
<1>2. n > 0 => ~Waiting(stack[n])
  BY HostIsFree
<1>3. /\ again \subseteq again' /\ SoundFrame(realised', again', f)
      /\ \A i \in 1 .. n : SoundFrame(realised', again', stack[i])
  BY <1>1, AskedMore, FramesKept DEF Unregistered
<1>4. f.kind = "class" => \A i \in 1 .. n : stack[i].kind = "class" => stack[i].of # f.of \/ f.of \in again'
  BY <1>1 DEF OnStack
<1> HIDE DEF n
<1>5. Sound'
  BY <1>1, <1>2, <1>3, <1>4, LaysSound DEF Registry
<1>6. Handover'
  BY HostIsFree DEF Handover
<1> QED
  BY <1>5, <1>6, RestKept DEF Registry

LEMMA TopChanges ==
    ASSUME Registry, stack # <<>>, slot = {}, NEW f, SoundFrame(realised, again, f), f.kind = Top.kind,
           f.kind = "class" => f.of = Top.of,
           stack' = Replace(f), Unregistered, UNCHANGED <<slot, life>>
    PROVE  Registry'
<1> DEFINE n == Len(stack) - 1
<1>1. /\ n \in 0 .. Len(stack) /\ \A i \in 1 .. n : i \in DOMAIN stack /\ i # n + 1
      /\ n + 1 \in DOMAIN stack /\ Top = stack[n + 1]
      /\ n > 0 => n \in DOMAIN stack
  <2>1. Len(stack) \in Nat /\ DOMAIN stack = 1 .. Len(stack) /\ Len(stack) \in DOMAIN stack /\ Top = stack[Len(stack)]
    BY StackIs DEF Registry
  <2>2. n \in 0 .. Len(stack) /\ n + 1 = Len(stack)
    BY <2>1
  <2> HIDE DEF n
  <2> QED
    BY <2>1, <2>2
<1>2. stack' = Append(SubSeq(stack, 1, n), f)
  BY DEF Replace, Front
<1> HIDE DEF n
<1>3. /\ again \subseteq again' /\ SoundFrame(realised', again', f)
      /\ \A i \in 1 .. n : SoundFrame(realised', again', stack[i])
  BY <1>1, AskedMore, FramesKept DEF Unregistered
<1>4. f.kind = "class" => \A i \in 1 .. n : stack[i].kind = "class" => stack[i].of # f.of \/ f.of \in again'
  BY <1>1, <1>3 DEF Registry, Sound, Linked
<1>5. n > 0 /\ Waiting(stack[n]) => f.kind = "class" /\ f.of = Turn(stack[n])
  BY <1>1 DEF Registry, Sound, Linked
<1>6. Sound'
  BY <1>1, <1>2, <1>3, <1>4, <1>5, LaysSound DEF Registry
<1>7. Handover'
  BY DEF Registry, Handover
<1> QED
  BY <1>6, <1>7, RestKept DEF Registry

LEMMA Pops ==
    ASSUME Registry, NEW n \in Int, n <= Len(stack), stack' = SubSeq(stack, 1, n),
           Unregistered, slot' = {}, life' # "new"
    PROVE  Registry'
<1>1. again \subseteq again' /\ \A i \in 1 .. n : i \in DOMAIN stack /\ SoundFrame(realised', again', stack[i])
  BY StackIs, FramesKept DEF Unregistered, Registry
<1>2. Sound'
  BY <1>1, PrefixSound DEF Registry
<1>3. Handover'
  BY DEF Handover
<1> QED
  BY <1>2, <1>3, RestKept DEF Registry

LEMMA Unwinds ==
    ASSUME Registry, stack' = Unwound \/ stack' = Front(stack) \/ stack' = <<>>,
           Unregistered, slot' = {}, life' # "new"
    PROVE  Registry'
<1> DEFINE n == Len(stack) - 1
<1>1. Len(stack) \in Nat /\ stack' \in {SubSeq(stack, 1, n), SubSeq(stack, 1, n - 1), SubSeq(stack, 1, 0)}
  <2>1. Len(stack) \in Nat /\ SubSeq(stack, 1, 0) = <<>>
    BY StackIs DEF Registry, Sound, Sequence
  <2> QED
    BY <2>1 DEF Unwound, Front
<1>2. /\ n \in Int /\ n <= Len(stack) /\ n - 1 \in Int /\ n - 1 <= Len(stack) /\ 0 \in Int /\ 0 <= Len(stack)
  BY <1>1
<1> HIDE DEF n
<1> QED
  BY <1>1, <1>2, Pops

-----------------------------------------------------------------------------
(* The steps. *)

\* The slot is empty but when the module on top has made all its members.
LEMMA SlotIsEmpty ==
    ASSUME Registry, stack # <<>>,
           Top.kind # "module" \/ Turn(Top) # "end"
    PROVE  slot = {} /\ life # "new"
BY DEF Registry, Handover, TopIs

LEMMA TurnIs ==
    ASSUME NEW f, f.kind = "module", f.of \in Modules
    PROVE  /\ f.at = 0 => Turn(f) = "host"
           /\ f.at # 0 /\ f.at \in DOMAIN Members[f.of] => Turn(f) = Members[f.of][f.at].what
           /\ f.at # 0 /\ f.at \notin DOMAIN Members[f.of] => Turn(f) = "end"
<1>1. f.kind # "class" /\ 0 \notin DOMAIN Members[f.of]
  <2>1. Members[f.of] \in Seq({Members[f.of][i] : i \in DOMAIN Members[f.of]})
    BY MembersAssumption
  <2> QED
    BY <2>1
<1>2. CASE f.at = 0
  BY <1>1, <1>2, Zenon DEF Turn
<1>3. CASE f.at # 0 /\ f.at \in DOMAIN Members[f.of]
  BY <1>1, <1>3, Zenon DEF Turn
<1>4. CASE f.at # 0 /\ f.at \notin DOMAIN Members[f.of]
  BY <1>1, <1>4, Zenon DEF Turn
<1> QED
  BY <1>2, <1>3, <1>4

\* A module that is not at its end has a member for its turn, once it has its state.
LEMMA TurnsTo ==
    ASSUME NEW f, Realises(f), f.kind = "module", Turn(f) # "end", f.at # 0
    PROVE  f.at \in DOMAIN Members[f.of] /\ Members[f.of][f.at].what = Turn(f)
BY TurnIs DEF Realises

\* The frame of a module, and of a class, after a change.
LEMMA ModuleMade ==
    ASSUME NEW f, Realises(f), f.kind = "module", NEW at, NEW made
    PROVE  [f EXCEPT !.at = at, !.made = made] =
               [kind |-> "module", of |-> f.of, at |-> at, state |-> f.state, made |-> made]
<1> DEFINE of == f.of
           was == f.at
           had == f.state
           make == f.made
           g == [kind |-> "module", of |-> of, at |-> was, state |-> had, made |-> make]
           h == [kind |-> "module", of |-> of, at |-> at, state |-> had, made |-> make]
<1>1. f = g
  BY DEF Realises
<1> HIDE DEF of, was, had, make
<1>2. [g EXCEPT !.at = at] = h
  OBVIOUS
<1>3. [h EXCEPT !.made = made] =
          [kind |-> "module", of |-> of, at |-> at, state |-> had, made |-> made]
  OBVIOUS
<1> HIDE DEF g, h
<1>4. [f EXCEPT !.at = at] = h
  BY <1>1, <1>2, Zenon
<1>5. [f EXCEPT !.at = at, !.made = made] = [h EXCEPT !.made = made]
  BY <1>4, Zenon
<1> QED
  BY <1>3, <1>5, Zenon DEF of, had, make

LEMMA ModuleHasState ==
    ASSUME NEW f, Realises(f), f.kind = "module", NEW at, NEW state
    PROVE  [f EXCEPT !.at = at, !.state = state] =
               [kind |-> "module", of |-> f.of, at |-> at, state |-> state, made |-> f.made]
<1> DEFINE of == f.of
           was == f.at
           had == f.state
           make == f.made
           g == [kind |-> "module", of |-> of, at |-> was, state |-> had, made |-> make]
           h == [kind |-> "module", of |-> of, at |-> at, state |-> had, made |-> make]
<1>1. f = g
  BY DEF Realises
<1> HIDE DEF of, was, had, make
<1>2. [g EXCEPT !.at = at] = h
  OBVIOUS
<1>3. [h EXCEPT !.state = state] =
          [kind |-> "module", of |-> of, at |-> at, state |-> state, made |-> make]
  OBVIOUS
<1> HIDE DEF g, h
<1>4. [f EXCEPT !.at = at] = h
  BY <1>1, <1>2, Zenon
<1>5. [f EXCEPT !.at = at, !.state = state] = [h EXCEPT !.state = state]
  BY <1>4, Zenon
<1> QED
  BY <1>3, <1>5, Zenon DEF of, had, make

LEMMA ModuleMakes ==
    ASSUME NEW f, Realises(f), f.kind = "module", NEW made
    PROVE  [f EXCEPT !.at = f.at + 1, !.made = made] =
               [kind |-> "module", of |-> f.of, at |-> f.at + 1, state |-> f.state, made |-> made]
<1> DEFINE at == f.at + 1
<1> HIDE DEF at
<1>1. [f EXCEPT !.at = at, !.made = made] =
          [kind |-> "module", of |-> f.of, at |-> at, state |-> f.state, made |-> made]
  BY ModuleMade
<1> QED
  BY <1>1 DEF at

LEMMA ClassChanged ==
    ASSUME NEW f, Realises(f), f.kind = "class", NEW at
    PROVE  [f EXCEPT !.at = at] = [kind |-> "class", of |-> f.of, at |-> at, state |-> f.state, made |-> f.made]
<1> DEFINE of == f.of
           was == f.at
           had == f.state
           make == f.made
<1>1. f = [kind |-> "class", of |-> of, at |-> was, state |-> had, made |-> make]
  BY DEF Realises
<1> HIDE DEF of, was, had, make
<1>2. [f EXCEPT !.at = at] = [kind |-> "class", of |-> of, at |-> at, state |-> had, made |-> make]
  BY <1>1
<1> QED
  BY <1>2 DEF of, had, make

\* A member is added to what a module has made.
LEMMA MemberAdded ==
    ASSUME NEW registry, NEW asked, NEW f, SoundFrame(registry, asked, f), f.kind = "module", f.at # 0, NEW next, NEW thing,
           Members[f.of][f.at].what \in Classes \ asked => thing \in Ids(registry, Members[f.of][f.at].what),
           NEW name,
           next = [kind |-> "module", of |-> f.of, at |-> f.at + 1, state |-> f.state,
                   made |-> Append(f.made, [name |-> name, thing |-> thing])]
    PROVE  SoundFrame(registry, asked, next) /\ next.kind = "module"
<1> DEFINE made == f.made
           item == [name |-> name, thing |-> thing]
           more == Append(made, item)
           S == {made[i] : i \in DOMAIN made} \cup {item}
<1>1. Realises(f) /\ f.of \in Modules /\ f.at \in Nat /\ Sequence(made) /\ Len(made) = f.at - 1
  BY DEF SoundFrame, Realises
<1>2. made \in Seq(S)
  BY <1>1 DEF Sequence
<1>3. /\ more \in Seq(S) /\ Len(more) = f.at /\ DOMAIN more = 1 .. f.at /\ more[f.at] = item
      /\ \A i \in 1 .. f.at : i # f.at => i \in DOMAIN made /\ more[i] = made[i]
  BY <1>1, <1>2
<1> HIDE DEF S, more
<1>4. FromRegistry(registry, asked, f.of, more)
  <2> SUFFICES ASSUME NEW i \in 1 .. f.at, Members[f.of][i].what \in Classes \ asked
               PROVE  more[i].thing \in Ids(registry, Members[f.of][i].what)
    BY <1>3 DEF FromRegistry
  <2>1. CASE i = f.at
    BY <1>3, <2>1
  <2>2. CASE i # f.at
    BY <1>3, <2>2 DEF SoundFrame, FromRegistry
  <2> QED
    BY <2>1, <2>2
<1>5. Sequence(more)
  BY <1>3, IsSequence
<1>6. next = [kind |-> "module", of |-> f.of, at |-> f.at + 1, state |-> f.state, made |-> more]
  BY DEF more, item, made
<1>7. /\ next.kind = "module" /\ next.of = f.of /\ next.at = f.at + 1 /\ next.state = f.state
      /\ next.made = more
  BY <1>6
<1>8. Framed(next)
  BY DEF Framed
<1>9. Realises(next)
  <2>1. next = [kind |-> next.kind, of |-> next.of, at |-> next.at, state |-> next.state, made |-> next.made]
    BY <1>6, <1>7, Zenon
  <2>2. next.at \in Nat
    BY <1>1, <1>7
  <2> QED
    BY <1>1, <1>5, <1>7, <2>1, <2>2, Zenon DEF Realises
<1>10. Len(more) = (IF next.at = 0 THEN 0 ELSE next.at - 1)
  BY <1>1, <1>3, <1>7
<1> HIDE DEF made, item
<1> QED
  BY <1>4, <1>7, <1>8, <1>9, <1>10 DEF SoundFrame

LEMMA TopOf ==
    ASSUME Registry, NEW kind, TopIs(kind)
    PROVE  stack # <<>> /\ Top.kind = kind /\ SoundFrame(realised, again, Top)
BY StackIs DEF Registry, TopIs

LEMMA ModuleTurns ==
    ASSUME Registry, TopIs("module"), Turn(Top) # "end"
    PROVE  /\ slot = {} /\ life # "new" /\ stack # <<>> /\ Top.kind = "module"
           /\ SoundFrame(realised, again, Top) /\ Realises(Top)
           /\ Top.at # 0 => Top.at \in DOMAIN Members[Top.of] /\ Members[Top.of][Top.at].what = Turn(Top)
<1>1. stack # <<>> /\ Top.kind = "module" /\ SoundFrame(realised, again, Top)
  BY TopOf
<1>2. Realises(Top)
  BY <1>1 DEF SoundFrame
<1>3. slot = {} /\ life # "new"
  BY <1>1, SlotIsEmpty
<1> QED
  BY <1>1, <1>2, <1>3, TurnsTo

LEMMA MemberMakes ==
    ASSUME Registry, TopIs("module"), Turn(Top) # "end", Top.at # 0, NEW thing,
           Turn(Top) \in Classes => thing \in Ids(realised, Turn(Top)),
           stack' = Made(thing), Unregistered, UNCHANGED <<slot, life>>
    PROVE  Registry'
<1> DEFINE f == Top
           name == Members[f.of][f.at].name
           more == Append(f.made, [name |-> name, thing |-> thing])
           next == [kind |-> "module", of |-> f.of, at |-> f.at + 1, state |-> f.state, made |-> more]
<1>1. /\ slot = {} /\ stack # <<>> /\ f.kind = "module" /\ SoundFrame(realised, again, f) /\ Realises(f)
      /\ Members[f.of][f.at].what = Turn(f)
  BY ModuleTurns
<1>2. stack' = Replace([f EXCEPT !.at = f.at + 1, !.made = more])
  BY DEF Made
<1>3. stack' = Replace(next)
  <2>1. Realises(f) /\ f.kind = "module"
    BY <1>1
  <2> HIDE DEF f, more
  <2>2. [f EXCEPT !.at = f.at + 1, !.made = more] = next
    BY <2>1, ModuleMakes
  <2> QED
    BY <1>2, <2>2, Zenon
<1>4. SoundFrame(realised, again, next) /\ next.kind = "module"
  <2> HIDE DEF f, name
  <2> QED
    BY <1>1, MemberAdded DEF f
<1>5. next.kind = Top.kind
  BY <1>1, <1>4
<1> HIDE DEF next
<1> QED
  BY <1>1, <1>3, <1>4, <1>5, TopChanges

LEMMA ImportKeeps ==
    ASSUME Registry, NEW m \in Modules, Import(m)
    PROVE  Registry'
<1> DEFINE f == Frame("module", m)
<1>1. f.kind = "module" /\ SoundFrame(realised, again, f)
  BY DEF Frame, SoundFrame, Framed, Realises, FromRegistry, Sequence
<1>2. stack' = Push(f) /\ HostRuns /\ Unregistered /\ UNCHANGED <<slot, life>>
  BY DEF Import, hostVars, Unregistered
<1> HIDE DEF f
<1> QED
  BY <1>1, <1>2, HostPushes

LEMMA ClassOfKeeps ==
    ASSUME Registry, NEW c \in Classes, ClassOf(c)
    PROVE  Registry'
<1> DEFINE f == Frame("class", c)
<1>1. f.kind = "class" /\ f.of = c /\ SoundFrame(realised, again, f)
  BY DEF Frame, SoundFrame, Framed, Realises, ClassOf
<1>2. /\ stack' = Push(f) /\ HostRuns /\ Unregistered /\ UNCHANGED <<slot, life>>
      /\ ~OnStack("class", c) \/ c \in again'
  BY DEF ClassOf, AskedAgain, Unregistered
<1> HIDE DEF f
<1> QED
  BY <1>1, <1>2, HostPushes

LEMMA FactoryEndsKeeps ==
    ASSUME Registry, FactoryEnds
    PROVE  Registry'
<1>1. TopIs("module") /\ Top.at = 0 /\ Unregistered /\ UNCHANGED <<slot, life>>
  BY DEF FactoryEnds, Unregistered
<1>2. stack # <<>> /\ Top.kind = "module" /\ SoundFrame(realised, again, Top) /\ Realises(Top)
  BY <1>1, TopOf DEF SoundFrame
<1>3. Turn(Top) = "host"
  BY <1>1, <1>2, TurnIs DEF Realises
<1>4. slot = {} /\ life # "new"
  BY <1>1, <1>3, ModuleTurns
<1>5. stack' = Unwound \/ \E state : stack' = Replace([Top EXCEPT !.at = 1, !.state = state])
  BY DEF FactoryEnds
<1>6. ASSUME NEW state, stack' = Replace([Top EXCEPT !.at = 1, !.state = state])
      PROVE  Registry'
  <2> DEFINE f == Top
             next == [kind |-> "module", of |-> f.of, at |-> 1, state |-> state, made |-> f.made]
  <2>1. stack' = Replace(next)
    BY <1>2, <1>6, ModuleHasState
  <2>2. SoundFrame(realised, again, f) /\ Realises(f) /\ f.kind = "module" /\ f.at = 0
    BY <1>1, <1>2
  <2> HIDE DEF f
  <2>3. next.kind = "module" /\ SoundFrame(realised, again, next)
    BY <2>2 DEF SoundFrame, Framed, Realises
  <2> HIDE DEF next
  <2> QED
    BY <1>1, <1>2, <1>4, <2>1, <2>3, TopChanges
<1> QED
  BY <1>1, <1>4, <1>5, <1>6, Unwinds

LEMMA MemberMadeKeeps ==
    ASSUME Registry, MemberMade
    PROVE  Registry'
<1>1. /\ TopIs("module") /\ Top.at # 0 /\ Turn(Top) \in {"plain", "host"} /\ stack' = Made(0)
      /\ Unregistered /\ UNCHANGED <<slot, life>>
  <2>1. TopIs("module") /\ Top.at > 0
    BY DEF MemberMade
  <2>2. Top.at \in Nat
    BY <2>1, TopOf DEF SoundFrame, Realises
  <2> QED
    BY <2>1, <2>2 DEF MemberMade, hostVars, Unregistered
<1>2. Turn(Top) # "end" /\ Turn(Top) \notin Classes
  BY <1>1, MembersAssumption
<1> QED
  BY <1>1, <1>2, MemberMakes

LEMMA AsksForClassKeeps ==
    ASSUME Registry, AsksForClass
    PROVE  Registry'
<1> DEFINE c == Turn(Top)
<1>1. TopIs("module") /\ c \in Classes /\ c # "end" /\ Unregistered /\ UNCHANGED <<slot, life>>
  BY MembersAssumption DEF AsksForClass, AskedAgain, Unregistered
<1>2. slot = {} /\ life # "new" /\ stack # <<>> /\ Top.kind = "module" /\ Realises(Top)
  BY <1>1, ModuleTurns
<1>3. Top.at # 0
  BY <1>1, <1>2, TurnIs, MembersAssumption DEF Realises
<1>4. ASSUME NEW id \in ClassAtHand(c), stack' = Made(id)
      PROVE  Registry'
  <2>1. id \in Ids(realised, c)
    BY <1>4 DEF ClassAtHand, Ids
  <2> QED
    BY <1>1, <1>3, <1>4, <2>1, MemberMakes
<1>5. ASSUME ClassAtHand(c) = {}, stack' = Push([Frame("class", c) EXCEPT !.state = Top.state]),
             again' = AskedAgain(c)
      PROVE  Registry'
  <2> DEFINE n == Len(stack)
             state == Top.state
             f == [kind |-> "class", of |-> c, at |-> 0, state |-> state, made |-> <<>>]
  <2>1. realised[c] = {}
    BY <1>5 DEF ClassAtHand
  <2>2. stack' = Append(stack, f)
    <3> HIDE DEF c, state
    <3>1. [Frame("class", c) EXCEPT !.state = state] = f
      BY DEF Frame
    <3> QED
      BY <1>5, <3>1 DEF Push, state
  <2> HIDE DEF c, state
  <2>3. f.kind = "class" /\ f.of = c /\ SoundFrame(realised, again, f)
    BY <1>1, <2>1 DEF SoundFrame, Framed, Realises
  <2> HIDE DEF f
  <2>4. n \in 0 .. Len(stack) /\ stack' = Append(SubSeq(stack, 1, n), f) /\ \A i \in 1 .. n : i \in DOMAIN stack
    BY <2>2, StackIs DEF Registry
  <2>5. stack[n] = Top
    BY <1>2, StackIs DEF Registry
  <2>6. /\ again \subseteq again' /\ SoundFrame(realised', again', f)
        /\ \A i \in 1 .. n : SoundFrame(realised', again', stack[i])
    BY <1>1, <2>3, <2>4, AskedMore, FramesKept DEF Unregistered
  <2>7. \A i \in 1 .. n : stack[i].kind = "class" => stack[i].of # f.of \/ f.of \in again'
    BY <1>5, <2>3, <2>4 DEF OnStack, AskedAgain
  <2>8. Waiting(stack[n]) => f.of = Turn(stack[n])
    BY <2>3, <2>5 DEF c
  <2> HIDE DEF n
  <2>9. Sound'
    BY <2>3, <2>4, <2>6, <2>7, <2>8, LaysSound DEF Registry
  <2>10. Handover'
    BY <1>1, <1>2 DEF Handover
  <2> QED
    BY <1>1, <2>9, <2>10, RestKept DEF Registry
<1>6. \/ stack' = Unwound
      \/ \E id \in ClassAtHand(c) : stack' = Made(id)
      \/ /\ ClassAtHand(c) = {} /\ again' = AskedAgain(c)
         /\ stack' = Push([Frame("class", c) EXCEPT !.state = Top.state])
  BY DEF AsksForClass
<1> QED
  BY <1>1, <1>2, <1>4, <1>5, <1>6, Unwinds

LEMMA PropertyMadeKeeps ==
    ASSUME Registry, PropertyMade
    PROVE  Registry'
<1> DEFINE f == Top
           next == [kind |-> "class", of |-> f.of, at |-> f.at + 1, state |-> f.state, made |-> f.made]
<1>1. TopIs("class") /\ Unregistered /\ UNCHANGED <<slot, life>>
  BY DEF PropertyMade, hostVars, Unregistered
<1>2. stack # <<>> /\ f.kind = "class" /\ SoundFrame(realised, again, f) /\ Realises(f)
  BY <1>1, TopOf DEF SoundFrame
<1>3. slot = {}
  BY <1>2, SlotIsEmpty
<1>4. stack' = Replace([f EXCEPT !.at = f.at + 1])
  BY DEF PropertyMade
<1>5. stack' = Replace(next)
  BY <1>2, <1>4, ClassChanged
<1>6. next.kind = Top.kind /\ next.of = Top.of
  BY <1>2
<1> HIDE DEF f
<1>7. SoundFrame(realised, again, next)
  BY <1>2 DEF SoundFrame, Framed, Realises
<1> HIDE DEF next
<1> QED
  BY <1>1, <1>2, <1>3, <1>5, <1>6, <1>7, TopChanges

\* A class ends: its entry appears, and every frame below it stays sound.
LEMMA ClassEndsRegisters ==
    ASSUME Registry, ClassEnds
    PROVE  /\ Top.of \in Classes /\ stack # <<>> /\ slot = {} /\ life # "new"
           /\ Ids(realised', Top.of) = {classes[Top.of] + 1}
           /\ OneEach' /\ HandedOut' /\ again' = again
           /\ \A i \in 1 .. Len(stack) - 1 : i \in DOMAIN stack /\ SoundFrame(realised', again', stack[i])
<1> DEFINE c == Top.of
<1>1. /\ TopIs("class") /\ stack # <<>> /\ Top.kind = "class" /\ c \in Classes /\ again' = again
      /\ c \in again \/ realised[c] = {}
  BY TopOf DEF ClassEnds, SoundFrame, Realises
<1>2. /\ \A d \in Classes : realised'[d] = IF d = c THEN {[id |-> classes[Top.of] + 1, state |-> Top.state]} ELSE realised[d]
      /\ realised' = [d \in Classes |-> realised'[d]]
  BY <1>1 DEF ClassEnds, Registry, OneEach
<1>3. Ids(realised', c) = {classes[Top.of] + 1}
  <2> DEFINE entry == [id |-> classes[Top.of] + 1, state |-> Top.state]
  <2>1. realised'[c] = {entry} /\ entry.id = classes[Top.of] + 1
    BY <1>1, <1>2
  <2> HIDE DEF entry, c
  <2> QED
    BY <2>1 DEF Ids
<1>4. \A d \in Classes \ again : Ids(realised, d) \subseteq Ids(realised', d)
  BY <1>1, <1>2 DEF Ids
<1>5. OneEach'
  BY <1>1, <1>2 DEF Registry, OneEach
<1>6. loaded' = loaded /\ instances' = instances
  BY DEF ClassEnds
<1>7. HandedOut'
  <2> HIDE DEF c
  <2>1. \A m \in Modules : \A instance \in loaded[m] : FromRegistry(realised', again', m, instance.exports)
    BY <1>1, <1>4 DEF Registry, HandedOut, FromRegistry
  <2>2. \A i \in instances : i.class \in Classes \ again => i.prototype \in Ids(realised', i.class)
    BY <1>1, <1>4 DEF Registry, HandedOut
  <2> QED
    BY <1>1, <1>6, <2>1, <2>2 DEF Registry, HandedOut
<1>8. ASSUME NEW i \in 1 .. Len(stack) - 1
      PROVE  i \in DOMAIN stack /\ SoundFrame(realised', again', stack[i])
  <2>1. /\ i \in DOMAIN stack /\ Len(stack) \in DOMAIN stack /\ Top = stack[Len(stack)] /\ i # Len(stack)
        /\ SoundFrame(realised, again, stack[i])
    BY <1>1, StackIs DEF Registry, Sound
  <2>2. stack[i].kind = "class" => stack[i].of # c \/ c \in again
    BY <1>1, <2>1 DEF Registry, Sound, Linked
  <2> DEFINE f == stack[i]
  <2>3. SoundFrame(realised, again, f) /\ (f.kind = "class" => f.of # c \/ c \in again)
    BY <2>1, <2>2
  <2> HIDE DEF f, c
  <2>4. f.kind = "class" => f.of \in again \/ realised'[f.of] = {}
    BY <1>2, <2>3 DEF SoundFrame, Realises
  <2>5. f.kind = "module" => FromRegistry(realised', again', f.of, f.made)
    BY <1>1, <1>4, <2>3 DEF SoundFrame, FromRegistry
  <2>6. SoundFrame(realised', again', f)
    BY <1>1, <2>3, <2>4, <2>5 DEF SoundFrame
  <2> QED
    BY <2>1, <2>6 DEF f
<1>9. slot = {} /\ life # "new"
  BY <1>1, SlotIsEmpty
<1> QED
  BY <1>1, <1>3, <1>5, <1>7, <1>8, <1>9

LEMMA ClassEndsKeeps ==
    ASSUME Registry, ClassEnds
    PROVE  Registry'
<1> DEFINE n == Len(stack) - 1
<1>1. /\ stack # <<>> /\ OneEach' /\ HandedOut' /\ again \subseteq again' /\ slot' = {} /\ life' # "new"
      /\ \A i \in 1 .. n : i \in DOMAIN stack /\ SoundFrame(realised', again', stack[i])
  BY ClassEndsRegisters DEF ClassEnds
<1>2. n \in 0 .. Len(stack) /\ n + 1 \in DOMAIN stack /\ Top = stack[n + 1]
  <2>1. Len(stack) \in Nat /\ DOMAIN stack = 1 .. Len(stack) /\ Len(stack) \in DOMAIN stack /\ Top = stack[Len(stack)]
    BY <1>1, StackIs DEF Registry
  <2>2. n \in 0 .. Len(stack) /\ n + 1 = Len(stack)
    BY <2>1
  <2> HIDE DEF n
  <2> QED
    BY <2>1, <2>2
<1>3. Handover'
  BY <1>1 DEF Handover
<1>4. CASE ~WaitsForClass(n)
  <2>1. stack' = SubSeq(stack, 1, n)
    BY <1>4 DEF ClassEnds, Front
  <2> HIDE DEF n
  <2>2. Sound'
    BY <1>1, <1>2, <2>1, PrefixSound DEF Registry
  <2> QED
    BY <1>1, <1>3, <2>2 DEF Registry
<1>5. CASE WaitsForClass(n)
  <2> DEFINE f == stack[n]
             name == Members[f.of][f.at].name
             more == Append(f.made, [name |-> name, thing |-> classes[Top.of] + 1])
             next == [kind |-> "module", of |-> f.of, at |-> f.at + 1, state |-> f.state, made |-> more]
  <2>1. n > 0 /\ Waiting(f) /\ f.kind = "module" /\ Turn(f) \in Classes
    BY <1>5 DEF WaitsForClass, Waiting
  <2>2. n \in DOMAIN stack /\ n - 1 \in 0 .. Len(stack) /\ SoundFrame(realised', again', f) /\ Realises(f)
    BY <1>1, <1>2, <2>1 DEF SoundFrame
  <2>3. Turn(f) = Top.of
    BY <1>2, <2>1, <2>2 DEF Registry, Sound, Linked
  <2>4. f.at # 0 /\ Turn(f) # "end"
    BY <2>1, <2>2, TurnIs, MembersAssumption DEF Realises
  <2>5. Members[f.of][f.at].what = Top.of
    BY <2>1, <2>2, <2>3, <2>4, TurnsTo
  <2>6. stack' = Append(SubSeq(stack, 1, n - 1), [f EXCEPT !.at = f.at + 1, !.made = more])
    <3>1. Len(stack) - 2 = n - 1
      BY <1>2
    <3> QED
      BY <1>5, <3>1 DEF ClassEnds
  <2>7. stack' = Append(SubSeq(stack, 1, n - 1), next)
    <3> HIDE DEF f, more
    <3>1. [f EXCEPT !.at = f.at + 1, !.made = more] = next
      BY <2>1, <2>2, ModuleMakes
    <3> HIDE DEF next, n
    <3> QED
      BY <2>6, <3>1, Zenon
  <2>8. classes[Top.of] + 1 \in Ids(realised', Top.of)
    BY ClassEndsRegisters
  <2>9. SoundFrame(realised', again', next) /\ next.kind = "module"
    <3> HIDE DEF f, name, n
    <3> QED
      BY <2>1, <2>2, <2>4, <2>5, <2>8, MemberAdded
  <2>10. \A i \in 1 .. n - 1 : SoundFrame(realised', again', stack[i])
    BY <1>1, <1>2
  <2>11. n - 1 > 0 => ~Waiting(stack[n - 1])
    <3> SUFFICES ASSUME n - 1 > 0, Waiting(stack[n - 1])
                 PROVE  FALSE
      OBVIOUS
    <3>1. n - 1 \in DOMAIN stack /\ n = (n - 1) + 1
      BY <1>1, <1>2
    <3> QED
      BY <2>1, <2>2, <3>1 DEF Registry, Sound, Linked
  <2> HIDE DEF n, next
  <2>12. Sound'
    BY <1>1, <2>2, <2>7, <2>9, <2>10, <2>11, LaysSound DEF Registry
  <2> QED
    BY <1>1, <1>3, <2>12 DEF Registry
<1> QED
  BY <1>4, <1>5

\* The slot is filled with what the module on top has made, and emptied into its exports.
LEMMA StoreExportsKeeps ==
    ASSUME Registry, StoreExports
    PROVE  Registry'
<1>1. TopIs("module") /\ Top.at > Len(Members[Top.of]) /\ Unregistered /\ UNCHANGED <<life, again>>
  BY DEF StoreExports, Unregistered
<1>2. stack # <<>> /\ Top.kind = "module" /\ Realises(Top) /\ Top.of \in Modules /\ Top.at \in Nat
  BY <1>1, TopOf DEF SoundFrame, Realises
<1>3. Members[Top.of] \in Seq({Members[Top.of][i] : i \in DOMAIN Members[Top.of]})
  BY <1>2, MembersAssumption
<1>4. Top.at # 0 /\ Top.at \notin DOMAIN Members[Top.of]
  BY <1>1, <1>2, <1>3
<1>5. Turn(Top) = "end"
  BY <1>2, <1>4, TurnIs
<1>6. life # "new"
  BY <1>2 DEF Registry, Handover
<1>7. CASE slot' = {Top.made} /\ UNCHANGED stack
  <2>1. Sound'
    BY <1>1, <1>7 DEF Registry, Sound, Unregistered, Linked, Waiting
  <2>2. Handover'
    BY <1>1, <1>5, <1>6, <1>7 DEF Handover, TopIs, Top
  <2> QED
    BY <1>1, <2>1, <2>2, RestKept DEF Registry
<1>8. CASE stack' = Unwound /\ UNCHANGED slot
  <2>1. slot = {}
    BY DEF Registry, Handover, StoreExports
  <2> QED
    BY <1>1, <1>6, <1>8, <2>1, Unwinds
<1> QED
  BY <1>7, <1>8 DEF StoreExports

LEMMA TakeExportsKeeps ==
    ASSUME Registry, TakeExports
    PROVE  Registry'
<1> DEFINE m == Top.of
           made == Top.made
           n == Len(stack) - 1
<1>1. TopIs("module") /\ slot = {made} /\ slot' = {} /\ UNCHANGED <<life, realised, instances, again>> /\ stack' = SubSeq(stack, 1, n)
  BY DEF Registry, Handover, TakeExports, Front
<1>2. stack # <<>> /\ life # "new" /\ m \in Modules /\ FromRegistry(realised, again, m, made)
  BY <1>1, TopOf DEF SoundFrame, Realises, Registry, Handover
<1>3. loaded' = [loaded EXCEPT ![m] = @ \cup {[exports |-> made, state |-> Top.state]}]
  BY <1>1 DEF TakeExports
<1>4. n \in Int /\ n <= Len(stack) /\ \A i \in 1 .. n : SoundFrame(realised, again, stack[i])
  BY StackIs DEF Registry, Sound
<1> HIDE DEF n
<1>5. Sound'
  BY <1>1, <1>4, PrefixSound DEF Registry
<1>6. OneEach'
  BY <1>1 DEF Registry, OneEach
<1>7. Handover'
  BY <1>1, <1>2 DEF Handover
<1>8. HandedOut'
  <2> DEFINE state == Top.state
  <2>1. loaded = [x \in Modules |-> loaded[x]]
    BY DEF Registry, HandedOut
  <2> HIDE DEF m, made, state
  <2>2. loaded' = [loaded EXCEPT ![m] = @ \cup {[exports |-> made, state |-> state]}]
    BY <1>3 DEF m, made, state
  <2>3. /\ loaded' = [x \in Modules |-> loaded'[x]]
        /\ \A x \in Modules : loaded'[x] = IF x = m THEN loaded[m] \cup {[exports |-> made, state |-> state]} ELSE loaded[x]
    BY <2>1, <2>2
  <2>4. ASSUME NEW x \in Modules, NEW instance \in loaded'[x]
        PROVE  FromRegistry(realised, again, x, instance.exports)
    <3>1. CASE x = m /\ instance \notin loaded[m]
      <4>1. instance.exports = made
        BY <2>3, <2>4, <3>1
      <4> QED
        BY <1>2, <3>1, <4>1, Zenon
    <3>2. CASE x # m \/ instance \in loaded[m]
      BY <2>3, <2>4, <3>2 DEF Registry, HandedOut
    <3> QED
      BY <3>1, <3>2
  <2> QED
    BY <1>1, <2>3, <2>4 DEF Registry, HandedOut
<1> QED
  BY <1>5, <1>6, <1>7, <1>8 DEF Registry

LEMMA EngineFailsKeeps ==
    ASSUME Registry, EngineFails
    PROVE  Registry'
<1>1. slot # {} /\ slot' = {} /\ stack' = Unwound /\ Unregistered /\ life' = life
  BY DEF EngineFails, SlotAfterFailure, Unregistered
<1>2. life # "new"
  BY <1>1 DEF Registry, Handover, TopIs
<1> QED
  BY <1>1, <1>2, Unwinds

LEMMA RealisationFailsKeeps ==
    ASSUME Registry, RealisationFails
    PROVE  Registry'
<1>1. stack # <<>> /\ slot' = {} /\ stack' = Unwound /\ Unregistered /\ life' = life
  BY DEF RealisationFails, TopIs, hostVars, Unregistered
<1>2. life # "new"
  BY <1>1 DEF Registry, Handover
<1> QED
  BY <1>1, <1>2, Unwinds

\* A step that leaves the stack alone, and of what the slot says.
LEMMA StackAlone ==
    ASSUME Registry, stack' = stack, slot' = slot, realised' = realised, again' = again, life' = life
    PROVE  Sound' /\ OneEach' /\ Handover'
<1>1. Sound'
  BY DEF Registry, Sound, Linked, Waiting
<1>2. OneEach' /\ Handover'
  BY DEF Registry, OneEach, Handover, TopIs, Top
<1> QED
  BY <1>1, <1>2

LEMMA BuildingKeeps ==
    ASSUME Registry, Build \/ InitializerEnds \/ InitializerFails \/ Built
    PROVE  Registry'
<1>1. CASE Build
  <2> DEFINE f == Frame("build", "guest")
             n == Len(stack)
  <2>1. stack = <<>> /\ stack' = Push(f) /\ Unregistered /\ slot' = slot /\ life' = "building"
    BY <1>1 DEF Build, Registry, Handover, Unregistered
  <2>2. n = 0 /\ n \in 0 .. Len(stack) /\ stack' = Append(SubSeq(stack, 1, n), f)
    BY <2>1 DEF Push
  <2>3. f.kind = "build" /\ SoundFrame(realised', again', f)
    BY DEF Frame, SoundFrame, Framed
  <2>4. \A i \in 1 .. n : FALSE
    BY <2>2
  <2>5. slot = {}
    BY <2>1 DEF Registry, Handover, TopIs
  <2> HIDE DEF f, n
  <2>6. Sound'
    BY <2>1, <2>2, <2>3, <2>4, LaysSound DEF Registry, Unregistered
  <2>7. Handover'
    BY <2>1, <2>5 DEF Handover
  <2> QED
    BY <2>1, <2>6, <2>7, RestKept DEF Registry
<1>2. CASE InitializerEnds
  <2>1. UNCHANGED <<stack, slot, realised, life, again>> /\ Unregistered
    BY <1>2 DEF InitializerEnds, Unregistered
  <2> QED
    BY <2>1, StackAlone, RestKept DEF Registry
<1>3. CASE InitializerFails \/ Built
  <2>1. TopIs("build") /\ stack' = <<>> /\ Unregistered /\ slot' = slot /\ life' # "new"
    BY <1>3 DEF InitializerFails, Built, Unregistered
  <2>2. slot = {}
    BY <2>1 DEF Registry, Handover, TopIs
  <2> QED
    BY <2>1, <2>2, Unwinds
<1> QED
  BY <1>1, <1>2, <1>3

LEMMA GiveKeeps ==
    ASSUME Registry, NEW c \in Classes, Give(c)
    PROVE  Registry'
<1>1. UNCHANGED <<stack, slot, realised, life, loaded, again>>
  BY DEF Give
<1>2. PICK p \in Ids(realised, c) : instances' = instances \cup {[class |-> c, prototype |-> p]}
  BY DEF Give, ClassAtHand, Ids
<1>3. ASSUME NEW i \in instances', i.class \in Classes \ again
      PROVE  i.prototype \in Ids(realised, i.class)
  <2>1. CASE i \in instances
    BY <1>3, <2>1 DEF Registry, HandedOut
  <2>2. CASE i = [class |-> c, prototype |-> p]
    BY <2>2
  <2> QED
    BY <1>2, <2>1, <2>2
<1>4. HandedOut'
  BY <1>1, <1>3 DEF Registry, HandedOut
<1> QED
  BY <1>1, <1>4, StackAlone DEF Registry

-----------------------------------------------------------------------------
(* Borrowers come and go on the same stack. *)

LEMMA BorrowerSound ==
    ASSUME NEW kind \in {"method", "next"}, NEW cell, NEW mode
    PROVE  /\ SoundFrame(realised, again, Borrower(kind, cell, mode))
           /\ Borrower(kind, cell, mode).kind # "class"
BY DEF Borrower, SoundFrame, Framed

LEMMA PayloadsKeep ==
    ASSUME Registry, PayloadsNext
    PROVE  Registry'
<1>1. ASSUME NEW cell \in Cells, NEW mode \in {"shared", "exclusive"}, Call(cell, mode)
      PROVE  Registry'
  <2> DEFINE f == Borrower("method", cell, mode)
  <2>1. SoundFrame(realised, again, f) /\ f.kind # "class"
    BY BorrowerSound
  <2>2. stack' = Push(f) /\ HostRuns /\ Unregistered /\ UNCHANGED <<slot, life>>
    BY <1>1 DEF Call, hostVars, Unregistered
  <2> HIDE DEF f
  <2> QED
    BY <2>1, <2>2, HostPushes
<1>2. ASSUME NEW cell \in Cells, CallNext(cell)
      PROVE  Registry'
  <2> DEFINE f == Borrower("next", cell, "exclusive")
  <2>1. SoundFrame(realised, again, f) /\ f.kind # "class"
    BY BorrowerSound
  <2>2. stack' = Push(f) /\ HostRuns /\ Unregistered /\ UNCHANGED <<slot, life>>
    BY <1>2 DEF CallNext, hostVars, Unregistered
  <2> HIDE DEF f
  <2> QED
    BY <2>1, <2>2, HostPushes
<1>3. ASSUME NEW cell \in Cells, CallReturn(cell)
      PROVE  Registry'
  <2>1. UNCHANGED <<stack, slot, realised, life, again>> /\ Unregistered
    BY <1>3 DEF CallReturn, hostVars, Unregistered
  <2> QED
    BY <2>1, StackAlone, RestKept DEF Registry
<1>4. CASE Change
  <2> DEFINE f == Top
             next == [f EXCEPT !.saw = value[f.of] + 1]
  <2>1. TopIs("method") /\ stack' = Replace(next) /\ Unregistered /\ UNCHANGED <<slot, life>>
    BY <1>4 DEF Change, hostVars, Unregistered
  <2>2. stack # <<>> /\ f.kind = "method" /\ Framed(f)
    BY <2>1, TopOf DEF SoundFrame
  <2>3. slot = {}
    BY <2>2, SlotIsEmpty
  <2> HIDE DEF f
  <2>4. next.kind = "method" /\ Framed(next)
    BY <2>2 DEF Framed
  <2> HIDE DEF next
  <2>5. SoundFrame(realised, again, next) /\ next.kind = Top.kind /\ next.kind # "class"
    BY <2>2, <2>4 DEF SoundFrame, f
  <2> QED
    BY <2>1, <2>2, <2>3, <2>5, TopChanges
<1>5. CASE Leave \/ NextYields \/ NextEnds
  <2>1. /\ TopIs("method") \/ TopIs("next")
        /\ stack' = Front(stack) /\ Unregistered /\ UNCHANGED <<slot, life>>
    BY <1>5 DEF Leave, NextYields, NextEnds, hostVars, Unregistered
  <2>2. slot = {} /\ life # "new"
    BY <2>1, SlotIsEmpty DEF TopIs
  <2> QED
    BY <2>1, <2>2, Unwinds
<1> QED
  BY <1>1, <1>2, <1>3, <1>4, <1>5 DEF PayloadsNext

-----------------------------------------------------------------------------
(* The invariant. *)

LEMMA RegistryInit ==
    ASSUME Init
    PROVE  Registry
<1> USE DEF Init, RealisationInit
<1>1. Sound
  BY DEF Sound, Sequence, Linked
<1>2. OneEach
  BY DEF OneEach
<1>3. HandedOut
  BY DEF HandedOut
<1>4. Handover
  BY DEF Handover
<1> QED
  BY <1>1, <1>2, <1>3, <1>4 DEF Registry

LEMMA RegistryStep ==
    ASSUME Registry, [Next]_vars
    PROVE  Registry'
<1>1. CASE RealisationNext
  BY <1>1, BuildingKeeps, ImportKeeps, FactoryEndsKeeps, MemberMadeKeeps, AsksForClassKeeps, StoreExportsKeeps,
     TakeExportsKeeps, EngineFailsKeeps, ClassOfKeeps, GiveKeeps, PropertyMadeKeeps, ClassEndsKeeps,
     RealisationFailsKeeps DEF RealisationNext
<1>2. CASE PayloadsNext
  BY <1>2, PayloadsKeep
<1>3. CASE UNCHANGED vars
  <2>1. UNCHANGED <<stack, slot, realised, life, again>> /\ Unregistered
    BY <1>3 DEF vars, hostVars, Unregistered
  <2> QED
    BY <2>1, StackAlone, RestKept DEF Registry
<1> QED
  BY <1>1, <1>2, <1>3 DEF Next

\* A type has one class in a guest: the class in the registry, that of every object, and that
\* of every export of every module are the same, however realisations nest, fail half way and
\* are tried again, for every set of modules and classes and every way they refer to each other,
\* but for a type whose own realisation asked for its class: that one get_or_realise may
\* replace (OneClassPerType).
THEOREM AlwaysOneClassPerType == Spec => []OneClassPerType
<1>1. Init => Registry
  BY RegistryInit
<1>2. Registry /\ [Next]_vars => Registry'
  BY RegistryStep
<1>3. Registry => OneClassPerType
  BY RegistryImplies
<1> QED
  BY <1>1, <1>2, <1>3, PTL DEF Spec

-----------------------------------------------------------------------------
(* What is realised is as it was declared.                                   *)

\* What one frame says of itself, given how many states there are and the modules that
\* are loaded: a class has the state its callbacks ask for, a module exports its own
\* members in their order, and has a state of its own.
DeclaredFrame(count, modules, f) ==
    /\ f.kind = "class" => ClassNeeds[f.of] \subseteq Provides(f.state)
    /\ f.kind = "module" =>
         /\ Len(f.made) <= Len(Members[f.of])
         /\ \A k \in DOMAIN f.made : f.made[k].name = Members[f.of][k].name
         /\ f.at # 0 => ModuleNeeds[f.of] \subseteq Provides(f.state)
         /\ f.state # Empty =>
              /\ f.state.id \in 1 .. count
              /\ \A m \in Modules : \A instance \in modules[m] : instance.state # f.state

\* A module is pushed by host code, below the bound; the class it asks for may exceed it.
Placed(i, f) == i <= MaxFrames + 1 /\ (f.kind = "module" => i <= MaxFrames)

Frames ==
    /\ \A i \in DOMAIN stack : DeclaredFrame(states, loaded, stack[i]) /\ Placed(i, stack[i])
    /\ \A i, j \in DOMAIN stack :
         /\ stack[i].kind = "module" /\ stack[j].kind = "module"
         /\ stack[i].state = stack[j].state /\ stack[i].state # Empty
         => i = j

DeclaredInstance(count, m, instance) ==
    /\ ModuleNeeds[m] \subseteq Provides(instance.state)
    /\ DOMAIN instance.exports = DOMAIN Members[m]
    /\ \A k \in DOMAIN Members[m] : instance.exports[k].name = Members[m][k].name
    /\ Unique(instance.exports)
    /\ instance.state # Empty => instance.state.id \in 1 .. count

Instances ==
    /\ \A m \in Modules : \A instance \in loaded[m] : DeclaredInstance(states, m, instance)
    /\ \A m, n \in Modules : \A instance \in loaded[m], other \in loaded[n] :
         instance.state = other.state /\ instance.state # Empty => m = n
    /\ states \in 0 .. MaxStates

RealisedClasses ==
    \A c \in Classes :
        /\ Cardinality(realised[c]) <= 1
        /\ \A r \in realised[c] : ClassNeeds[c] \subseteq Provides(r.state)

SlotIsUnique == slot # {} => Unique(Top.made)

\* The initialisers that have ended are the first ones.
Initialised ==
    /\ life \in {"new", "building", "built", "failed"}
    /\ Len(ran) \in Nat /\ DOMAIN ran = 1 .. Len(ran) /\ Len(ran) <= Len(Initializers)
    /\ \A i \in DOMAIN ran : ran[i] = Initializers[i]
    /\ ran \in Seq({Initializers[i] : i \in DOMAIN Initializers})
    /\ life = "built" => Len(ran) = Len(Initializers)

ValuesBounded == \A c \in Cells : value[c] <= MaxValue

Declared ==
    Frames /\ Instances /\ RealisedClasses /\ SlotIsUnique /\ Initialised /\ ValuesBounded

-----------------------------------------------------------------------------
(* The order of the initialisers. *)

LEMMA MembersAre ==
    ASSUME NEW m \in Modules
    PROVE  Len(Members[m]) \in Nat /\ DOMAIN Members[m] = 1 .. Len(Members[m])
<1>1. Members[m] \in Seq({Members[m][i] : i \in DOMAIN Members[m]})
  BY MembersAssumption
<1> QED
  BY <1>1

Host   == RuntimeHost \o GuestHost
Native == RuntimeNative \o GuestNative

\* What is in a concatenation is in one of its parts, the first one first.
LEMMA PartsOf ==
    ASSUME NEW s, NEW t, s \in Seq(ToSet(s)), t \in Seq(ToSet(t))
    PROVE  /\ s \o t \in Seq(ToSet(s \o t)) /\ ToSet(s \o t) = ToSet(s) \cup ToSet(t)
           /\ Len(s) \in Nat /\ Len(s \o t) \in Nat /\ DOMAIN (s \o t) = 1 .. Len(s \o t)
           /\ \A i \in DOMAIN (s \o t) : (s \o t)[i] \in IF i <= Len(s) THEN ToSet(s) ELSE ToSet(t)
<1> DEFINE S == ToSet(s) \cup ToSet(t)
           m == Len(s)
           n == Len(t)
           c == s \o t
<1>1. s \in Seq(S) /\ t \in Seq(S)
  BY SeqMonotonic
<1>2. /\ m \in Nat /\ n \in Nat /\ DOMAIN s = 1 .. m /\ DOMAIN t = 1 .. n
      /\ c \in Seq(S) /\ Len(c) = m + n /\ DOMAIN c = 1 .. (m + n)
      /\ \A i \in 1 .. (m + n) : c[i] = IF i <= m THEN s[i] ELSE t[i - m]
  BY <1>1, ConcatProperties, LenProperties
<1>3. ToSet(s) = {s[i] : i \in 1 .. m} /\ ToSet(t) = {t[i] : i \in 1 .. n}
  BY <1>2 DEF ToSet
<1> HIDE DEF m, n, c, S
<1>4. \A i \in 1 .. m : i \in 1 .. (m + n) /\ c[i] = s[i]
  BY <1>2
<1>5. \A i \in 1 .. n : m + i \in 1 .. (m + n) /\ c[m + i] = t[i]
  BY <1>2
<1>6. \A i \in 1 .. (m + n) : c[i] \in IF i <= m THEN ToSet(s) ELSE ToSet(t)
  <2> SUFFICES ASSUME NEW i \in 1 .. (m + n)
               PROVE  c[i] \in IF i <= m THEN ToSet(s) ELSE ToSet(t)
    OBVIOUS
  <2>1. CASE i <= m
    <3>1. i \in 1 .. m
      BY <1>2, <2>1
    <3> QED
      BY <1>3, <1>4, <2>1, <3>1
  <2>2. CASE ~(i <= m)
    <3>1. i - m \in 1 .. n
      BY <1>2, <2>2
    <3> QED
      BY <1>2, <1>3, <2>2, <3>1
  <2> QED
    BY <2>1, <2>2
<1>7. ToSet(c) = ToSet(s) \cup ToSet(t)
  <2>1. ToSet(c) = {c[i] : i \in 1 .. (m + n)}
    BY <1>2 DEF ToSet
  <2>2. ToSet(s) \subseteq ToSet(c)
    BY <1>3, <1>4, <2>1
  <2>3. ToSet(t) \subseteq ToSet(c)
    BY <1>3, <1>5, <2>1
  <2>4. ToSet(c) \subseteq ToSet(s) \cup ToSet(t)
    BY <1>6, <2>1
  <2> QED
    BY <2>2, <2>3, <2>4
<1> QED
  BY <1>2, <1>6, <1>7 DEF c, m, S

\* The initialisers in their order: the host's, of which the runtime's come first, and
\* the native ones, of which the runtime's come first.
LEMMA InitializersAre ==
    /\ Len(Initializers) \in Nat /\ DOMAIN Initializers = 1 .. Len(Initializers)
    /\ Initializers = Host \o Native
    /\ ToSet(Initializers) = ToSet(Host) \cup ToSet(Native)
    /\ ToSet(Host) = ToSet(RuntimeHost) \cup ToSet(GuestHost)
    /\ ToSet(Native) = ToSet(RuntimeNative) \cup ToSet(GuestNative)
    /\ \A i, j \in DOMAIN Initializers : i < j =>
         /\ Initializers[i] \in ToSet(Native) => Initializers[j] \notin ToSet(Host)
         /\ Initializers[i] \in ToSet(GuestHost) => Initializers[j] \notin ToSet(RuntimeHost)
         /\ Initializers[i] \in ToSet(GuestNative) => Initializers[j] \notin ToSet(RuntimeNative)
<1> DEFINE RH == ToSet(RuntimeHost)
           GH == ToSet(GuestHost)
           RN == ToSet(RuntimeNative)
           GN == ToSet(GuestNative)
           a  == Len(RuntimeHost)
           b  == Len(Host)
           d  == Len(RuntimeNative)
<1>1. /\ RuntimeHost \in Seq(RH) /\ GuestHost \in Seq(GH)
      /\ RuntimeNative \in Seq(RN) /\ GuestNative \in Seq(GN)
  BY InitializersAssumption
<1>2. /\ Host \in Seq(ToSet(Host)) /\ ToSet(Host) = RH \cup GH
      /\ a \in Nat /\ b \in Nat /\ DOMAIN Host = 1 .. b
      /\ \A i \in 1 .. b : Host[i] \in IF i <= a THEN RH ELSE GH
  BY <1>1, PartsOf DEF Host
<1>3. /\ Native \in Seq(ToSet(Native)) /\ ToSet(Native) = RN \cup GN
      /\ d \in Nat /\ Len(Native) \in Nat /\ DOMAIN Native = 1 .. Len(Native)
      /\ \A i \in 1 .. Len(Native) : Native[i] \in IF i <= d THEN RN ELSE GN
  BY <1>1, PartsOf DEF Native
<1>4. Initializers = Host \o Native
  <2> DEFINE S == RH \cup GH \cup RN \cup GN
  <2>1. RuntimeHost \in Seq(S) /\ GuestHost \in Seq(S) /\ RuntimeNative \in Seq(S) /\ GuestNative \in Seq(S)
    BY <1>1, SeqMonotonic
  <2>2. Host \in Seq(S)
    BY <2>1, ConcatProperties DEF Host
  <2> HIDE DEF S
  <2>3. (Host \o RuntimeNative) \o GuestNative = Host \o (RuntimeNative \o GuestNative)
    BY <2>1, <2>2, ConcatAssociative
  <2> QED
    BY <2>3 DEF Initializers, Host, Native
<1>5. /\ Len(Initializers) = b + Len(Native) /\ DOMAIN Initializers = 1 .. (b + Len(Native))
      /\ \A i \in 1 .. (b + Len(Native)) : Initializers[i] = IF i <= b THEN Host[i] ELSE Native[i - b]
  <2> DEFINE S == ToSet(Host) \cup ToSet(Native)
  <2>1. Host \in Seq(S) /\ Native \in Seq(S)
    BY <1>2, <1>3, SeqMonotonic
  <2> HIDE DEF S
  <2> QED
    BY <1>4, <2>1, ConcatProperties, LenProperties
<1>6. /\ RH \cap GH = {} /\ RN \cap GN = {} /\ (RH \cup GH) \cap (RN \cup GN) = {}
  BY InitializersAssumption
<1>7. ToSet(Initializers) = ToSet(Host) \cup ToSet(Native)
  BY <1>2, <1>3, <1>4, PartsOf
<1> HIDE DEF a, b, d, RH, GH, RN, GN
<1>8. ASSUME NEW i \in 1 .. (b + Len(Native))
      PROVE  /\ i <= a /\ i <= b => Initializers[i] \in RH
             /\ i > a /\ i <= b => Initializers[i] \in GH
             /\ i > b /\ i <= b + d => Initializers[i] \in RN
             /\ i > b /\ i > b + d => Initializers[i] \in GN
  <2>1. CASE i <= b
    <3>1. i \in 1 .. b
      BY <1>2, <2>1
    <3> QED
      BY <1>2, <1>5, <2>1, <3>1
  <2>2. CASE i > b
    <3>1. i - b \in 1 .. Len(Native) /\ ~(i <= b) /\ (i - b <= d <=> i <= b + d)
      BY <1>2, <1>3, <2>2
    <3>2. Initializers[i] = Native[i - b]
      BY <1>5, <3>1
    <3> QED
      BY <1>2, <1>3, <2>2, <3>1, <3>2
  <2> QED
    BY <1>2, <2>1, <2>2
<1>9. ASSUME NEW i \in 1 .. (b + Len(Native)), NEW j \in 1 .. (b + Len(Native)), i < j
      PROVE  /\ Initializers[i] \in RN \cup GN => Initializers[j] \notin RH \cup GH
             /\ Initializers[i] \in GH => Initializers[j] \notin RH
             /\ Initializers[i] \in GN => Initializers[j] \notin RN
  <2>1. Initializers[i] \in RN \cup GN => i > b
    BY <1>2, <1>3, <1>6, <1>8
  <2>2. j > b => Initializers[j] \in RN \cup GN
    BY <1>2, <1>3, <1>8
  <2>3. Initializers[i] \in GH => i > a /\ i <= b
    BY <1>2, <1>3, <1>6, <1>8
  <2>4. j > a => Initializers[j] \notin RH
    BY <1>2, <1>3, <1>6, <1>8
  <2>5. Initializers[i] \in GN => i > b /\ i > b + d
    BY <1>2, <1>3, <1>6, <1>8
  <2>6. j > b /\ j > b + d => Initializers[j] \notin RN
    BY <1>2, <1>3, <1>6, <1>8
  <2>7. /\ i > b => j > b
        /\ i > a => j > a
        /\ i > b /\ i > b + d => j > b /\ j > b + d
    BY <1>2, <1>3, <1>9
  <2> QED
    BY <1>6, <2>1, <2>2, <2>3, <2>4, <2>5, <2>6, <2>7
<1> QED
  BY <1>2, <1>3, <1>4, <1>5, <1>7, <1>9 DEF RH, GH, RN, GN

-----------------------------------------------------------------------------
LEMMA DeclaredImplies ==
    ASSUME References, Registry, Declared
    PROVE  RealisedAsDeclared
<1>1. TypeOK
  <2>1. Len(stack) <= MaxFrames + 1
    <3>1. Len(stack) \in Nat /\ DOMAIN stack = 1 .. Len(stack)
      BY StackIs DEF Registry
    <3>2. CASE Len(stack) = 0
      BY <3>2, BoundsAssumption
    <3>3. CASE Len(stack) # 0
      <4>1. Len(stack) \in DOMAIN stack
        BY <3>1, <3>3
      <4> QED
        BY <4>1 DEF Declared, Frames, Placed
    <3> QED
      BY <3>2, <3>3
  <2>2. Cardinality(slot) <= 1
    <3>1. slot = {} \/ slot = {Top.made}
      BY DEF Registry, Handover
    <3> DEFINE made == Top.made
    <3> HIDE DEF made
    <3>2. slot = {} \/ slot = {made}
      BY <3>1 DEF made
    <3>3. CASE slot = {}
      BY <3>3, FS_EmptySet
    <3>4. CASE slot = {made}
      <4>1. Cardinality(slot) = 1
        BY <3>4, FS_Singleton
      <4> QED
        BY <4>1
    <3> QED
      BY <3>2, <3>3, <3>4
  <2>3. value \in [Cells -> 0 .. MaxValue]
    BY MaxValueAssumption DEF References, PayloadTypes, Declared, ValuesBounded
  <2> QED
    BY <2>1, <2>2, <2>3 DEF TypeOK, References, PayloadTypes, Declared, Initialised, Instances, RealisedClasses
<1>2. StatesMeetNeeds
  BY DEF StatesMeetNeeds, Declared, RealisedClasses, Instances, DeclaredInstance
<1>3. ExportsAreOwn
  <2>1. ASSUME NEW m \in Modules, NEW instance \in loaded[m]
        PROVE  /\ [i \in DOMAIN instance.exports |-> instance.exports[i].name]
                      = [i \in DOMAIN Members[m] |-> Members[m][i].name]
               /\ \A i, j \in DOMAIN instance.exports :
                    instance.exports[i].name = instance.exports[j].name => i = j
    <3>1. DeclaredInstance(states, m, instance)
      BY DEF Declared, Instances
    <3> QED
      BY <3>1 DEF DeclaredInstance, Unique
  <2> QED
    BY <2>1 DEF ExportsAreOwn, Registry, Handover
<1>4. InitializersInOrder
  <2>1. /\ DOMAIN ran = 1 .. Len(ran) /\ Len(ran) \in Nat /\ Len(ran) <= Len(Initializers)
        /\ \A i \in DOMAIN ran : ran[i] = Initializers[i]
        /\ life = "built" => Len(ran) = Len(Initializers)
    BY DEF Declared, Initialised
  <2>2. Len(Initializers) \in Nat /\ DOMAIN Initializers = 1 .. Len(Initializers)
    BY InitializersAre
  <2>3. \A i \in DOMAIN ran : i \in DOMAIN Initializers
    <3> DEFINE m == Len(ran)
               n == Len(Initializers)
    <3>1. m \in Nat /\ n \in Nat /\ m <= n
      BY <2>1, <2>2, Zenon
    <3>2. DOMAIN ran = 1 .. m /\ DOMAIN Initializers = 1 .. n
      BY <2>1, <2>2, Zenon
    <3> HIDE DEF m, n
    <3>3. \A i \in 1 .. m : i \in 1 .. n
      BY <3>1
    <3> QED
      BY <3>2, <3>3, Zenon
  <2>4. ASSUME NEW i \in DOMAIN ran, NEW j \in DOMAIN ran, i < j
        PROVE  /\ ran[i] \in ToSet(Native) => ran[j] \notin ToSet(Host)
               /\ ran[i] \in ToSet(GuestHost) => ran[j] \notin ToSet(RuntimeHost)
               /\ ran[i] \in ToSet(GuestNative) => ran[j] \notin ToSet(RuntimeNative)
    BY <2>1, <2>3, <2>4, InitializersAre
  <2>5. life = "built" => ToSet(ran) = ToSet(Initializers)
    BY <2>1, <2>2 DEF ToSet
  <2>6. Initializers = RuntimeHost \o GuestHost \o RuntimeNative \o GuestNative
    BY DEF Initializers
  <2> QED
    BY <2>4, <2>5, <2>6 DEF InitializersInOrder, Host, Native
<1> QED
  BY <1>1, <1>2, <1>3, <1>4 DEF RealisedAsDeclared

-----------------------------------------------------------------------------
(* The frames of a changed stack. *)

LEMMA LaidIs ==
    ASSUME Sound, NEW n \in 0 .. Len(stack), NEW f, stack' = Append(SubSeq(stack, 1, n), f)
    PROVE  /\ DOMAIN stack' = 1 .. n + 1 /\ stack'[n + 1] = f
           /\ \A i \in 1 .. n : i \in DOMAIN stack /\ i <= Len(stack) /\ stack'[i] = stack[i]
<1> DEFINE S == {stack[i] : i \in DOMAIN stack} \cup {f}
           p == SubSeq(stack, 1, n)
<1>1. stack \in Seq(S)
  BY DEF Sound, Sequence
<1>2. p \in Seq(S) /\ Len(p) = n /\ \A i \in 1 .. n : i \in DOMAIN stack /\ i <= Len(stack) /\ p[i] = stack[i]
  BY <1>1
<1> QED
  BY <1>2

LEMMA PrefixIs ==
    ASSUME Sound, NEW n \in Int, n <= Len(stack), stack' = SubSeq(stack, 1, n)
    PROVE  \A i \in DOMAIN stack' : i \in 1 .. n /\ i \in DOMAIN stack /\ stack'[i] = stack[i]
<1> DEFINE S == {stack[i] : i \in DOMAIN stack}
<1>1. stack \in Seq(S)
  BY DEF Sound, Sequence
<1> QED
  BY <1>1

LEMMA FramesLaid ==
    ASSUME Sound, Frames, NEW n \in 0 .. Len(stack), NEW f, stack' = Append(SubSeq(stack, 1, n), f),
           DeclaredFrame(states', loaded', f), Placed(n + 1, f),
           \A i \in 1 .. n : DeclaredFrame(states', loaded', stack[i]),
           f.kind = "module" /\ f.state # Empty =>
               \A i \in 1 .. n : stack[i].kind = "module" => stack[i].state # f.state
    PROVE  Frames'
<1>1. /\ DOMAIN stack' = 1 .. n + 1 /\ stack'[n + 1] = f
      /\ \A i \in 1 .. n : i \in DOMAIN stack /\ stack'[i] = stack[i]
  BY LaidIs
<1>2. \A i \in 1 .. n + 1 : i = n + 1 \/ i \in 1 .. n
  OBVIOUS
<1>3. ASSUME NEW i \in DOMAIN stack'
      PROVE  DeclaredFrame(states', loaded', stack'[i]) /\ Placed(i, stack'[i])
  <2>1. CASE i = n + 1
    BY <1>1, <2>1
  <2>2. CASE i \in 1 .. n
    <3>1. stack'[i] = stack[i] /\ i \in DOMAIN stack
      BY <1>1, <2>2
    <3>2. DeclaredFrame(states', loaded', stack[i]) /\ Placed(i, stack[i])
      BY <2>2, <3>1 DEF Frames
    <3> QED
      BY <3>1, <3>2
  <2> QED
    BY <1>1, <1>2, <2>1, <2>2
<1>4. ASSUME NEW i \in DOMAIN stack', NEW j \in DOMAIN stack',
             stack'[i].kind = "module", stack'[j].kind = "module",
             stack'[i].state = stack'[j].state, stack'[i].state # Empty
      PROVE  i = j
  <2>1. CASE i \in 1 .. n /\ j \in 1 .. n
    BY <1>1, <1>4, <2>1 DEF Frames
  <2>2. CASE i = n + 1 /\ j \in 1 .. n
    BY <1>1, <1>4, <2>2
  <2>3. CASE j = n + 1 /\ i \in 1 .. n
    BY <1>1, <1>4, <2>3
  <2> QED
    BY <1>1, <1>2, <2>1, <2>2, <2>3
<1> QED
  BY <1>3, <1>4 DEF Frames

LEMMA FramesPrefix ==
    ASSUME Sound, Frames, NEW n \in Int, n <= Len(stack), stack' = SubSeq(stack, 1, n),
           \A i \in 1 .. n : i \in DOMAIN stack => DeclaredFrame(states', loaded', stack[i])
    PROVE  Frames'
<1>1. \A i \in DOMAIN stack' : i \in 1 .. n /\ i \in DOMAIN stack /\ stack'[i] = stack[i]
  BY PrefixIs
<1>2. ASSUME NEW i \in DOMAIN stack'
      PROVE  DeclaredFrame(states', loaded', stack'[i]) /\ Placed(i, stack'[i])
  <2>1. DeclaredFrame(states', loaded', stack[i]) /\ Placed(i, stack[i]) /\ stack'[i] = stack[i]
    BY <1>1 DEF Frames
  <2> QED
    BY <2>1
<1>3. ASSUME NEW i \in DOMAIN stack', NEW j \in DOMAIN stack',
             stack'[i].kind = "module", stack'[j].kind = "module",
             stack'[i].state = stack'[j].state, stack'[i].state # Empty
      PROVE  i = j
  BY <1>1, <1>3 DEF Frames
<1> QED
  BY <1>2, <1>3 DEF Frames

LEMMA FramesPopped ==
    ASSUME Registry, Frames, stack' = Unwound \/ stack' = Front(stack) \/ stack' = <<>>,
           \A i \in DOMAIN stack : DeclaredFrame(states', loaded', stack[i])
    PROVE  Frames'
<1> DEFINE n == Len(stack) - 1
<1>1. Len(stack) \in Nat /\ stack' \in {SubSeq(stack, 1, n), SubSeq(stack, 1, n - 1), SubSeq(stack, 1, 0)}
  <2>1. Len(stack) \in Nat /\ SubSeq(stack, 1, 0) = <<>>
    BY StackIs DEF Registry, Sound, Sequence
  <2> QED
    BY <2>1 DEF Unwound, Front
<1>2. n \in Int /\ n <= Len(stack) /\ n - 1 \in Int /\ n - 1 <= Len(stack) /\ 0 \in Int /\ 0 <= Len(stack)
  BY <1>1
<1> HIDE DEF n
<1> QED
  BY <1>1, <1>2, FramesPrefix DEF Registry

\* What lies below the top of a stack of height h.
LEMMA Below ==
    ASSUME NEW h, h \in Nat, h \in 1 .. h
    PROVE  /\ h - 1 \in 0 .. h /\ (h - 1) + 1 = h /\ h - 1 \in Int /\ h - 1 <= h
           /\ \A i \in 1 .. h - 1 : i \in 1 .. h /\ i # h
OBVIOUS

\* The top of the stack is what it was, but for one frame.
LEMMA TopReplaced ==
    ASSUME Registry, Frames, stack # <<>>, NEW f, stack' = Replace(f),
           f.kind = "module" => Top.kind = "module" /\ f.state = Top.state,
           DeclaredFrame(states', loaded', f),
           \A i \in DOMAIN stack : DeclaredFrame(states', loaded', stack[i])
    PROVE  Frames'
<1> DEFINE n == Len(stack) - 1
<1>1. /\ Len(stack) \in Nat /\ DOMAIN stack = 1 .. Len(stack) /\ Len(stack) \in DOMAIN stack
      /\ Top = stack[Len(stack)]
  BY StackIs DEF Registry
<1>2. n \in 0 .. Len(stack) /\ n + 1 = Len(stack) /\ stack' = Append(SubSeq(stack, 1, n), f)
  BY <1>1 DEF Replace, Front
<1>3. \A i \in 1 .. n : i \in DOMAIN stack /\ i # Len(stack)
  <2>1. Len(stack) \in 1 .. Len(stack)
    BY <1>1
  <2> QED
    BY <1>1, <2>1, Below, Zenon
<1> HIDE DEF n
<1>4. Placed(n + 1, f)
  BY <1>1, <1>2 DEF Frames, Placed
<1>5. f.kind = "module" /\ f.state # Empty =>
          \A i \in 1 .. n : stack[i].kind = "module" => stack[i].state # f.state
  BY <1>1, <1>3 DEF Frames
<1> QED
  BY <1>2, <1>3, <1>4, <1>5, FramesLaid DEF Registry

-----------------------------------------------------------------------------
(* Steps that realise nothing. *)

Settled == UNCHANGED <<states, loaded, realised, life, ran, value>>

LEMMA OthersKept ==
    ASSUME Declared, Settled
    PROVE  /\ Instances' /\ RealisedClasses' /\ Initialised' /\ ValuesBounded'
           /\ \A i \in DOMAIN stack : DeclaredFrame(states', loaded', stack[i])
<1>1. Instances' /\ RealisedClasses' /\ Initialised' /\ ValuesBounded'
  BY DEF Declared, Settled, Instances, RealisedClasses, Initialised, ValuesBounded
<1>2. \A i \in DOMAIN stack : DeclaredFrame(states, loaded, stack[i])
  BY DEF Declared, Frames
<1>3. states' = states /\ loaded' = loaded
  BY DEF Settled
<1> QED
  BY <1>1, <1>2, <1>3

LEMMA DeclaredPopped ==
    ASSUME Registry, Declared, stack' = Unwound \/ stack' = Front(stack) \/ stack' = <<>>,
           Settled, slot' = {}
    PROVE  Declared'
<1>1. Frames'
  BY OthersKept, FramesPopped DEF Declared
<1> QED
  BY <1>1, OthersKept DEF Declared, SlotIsUnique

LEMMA DeclaredReplaced ==
    ASSUME Registry, Declared, stack # <<>>, NEW f, stack' = Replace(f),
           f.kind = "module" => Top.kind = "module" /\ f.state = Top.state,
           DeclaredFrame(states, loaded, f), Settled, slot' = {}
    PROVE  Declared'
<1>1. DeclaredFrame(states', loaded', f)
  BY DEF Settled
<1>2. Frames'
  BY <1>1, OthersKept, TopReplaced DEF Declared
<1> QED
  BY <1>2, OthersKept DEF Declared, SlotIsUnique

LEMMA DeclaredPushed ==
    ASSUME Registry, Declared, NEW f, stack' = Push(f), DeclaredFrame(states, loaded, f),
           f.kind = "module" => f.state = Empty,
           Len(stack) <= MaxFrames, f.kind = "module" => Len(stack) < MaxFrames,
           Settled, slot' = {}
    PROVE  Declared'
<1> DEFINE n == Len(stack)
<1>1. n \in Nat /\ n \in 0 .. Len(stack) /\ stack' = Append(SubSeq(stack, 1, n), f) /\ \A i \in 1 .. n : i \in DOMAIN stack
  BY StackIs DEF Registry, Push
<1>2. DeclaredFrame(states', loaded', f)
  BY DEF Settled
<1>3. \A i \in 1 .. n : DeclaredFrame(states', loaded', stack[i])
  BY <1>1, OthersKept
<1>4. n <= MaxFrames /\ (f.kind = "module" => n < MaxFrames)
  OBVIOUS
<1> HIDE DEF n
<1>5. Placed(n + 1, f)
  BY <1>1, <1>4, BoundsAssumption DEF Placed
<1>6. Frames'
  BY <1>1, <1>2, <1>3, <1>5, FramesLaid DEF Registry, Declared
<1> QED
  BY <1>6, OthersKept DEF Declared, SlotIsUnique

LEMMA DeclaredUnmoved ==
    ASSUME Declared, Settled, UNCHANGED <<stack, slot>>
    PROVE  Declared'
BY OthersKept DEF Declared, Settled, Frames, SlotIsUnique, Top

-----------------------------------------------------------------------------
(* The steps of Realisation. *)

\* A sequence with one more at its end.
LEMMA Appended ==
    ASSUME NEW S, NEW s, NEW e, NEW t, s \in Seq(S), e \in S, t = Append(s, e)
    PROVE  /\ t \in Seq(S) /\ Len(t) = Len(s) + 1 /\ DOMAIN t = 1 .. (Len(s) + 1)
           /\ t[Len(s) + 1] = e /\ \A i \in 1 .. Len(s) : t[i] = s[i]
BY AppendProperties, LenProperties

LEMMA BuildingDeclared ==
    ASSUME Registry, Declared, Build \/ InitializerEnds \/ InitializerFails \/ Built,
           UNCHANGED payloadVars
    PROVE  Declared'
<1>1. UNCHANGED <<states, loaded, realised, slot, value>>
  BY DEF Build, InitializerEnds, InitializerFails, Built, payloadVars
<1>2. Instances' /\ RealisedClasses' /\ ValuesBounded'
  BY <1>1 DEF Declared, Instances, RealisedClasses, ValuesBounded
<1>3. \A i \in DOMAIN stack : DeclaredFrame(states', loaded', stack[i])
  <2>1. \A i \in DOMAIN stack : DeclaredFrame(states, loaded, stack[i])
    BY DEF Declared, Frames
  <2> QED
    BY <1>1, <2>1
<1>4. Initialised'
  <2>1. CASE InitializerEnds
    <3> DEFINE S == {Initializers[i] : i \in DOMAIN Initializers}
               k == Len(ran) + 1
               n == Len(Initializers)
    <3>1. /\ k \in Nat /\ k <= n /\ ran \in Seq(S) /\ life' = life
          /\ ran' = Append(ran, Initializers[k])
          /\ life = "built" => Len(ran) = n
          /\ Len(ran) < n
          /\ life \in {"new", "building", "built", "failed"}
      <4>1. Len(ran) < n /\ ran' = Append(ran, Initializers[k]) /\ life' = life
        BY <2>1 DEF InitializerEnds
      <4>2. /\ ran \in Seq(S) /\ Len(ran) \in Nat /\ (life = "built" => Len(ran) = n)
            /\ life \in {"new", "building", "built", "failed"}
        BY DEF Declared, Initialised
      <4>3. n \in Nat
        BY InitializersAre
      <4> HIDE DEF S, n
      <4> QED
        BY <4>1, <4>2, <4>3
    <3>2. k \in DOMAIN Initializers /\ Initializers[k] \in S
      <4>1. k \in 1 .. n
        <5>1. n \in Nat /\ Len(ran) \in Nat
          BY InitializersAre DEF Declared, Initialised
        <5> HIDE DEF n
        <5> QED
          BY <3>1, <5>1
      <4>2. k \in DOMAIN Initializers
        BY <4>1, InitializersAre, Zenon
      <4> HIDE DEF k
      <4> QED
        BY <4>2
    <3>3. /\ ran' \in Seq(S) /\ Len(ran') = k /\ DOMAIN ran' = 1 .. k /\ ran'[k] = Initializers[k]
          /\ \A i \in 1 .. k - 1 : ran'[i] = ran[i]
      <4>1. Len(ran) = k - 1 /\ Len(ran) + 1 = k
        BY <3>1
      <4> HIDE DEF S, k
      <4>2. /\ ran' \in Seq(S) /\ Len(ran') = Len(ran) + 1 /\ DOMAIN ran' = 1 .. (Len(ran) + 1)
            /\ ran'[Len(ran) + 1] = Initializers[k] /\ \A i \in 1 .. Len(ran) : ran'[i] = ran[i]
        <5>1. ran \in Seq(S) /\ Initializers[k] \in S /\ ran' = Append(ran, Initializers[k])
          BY <3>1, <3>2
        <5> DEFINE e == Initializers[k]
                   t == ran'
        <5>2. ran \in Seq(S) /\ e \in S /\ t = Append(ran, e)
          BY <5>1
        <5> HIDE DEF e, t
        <5>3. /\ t \in Seq(S) /\ Len(t) = Len(ran) + 1 /\ DOMAIN t = 1 .. (Len(ran) + 1)
              /\ t[Len(ran) + 1] = e /\ \A i \in 1 .. Len(ran) : t[i] = ran[i]
          BY <5>2, Appended
        <5> QED
          BY <5>3 DEF e, t
      <4> QED
        BY <4>1, <4>2, Zenon
    <3>4. \A i \in 1 .. k - 1 : ran[i] = Initializers[i]
      BY <3>1 DEF Declared, Initialised
    <3>5. \A i \in 1 .. k : ran'[i] = Initializers[i]
      <4>1. k \in Nat
        BY <3>1
      <4> HIDE DEF k
      <4>2. \A i \in 1 .. k : i = k \/ i \in 1 .. k - 1
        BY <4>1
      <4> QED
        BY <3>3, <3>4, <4>2, Zenon
    <3>6. life' # "built"
      <4> HIDE DEF k
      <4> QED
        BY <3>1, InitializersAre
    <3> HIDE DEF k
    <3> QED
      BY <3>1, <3>3, <3>5, <3>6 DEF Initialised
  <2>2. CASE ~InitializerEnds
    BY <2>2, InitializersAre DEF Declared, Initialised, Build, InitializerFails, Built, AllHaveRun
  <2> QED
    BY <2>1, <2>2
<1>5. slot = {} \/ stack' = stack
  BY DEF Build, InitializerEnds, InitializerFails, Built, Registry, Handover, TopIs
<1>6. SlotIsUnique'
  BY <1>1, <1>5 DEF Declared, SlotIsUnique, Top
<1>7. Frames'
  <2>1. CASE Build
    <3> DEFINE f == Frame("build", "guest")
    <3>1. stack = <<>> /\ stack' = Append(SubSeq(stack, 1, 0), f)
      BY <2>1 DEF Build, Push, Registry, Handover
    <3>2. f.kind = "build"
      BY DEF Frame
    <3> HIDE DEF f
    <3>3. DeclaredFrame(states', loaded', f) /\ Placed(0 + 1, f)
      BY <3>2, BoundsAssumption DEF DeclaredFrame, Placed
    <3>4. 0 \in 0 .. Len(stack)
      BY StackIs DEF Registry
    <3> QED
      BY <3>1, <3>2, <3>3, <3>4, FramesLaid DEF Registry, Declared
  <2>2. CASE InitializerEnds
    BY <1>1, <2>2 DEF InitializerEnds, Declared, Frames
  <2>3. CASE InitializerFails \/ Built
    BY <1>3, <2>3, FramesPopped DEF InitializerFails, Built, Declared
  <2> QED
    BY <2>1, <2>2, <2>3
<1> QED
  BY <1>2, <1>4, <1>6, <1>7 DEF Declared

LEMMA ImportDeclared ==
    ASSUME Registry, Declared, NEW m \in Modules, Import(m), UNCHANGED payloadVars
    PROVE  Declared'
<1> DEFINE f == Frame("module", m)
<1>1. /\ stack' = Push(f) /\ HostRuns /\ Settled /\ slot' = slot
      /\ Len(stack) < MaxFrames
  BY DEF Import, hostVars, payloadVars, Settled
<1>2. f.kind = "module" /\ f.state = Empty /\ f.made = <<>> /\ f.of = m /\ f.at = 0
  BY DEF Frame
<1> HIDE DEF f
<1>3. DeclaredFrame(states, loaded, f)
  BY <1>2, MembersAre DEF DeclaredFrame
<1>4. Len(stack) \in Nat
  BY StackIs DEF Registry
<1> QED
  BY <1>1, <1>2, <1>3, <1>4, HostIsFree, BoundsAssumption, DeclaredPushed

LEMMA ClassOfDeclared ==
    ASSUME Registry, Declared, NEW c \in Classes, ClassOf(c), UNCHANGED payloadVars
    PROVE  Declared'
<1> DEFINE f == Frame("class", c)
<1>1. /\ stack' = Push(f) /\ HostRuns /\ Settled /\ slot' = slot
      /\ Len(stack) < MaxFrames /\ ClassNeeds[c] \subseteq Provides(Empty)
  BY DEF ClassOf, hostVars, payloadVars, Settled, Meets
<1>2. f.kind = "class" /\ f.state = Empty /\ f.of = c
  BY DEF Frame
<1> HIDE DEF f
<1>3. DeclaredFrame(states, loaded, f)
  BY <1>1, <1>2 DEF DeclaredFrame
<1>4. Len(stack) \in Nat
  BY StackIs DEF Registry
<1> QED
  BY <1>1, <1>2, <1>3, <1>4, HostIsFree, BoundsAssumption, DeclaredPushed

\* The factory's state is new, and the module at the top has it for itself.
LEMMA FactoryEndsDeclared ==
    ASSUME Registry, Declared, FactoryEnds, UNCHANGED payloadVars
    PROVE  Declared'
<1> DEFINE f     == Top
           state == IF Makes[f.of] = NoState THEN Empty ELSE [type |-> Makes[f.of], id |-> states + 1]
           next  == [kind |-> "module", of |-> f.of, at |-> 1, state |-> state, made |-> f.made]
           n     == Len(stack) - 1
<1>1. /\ TopIs("module") /\ f.at = 0 /\ states < MaxStates
      /\ UNCHANGED <<loaded, realised, life, ran, value, slot>>
  BY DEF FactoryEnds, payloadVars
<1>2. stack # <<>> /\ f.kind = "module" /\ SoundFrame(realised, again, f) /\ Realises(f) /\ Len(f.made) = 0 /\ f.of \in Modules
  BY <1>1, TopOf DEF SoundFrame, Realises
<1>3. slot = {}
  BY <1>1, <1>2, TurnIs, SlotIsEmpty
<1>4. states \in Nat /\ states + 1 <= MaxStates
  BY <1>1, BoundsAssumption DEF Declared, Instances
<1>5. /\ states' = (IF state = Empty THEN states ELSE states + 1)
      /\ stack' = IF Meets(ModuleNeeds[f.of], state) THEN Replace([f EXCEPT !.at = 1, !.state = state])
                  ELSE Unwound
  BY DEF FactoryEnds
<1>6. states' \in 0 .. MaxStates /\ states <= states'
  <2> HIDE DEF state
  <2> QED
    BY <1>4, <1>5, BoundsAssumption DEF Declared, Instances
<1>7. state # Empty => state.id = states + 1 /\ states' = states + 1
  BY <1>5 DEF Empty
<1>8. \A i \in 1 .. states : i \in 1 .. states' /\ i # states + 1
  BY <1>4, <1>6, BoundsAssumption
<1> HIDE DEF state
<1>9. \A g : DeclaredFrame(states, loaded, g) => DeclaredFrame(states', loaded', g)
  BY <1>1, <1>8 DEF DeclaredFrame
<1>10. \A i \in DOMAIN stack : DeclaredFrame(states', loaded', stack[i])
  BY <1>9 DEF Declared, Frames
<1>11. Instances'
  BY <1>1, <1>6, <1>8 DEF Declared, Instances, DeclaredInstance
<1>12. RealisedClasses' /\ Initialised' /\ ValuesBounded' /\ SlotIsUnique'
  BY <1>1, <1>3 DEF Declared, RealisedClasses, Initialised, ValuesBounded, SlotIsUnique
<1>13. CASE stack' = Unwound
  <2>1. Frames'
    BY <1>10, <1>13, FramesPopped DEF Declared
  <2> QED
    BY <1>11, <1>12, <2>1 DEF Declared
<1>14. CASE Meets(ModuleNeeds[f.of], state)
  <2>1. /\ Len(stack) \in Nat /\ DOMAIN stack = 1 .. Len(stack) /\ Len(stack) \in DOMAIN stack
        /\ Top = stack[Len(stack)]
    BY <1>2, StackIs DEF Registry
  <2>2. n \in 0 .. Len(stack) /\ n + 1 = Len(stack) /\ \A i \in 1 .. n : i \in DOMAIN stack
    BY <2>1
  <2>3. stack' = Append(SubSeq(stack, 1, n), next)
    <3>1. stack' = Replace([f EXCEPT !.at = 1, !.state = state])
      BY <1>5, <1>14
    <3> HIDE DEF f
    <3>2. [f EXCEPT !.at = 1, !.state = state] = next
      BY <1>2, ModuleHasState
    <3> QED
      BY <3>1, <3>2 DEF Replace, Front
  <2>4. /\ next.kind = "module" /\ next.of = f.of /\ next.at = 1 /\ next.state = state
        /\ next.made = f.made
    OBVIOUS
  <2>5. DeclaredFrame(states, loaded, f) /\ Placed(n + 1, f)
    BY <2>1, <2>2 DEF Declared, Frames
  <2>6. state # Empty => state.id \in 1 .. states' /\ \A m \in Modules : \A instance \in loaded[m] : instance.state # state
    <3> SUFFICES ASSUME state # Empty
                 PROVE  state.id \in 1 .. states' /\ \A m \in Modules : \A instance \in loaded[m] : instance.state # state
      OBVIOUS
    <3>1. state.id = states + 1 /\ states' = states + 1 /\ states + 1 \in 1 .. states'
      BY <1>4, <1>7
    <3> QED
      BY <1>8, <3>1 DEF Declared, Instances, DeclaredInstance
  <2>7. \A i \in 1 .. n : stack[i].kind = "module" /\ state # Empty => stack[i].state # state
    BY <1>7, <1>8, <2>2 DEF Declared, Frames, DeclaredFrame
  <2> HIDE DEF next, f, n
  <2>8. DeclaredFrame(states', loaded', next)
    BY <1>1, <1>2, <1>14, <2>4, <2>5, <2>6 DEF DeclaredFrame, Meets
  <2>9. Placed(n + 1, next)
    BY <1>2, <2>4, <2>5 DEF Placed
  <2>10. Frames'
    BY <1>10, <2>2, <2>3, <2>4, <2>7, <2>8, <2>9, FramesLaid DEF Registry, Declared
  <2> QED
    BY <1>11, <1>12, <2>10 DEF Declared
<1> QED
  BY <1>5, <1>13, <1>14

\* A member that a module makes takes its place among what it has made.
LEMMA MemberDeclared ==
    ASSUME NEW f, Realises(f), f.kind = "module", f.at # 0, f.at \in DOMAIN Members[f.of],
           Len(f.made) = f.at - 1, DeclaredFrame(states, loaded, f), NEW thing, NEW next,
           next = [kind |-> "module", of |-> f.of, at |-> f.at + 1, state |-> f.state,
                   made |-> Append(f.made, [name |-> Members[f.of][f.at].name, thing |-> thing])]
    PROVE  DeclaredFrame(states, loaded, next)
<1> DEFINE made == f.made
           item == [name |-> Members[f.of][f.at].name, thing |-> thing]
           more == Append(made, item)
           S == {made[i] : i \in DOMAIN made} \cup {item}
<1>1. f.of \in Modules /\ f.at \in Nat /\ Sequence(made) /\ Len(made) = f.at - 1
  BY DEF Realises
<1>2. made \in Seq(S)
  BY <1>1 DEF Sequence
<1>3. /\ Len(more) = f.at /\ DOMAIN more = 1 .. f.at /\ more[f.at] = item
      /\ \A i \in 1 .. f.at : i # f.at => i \in DOMAIN made /\ more[i] = made[i]
  BY <1>1, <1>2
<1>4. item.name = Members[f.of][f.at].name
  OBVIOUS
<1>5. /\ next.kind = "module" /\ next.of = f.of /\ next.at = f.at + 1 /\ next.state = f.state
      /\ next.made = more
  OBVIOUS
<1> HIDE DEF S, more, item
<1>6. Len(more) <= Len(Members[f.of])
  BY <1>1, <1>3, MembersAre
<1>7. \A k \in DOMAIN more : more[k].name = Members[f.of][k].name
  <2> SUFFICES ASSUME NEW k \in 1 .. f.at
               PROVE  more[k].name = Members[f.of][k].name
    BY <1>3
  <2>1. CASE k = f.at
    BY <1>3, <1>4, <2>1
  <2>2. CASE k # f.at
    BY <1>3, <2>2 DEF DeclaredFrame
  <2> QED
    BY <2>1, <2>2
<1> QED
  BY <1>5, <1>6, <1>7 DEF DeclaredFrame

LEMMA MakesDeclared ==
    ASSUME Registry, Declared, TopIs("module"), Turn(Top) # "end", Top.at # 0, NEW thing,
           stack' = Made(thing), Settled, slot' = slot
    PROVE  Declared'
<1> DEFINE f == Top
           more == Append(f.made, [name |-> Members[f.of][f.at].name, thing |-> thing])
           next == [kind |-> "module", of |-> f.of, at |-> f.at + 1, state |-> f.state, made |-> more]
<1>1. /\ slot = {} /\ stack # <<>> /\ f.kind = "module" /\ SoundFrame(realised, again, f) /\ Realises(f)
      /\ f.at \in DOMAIN Members[f.of]
  BY ModuleTurns
<1>2. Len(f.made) = f.at - 1
  BY <1>1 DEF SoundFrame
<1>3. DeclaredFrame(states, loaded, f)
  BY <1>1, StackIs DEF Registry, Declared, Frames
<1>4. stack' = Replace([f EXCEPT !.at = f.at + 1, !.made = more])
  BY DEF Made
<1>5. stack' = Replace(next)
  <2>1. Realises(f) /\ f.kind = "module"
    BY <1>1
  <2> HIDE DEF f, more
  <2>2. [f EXCEPT !.at = f.at + 1, !.made = more] = next
    BY <2>1, ModuleMakes
  <2> QED
    BY <1>4, <2>2, Zenon
<1>6. DeclaredFrame(states, loaded, next)
  <2> HIDE DEF f
  <2> QED
    BY <1>1, <1>2, <1>3, MemberDeclared DEF f
<1>7. next.kind = "module" /\ next.state = Top.state
  OBVIOUS
<1> HIDE DEF next
<1> QED
  BY <1>1, <1>5, <1>6, <1>7, DeclaredReplaced

LEMMA MemberMadeDeclared ==
    ASSUME Registry, Declared, MemberMade, UNCHANGED payloadVars
    PROVE  Declared'
<1>1. /\ TopIs("module") /\ Top.at # 0 /\ Turn(Top) \in {"plain", "host"} /\ stack' = Made(0)
      /\ Settled /\ slot' = slot
  <2>1. TopIs("module") /\ Top.at > 0
    BY DEF MemberMade
  <2>2. Top.at \in Nat
    BY <2>1, TopOf DEF SoundFrame, Realises
  <2> QED
    BY <2>1, <2>2 DEF MemberMade, hostVars, payloadVars, Settled
<1>2. Turn(Top) # "end"
  BY <1>1
<1> QED
  BY <1>1, <1>2, MakesDeclared

LEMMA AsksForClassDeclared ==
    ASSUME Registry, Declared, AsksForClass, UNCHANGED payloadVars
    PROVE  Declared'
<1> DEFINE c == Turn(Top)
<1>1. TopIs("module") /\ c \in Classes /\ c # "end" /\ Settled /\ slot' = slot
  BY MembersAssumption DEF AsksForClass, hostVars, payloadVars, Settled
<1>2. slot = {} /\ stack # <<>> /\ Top.kind = "module" /\ Realises(Top)
  BY <1>1, ModuleTurns
<1>3. Top.at # 0
  BY <1>1, <1>2, TurnIs, MembersAssumption DEF Realises
<1>4. \/ stack' = Unwound
      \/ \E id \in ClassAtHand(c) : stack' = Made(id)
      \/ /\ Meets(ClassNeeds[c], Top.state)
         /\ stack' = Push([Frame("class", c) EXCEPT !.state = Top.state])
  BY DEF AsksForClass
<1>5. ASSUME NEW id \in ClassAtHand(c), stack' = Made(id)
      PROVE  Declared'
  BY <1>1, <1>3, <1>5, MakesDeclared
<1>6. ASSUME Meets(ClassNeeds[c], Top.state), stack' = Push([Frame("class", c) EXCEPT !.state = Top.state])
      PROVE  Declared'
  <2> DEFINE state == Top.state
             f == [kind |-> "class", of |-> c, at |-> 0, state |-> state, made |-> <<>>]
  <2>1. stack' = Push(f)
    <3> HIDE DEF c, state
    <3>1. [Frame("class", c) EXCEPT !.state = state] = f
      BY DEF Frame
    <3> QED
      BY <1>6, <3>1 DEF state
  <2>2. Len(stack) \in DOMAIN stack /\ Top = stack[Len(stack)]
    BY <1>2, StackIs DEF Registry
  <2>3. Len(stack) <= MaxFrames
    BY <1>2, <2>2 DEF Declared, Frames, Placed
  <2>4. DeclaredFrame(states, loaded, f) /\ f.kind = "class"
    BY <1>6 DEF DeclaredFrame, Meets
  <2> HIDE DEF f
  <2> QED
    BY <1>1, <1>2, <2>1, <2>3, <2>4, DeclaredPushed
<1> QED
  BY <1>1, <1>2, <1>4, <1>5, <1>6, DeclaredPopped

LEMMA PropertyMadeDeclared ==
    ASSUME Registry, Declared, PropertyMade, UNCHANGED payloadVars
    PROVE  Declared'
<1> DEFINE f == Top
           next == [kind |-> "class", of |-> f.of, at |-> f.at + 1, state |-> f.state, made |-> f.made]
<1>1. TopIs("class") /\ Settled /\ slot' = slot /\ stack' = Replace([f EXCEPT !.at = f.at + 1])
  BY DEF PropertyMade, hostVars, payloadVars, Settled
<1>2. stack # <<>> /\ f.kind = "class" /\ Realises(f)
  BY <1>1, TopOf DEF SoundFrame
<1>3. slot = {}
  BY <1>2, SlotIsEmpty
<1>4. stack' = Replace(next)
  BY <1>1, <1>2, ClassChanged
<1>5. DeclaredFrame(states, loaded, f)
  BY <1>2, StackIs DEF Registry, Declared, Frames
<1> HIDE DEF f
<1>6. DeclaredFrame(states, loaded, next) /\ next.kind = "class"
  BY <1>2, <1>5 DEF DeclaredFrame
<1> HIDE DEF next
<1> QED
  BY <1>1, <1>2, <1>3, <1>4, <1>6, DeclaredReplaced

\* The class that is remembered has the state of its frame, which meets its needs.
LEMMA ClassEndsDeclared ==
    ASSUME Registry, Declared, ClassEnds, UNCHANGED payloadVars
    PROVE  Declared'
<1> DEFINE c == Top.of
           state == Top.state
           n == Len(stack) - 1
<1>1. /\ TopIs("class") /\ realised' = [realised EXCEPT ![c] = {[id |-> classes[Top.of] + 1, state |-> state]}]
      /\ UNCHANGED <<states, loaded, life, ran, value, slot>>
  BY DEF ClassEnds, payloadVars
<1>2. stack # <<>> /\ Top.kind = "class" /\ c \in Classes /\ slot = {}
  BY <1>1, TopOf, ClassEndsRegisters
<1>3. /\ Len(stack) \in Nat /\ DOMAIN stack = 1 .. Len(stack) /\ Len(stack) \in DOMAIN stack
      /\ Top = stack[Len(stack)]
  BY <1>2, StackIs DEF Registry
<1>4. ClassNeeds[c] \subseteq Provides(state)
  BY <1>2, <1>3 DEF Declared, Frames, DeclaredFrame
<1>5. RealisedClasses'
  <2> DEFINE entry == [id |-> classes[Top.of] + 1, state |-> state]
  <2>1. entry.state = state
    OBVIOUS
  <2> HIDE DEF entry, c, state
  <2>2. \A d \in Classes : realised'[d] = IF d = c THEN {entry} ELSE realised[d]
    BY <1>1, <1>2 DEF entry, c, state, Registry, OneEach
  <2>3. Cardinality({entry}) <= 1
    <3>1. Cardinality({entry}) = 1
      BY FS_Singleton
    <3> QED
      BY <3>1
  <2>4. ASSUME NEW d \in Classes
        PROVE  Cardinality(realised'[d]) <= 1 /\ \A r \in realised'[d] : ClassNeeds[d] \subseteq Provides(r.state)
    <3>1. CASE d = c
      <4>1. realised'[d] = {entry}
        BY <2>2, <3>1
      <4> QED
        BY <1>4, <2>1, <2>3, <3>1, <4>1
    <3>2. CASE d # c
      <4>1. realised'[d] = realised[d]
        BY <2>2, <3>2
      <4> QED
        BY <4>1 DEF Declared, RealisedClasses
    <3> QED
      BY <3>1, <3>2
  <2> QED
    BY <2>4 DEF RealisedClasses
<1>6. Instances' /\ Initialised' /\ ValuesBounded' /\ SlotIsUnique'
  BY <1>1, <1>2 DEF Declared, Instances, Initialised, ValuesBounded, SlotIsUnique
<1>7. \A i \in DOMAIN stack : DeclaredFrame(states', loaded', stack[i])
  <2>1. \A i \in DOMAIN stack : DeclaredFrame(states, loaded, stack[i])
    BY DEF Declared, Frames
  <2> QED
    BY <1>1, <2>1
<1>8. CASE ~WaitsForClass(n)
  <2>1. stack' = Front(stack)
    BY <1>8 DEF ClassEnds
  <2>2. Frames'
    BY <1>7, <2>1, FramesPopped DEF Declared
  <2> QED
    BY <1>5, <1>6, <2>2 DEF Declared
<1>9. CASE WaitsForClass(n)
  <2> DEFINE f == stack[n]
             more == Append(f.made, [name |-> Members[f.of][f.at].name, thing |-> classes[Top.of] + 1])
             next == [kind |-> "module", of |-> f.of, at |-> f.at + 1, state |-> f.state, made |-> more]
  <2>1. n > 0 /\ f.kind = "module" /\ Turn(f) \in Classes
    BY <1>9 DEF WaitsForClass
  <2>2. /\ n \in DOMAIN stack /\ n - 1 \in 0 .. Len(stack) /\ (n - 1) + 1 = n
        /\ \A i \in 1 .. n - 1 : i \in DOMAIN stack /\ i # n
    <3> DEFINE h == Len(stack)
    <3>1. h \in Nat /\ n = h - 1 /\ DOMAIN stack = 1 .. h
      BY <1>3
    <3> HIDE DEF n, h
    <3>2. n \in 1 .. h /\ n - 1 \in 0 .. h /\ (n - 1) + 1 = n /\ \A i \in 1 .. n - 1 : i \in 1 .. h /\ i # n
      BY <2>1, <3>1
    <3> QED
      BY <3>1, <3>2 DEF h
  <2>3. SoundFrame(realised, again, f) /\ Realises(f) /\ DeclaredFrame(states, loaded, f) /\ Placed(n, f)
    BY <2>1, <2>2 DEF Registry, Sound, SoundFrame, Declared, Frames
  <2>4. f.at # 0 /\ Turn(f) # "end"
    BY <2>1, <2>3, TurnIs, MembersAssumption DEF Realises
  <2>5. f.at \in DOMAIN Members[f.of] /\ Len(f.made) = f.at - 1
    BY <2>1, <2>3, <2>4, TurnsTo DEF SoundFrame
  <2>6. stack' = Append(SubSeq(stack, 1, n - 1), [f EXCEPT !.at = f.at + 1, !.made = more])
    <3>1. Len(stack) - 2 = n - 1
      BY <1>3
    <3> QED
      BY <1>9, <3>1 DEF ClassEnds
  <2>7. stack' = Append(SubSeq(stack, 1, n - 1), next)
    <3> HIDE DEF f, more
    <3>1. [f EXCEPT !.at = f.at + 1, !.made = more] = next
      BY <2>1, <2>3, ModuleMakes
    <3> HIDE DEF next, n
    <3> QED
      BY <2>6, <3>1, Zenon
  <2>8. DeclaredFrame(states, loaded, next)
    <3> HIDE DEF f, n
    <3> QED
      BY <2>1, <2>3, <2>4, <2>5, MemberDeclared
  <2>9. next.kind = "module" /\ next.state = f.state
    OBVIOUS
  <2>10. \A i \in 1 .. n - 1 : stack[i].kind = "module" /\ f.state # Empty => stack[i].state # f.state
    BY <2>1, <2>2 DEF Declared, Frames
  <2> HIDE DEF next, f, n
  <2>11. DeclaredFrame(states', loaded', next)
    BY <1>1, <2>8
  <2>12. Placed((n - 1) + 1, next)
    BY <2>1, <2>2, <2>3, <2>9 DEF Placed
  <2>13. Frames'
    BY <1>7, <2>2, <2>7, <2>9, <2>10, <2>11, <2>12, FramesLaid DEF Registry, Declared
  <2> QED
    BY <1>5, <1>6, <2>13 DEF Declared
<1> QED
  BY <1>8, <1>9

LEMMA StoreExportsDeclared ==
    ASSUME Registry, Declared, StoreExports, UNCHANGED payloadVars
    PROVE  Declared'
<1>1. Settled
  BY DEF StoreExports, payloadVars, Settled
<1>2. CASE Unique(Top.made) /\ slot' = {Top.made} /\ stack' = stack
  <2>1. Frames'
    BY <1>1, <1>2 DEF Declared, Frames, Settled
  <2>2. SlotIsUnique'
    BY <1>2 DEF SlotIsUnique, Top
  <2> QED
    BY <1>1, <2>1, <2>2, OthersKept DEF Declared
<1>3. CASE stack' = Unwound /\ slot' = slot
  <2>1. slot = {}
    BY DEF Registry, Handover, StoreExports
  <2> QED
    BY <1>1, <1>3, <2>1, DeclaredPopped
<1> QED
  BY <1>2, <1>3 DEF StoreExports

\* The module that is loaded takes with it the state nobody else had.
LEMMA TakeExportsDeclared ==
    ASSUME Registry, Declared, TakeExports, UNCHANGED payloadVars
    PROVE  Declared'
<1> DEFINE f == Top
           m == f.of
           made == f.made
           state == f.state
           instance == [exports |-> made, state |-> state]
           n == Len(stack) - 1
<1>1. /\ TopIs("module") /\ slot # {} /\ slot = {made} /\ slot' = {} /\ Turn(f) = "end" /\ Unique(made)
      /\ UNCHANGED <<states, life, ran, realised, value>> /\ stack' = SubSeq(stack, 1, n)
  BY DEF Registry, Handover, TakeExports, Front, Declared, SlotIsUnique, payloadVars
<1>2. /\ stack # <<>> /\ f.kind = "module" /\ Realises(f) /\ m \in Modules /\ Sequence(made)
      /\ f.at \in Nat /\ Len(made) = (IF f.at = 0 THEN 0 ELSE f.at - 1)
  BY <1>1, TopOf DEF SoundFrame, Realises
<1>3. /\ Len(stack) \in Nat /\ DOMAIN stack = 1 .. Len(stack) /\ Len(stack) \in DOMAIN stack
      /\ f = stack[Len(stack)]
  BY <1>2, StackIs DEF Registry
<1>4. n \in Int /\ n <= Len(stack) /\ \A i \in 1 .. n : i # Len(stack)
  <2>1. Len(stack) \in 1 .. Len(stack)
    BY <1>3
  <2> QED
    BY <1>3, <2>1, Below, Zenon
<1>5. DeclaredFrame(states, loaded, f)
  BY <1>3 DEF Declared, Frames
<1>6. f.at # 0 /\ f.at \notin DOMAIN Members[m]
  <2>1. f.at # 0
    BY <1>1, <1>2, TurnIs
  <2>2. f.at \in DOMAIN Members[m] => Turn(f) \in {"plain", "host"} \cup Classes
    BY <1>2, <2>1, TurnIs, MembersAssumption
  <2> QED
    BY <1>1, <2>1, <2>2, MembersAssumption
<1>7. Len(made) = Len(Members[m]) /\ DOMAIN made = DOMAIN Members[m]
  <2> HIDE DEF f, m, made
  <2>1. Len(made) \in Nat /\ DOMAIN made = 1 .. Len(made) /\ Len(made) = f.at - 1
    BY <1>2, <1>6 DEF Sequence
  <2>2. Len(Members[m]) \in Nat /\ DOMAIN Members[m] = 1 .. Len(Members[m])
    BY <1>2, MembersAre
  <2>3. Len(made) <= Len(Members[m])
    BY <1>2, <1>5 DEF DeclaredFrame, made, m
  <2>4. f.at > Len(Members[m])
    BY <1>2, <1>6, <2>2
  <2> QED
    BY <1>2, <2>1, <2>2, <2>3, <2>4
<1>8. instance.exports = made /\ instance.state = state
  OBVIOUS
<1>9. DeclaredInstance(states, m, instance)
  <2> HIDE DEF instance
  <2> QED
    BY <1>1, <1>2, <1>5, <1>6, <1>7, <1>8 DEF DeclaredFrame, DeclaredInstance
<1>10. loaded' = [loaded EXCEPT ![m] = @ \cup {instance}]
  BY <1>1 DEF TakeExports
<1> HIDE DEF instance
<1>11. \A x \in Modules : loaded'[x] = IF x = m THEN loaded[m] \cup {instance} ELSE loaded[x]
  BY <1>2, <1>10 DEF Registry, HandedOut
<1>12. state # Empty => \A x \in Modules : \A other \in loaded[x] : other.state # state
  BY <1>2, <1>5 DEF DeclaredFrame
<1>13. Instances'
  <2> HIDE DEF f, m, made, state
  <2>1. ASSUME NEW x \in Modules, NEW other \in loaded'[x]
        PROVE  DeclaredInstance(states', x, other)
    BY <1>1, <1>9, <1>11 DEF Declared, Instances
  <2>2. ASSUME NEW x \in Modules, NEW y \in Modules, NEW other \in loaded'[x], NEW another \in loaded'[y],
               other.state = another.state, other.state # Empty
        PROVE  x = y
    <3>1. /\ other \in loaded[x] \/ (x = m /\ other.state = state)
          /\ another \in loaded[y] \/ (y = m /\ another.state = state)
      BY <1>8, <1>11
    <3>2. CASE other \in loaded[x] /\ another \in loaded[y]
      BY <2>2, <3>2 DEF Declared, Instances
    <3>3. CASE x = m /\ other.state = state /\ another \in loaded[y]
      BY <1>12, <2>2, <3>3
    <3>4. CASE y = m /\ another.state = state /\ other \in loaded[x]
      BY <1>12, <2>2, <3>4
    <3> QED
      BY <3>1, <3>2, <3>3, <3>4
  <2> QED
    BY <1>1, <2>1, <2>2 DEF Declared, Instances
<1>14. ASSUME NEW i \in 1 .. n, i \in DOMAIN stack
       PROVE  DeclaredFrame(states', loaded', stack[i])
  <2> DEFINE g == stack[i]
  <2>1. DeclaredFrame(states, loaded, g)
    BY <1>14 DEF Declared, Frames
  <2>2. g.kind = "module" /\ g.state # Empty => g.state # state
    BY <1>2, <1>3, <1>4, <1>14 DEF Declared, Frames
  <2> HIDE DEF g, f, m, state, made
  <2>3. g.kind = "module" /\ g.state # Empty =>
            \A x \in Modules : \A other \in loaded'[x] : other.state # g.state
    BY <1>8, <1>11, <2>1, <2>2 DEF DeclaredFrame
  <2>4. DeclaredFrame(states', loaded', g)
    BY <1>1, <2>1, <2>3 DEF DeclaredFrame
  <2> QED
    BY <2>4 DEF g
<1> HIDE DEF n, f, m, made, state
<1>15. Frames'
  BY <1>1, <1>4, <1>14, FramesPrefix DEF Registry, Declared
<1>16. RealisedClasses' /\ Initialised' /\ ValuesBounded' /\ SlotIsUnique'
  BY <1>1 DEF Declared, RealisedClasses, Initialised, ValuesBounded, SlotIsUnique
<1> QED
  BY <1>13, <1>15, <1>16 DEF Declared

LEMMA FailuresDeclared ==
    ASSUME Registry, Declared, EngineFails \/ RealisationFails, UNCHANGED payloadVars
    PROVE  Declared'
<1>1. slot' = {} /\ stack' = Unwound /\ Settled
  BY DEF EngineFails, SlotAfterFailure, RealisationFails, hostVars, payloadVars, Settled
<1> QED
  BY <1>1, DeclaredPopped

LEMMA GiveDeclared ==
    ASSUME Registry, Declared, NEW c \in Classes, Give(c), UNCHANGED payloadVars
    PROVE  Declared'
<1>1. Settled /\ UNCHANGED <<stack, slot>>
  BY DEF Give, payloadVars, Settled
<1> QED
  BY <1>1, DeclaredUnmoved

-----------------------------------------------------------------------------
(* Borrowers. *)

LEMMA BorrowerDeclared ==
    ASSUME NEW f, f.kind \in {"method", "next"}
    PROVE  DeclaredFrame(states, loaded, f) /\ f.kind # "module"
BY DEF DeclaredFrame

LEMMA PayloadsDeclared ==
    ASSUME References, Registry, Declared, PayloadsNext
    PROVE  Declared'
<1>1. ASSUME NEW cell \in Cells, (\E mode \in {"shared", "exclusive"} : Call(cell, mode)) \/ CallNext(cell)
      PROVE  Declared'
  <2>1. PICK f : f.kind \in {"method", "next"} /\ stack' = Push(f)
    BY <1>1 DEF Call, CallNext, Borrower
  <2>2. /\ HostRuns /\ Settled /\ slot' = slot /\ Len(stack) < MaxFrames
    BY <1>1 DEF Call, CallNext, hostVars, Settled
  <2>3. Len(stack) \in Nat
    BY StackIs DEF Registry
  <2> QED
    BY <2>1, <2>2, <2>3, HostIsFree, BorrowerDeclared, BoundsAssumption, DeclaredPushed
<1>2. ASSUME NEW cell \in Cells, CallReturn(cell)
      PROVE  Declared'
  <2>1. Settled /\ UNCHANGED <<stack, slot>>
    BY <1>2 DEF CallReturn, hostVars, Settled
  <2> QED
    BY <2>1, DeclaredUnmoved
<1>3. CASE Change \/ Leave \/ NextYields \/ NextEnds
  <2> DEFINE cell == Top.of
  <2>1. UNCHANGED <<states, loaded, realised, life, ran, slot>>
    BY <1>3 DEF Change, Leave, NextYields, NextEnds, hostVars
  <2>2. PICK kind \in {"method", "next"} : TopIs(kind)
    BY <1>3 DEF Change, Leave, NextYields, NextEnds
  <2>3. slot = {} /\ stack # <<>> /\ Top.kind \in {"method", "next"}
    BY <2>2, SlotIsEmpty DEF TopIs
  <2>4. cell \in Cells
    BY <2>2, TopBorrows DEF Remembers, BorrowerType
  <2>5. ValuesBounded'
    <3>1. \/ value' = value
          \/ value[cell] < MaxValue /\ value' = [value EXCEPT ![cell] = @ + 1]
      BY <1>3 DEF Change, Leave, NextYields, NextEnds
    <3> HIDE DEF cell
    <3>2. value \in [Cells -> Nat] /\ MaxValue \in Nat /\ \A c \in Cells : value[c] <= MaxValue
      BY MaxValueAssumption DEF References, PayloadTypes, Declared, ValuesBounded
    <3> QED
      BY <2>4, <3>1, <3>2 DEF ValuesBounded
  <2>6. Instances' /\ RealisedClasses' /\ Initialised' /\ SlotIsUnique'
    BY <2>1, <2>3 DEF Declared, Instances, RealisedClasses, Initialised, SlotIsUnique
  <2>7. \A i \in DOMAIN stack : DeclaredFrame(states', loaded', stack[i])
    <3>1. \A i \in DOMAIN stack : DeclaredFrame(states, loaded, stack[i])
      BY DEF Declared, Frames
    <3> QED
      BY <2>1, <3>1
  <2>8. Frames'
    <3>1. CASE Change
      <4> DEFINE f == Top
                 next == [f EXCEPT !.saw = value[f.of] + 1]
      <4>1. stack' = Replace(next) /\ f.kind \in {"method", "next"} /\ Framed(f)
        BY <2>3, <3>1, StackIs DEF Change, Registry, SoundFrame
      <4> HIDE DEF f
      <4>2. next.kind \in {"method", "next"}
        BY <4>1 DEF Framed
      <4> HIDE DEF next
      <4>3. DeclaredFrame(states', loaded', next) /\ next.kind # "module"
        BY <4>2 DEF DeclaredFrame
      <4> QED
        BY <2>3, <2>7, <4>1, <4>3, TopReplaced DEF Declared
    <3>2. CASE Leave \/ NextYields \/ NextEnds
      BY <2>7, <3>2, FramesPopped DEF Leave, NextYields, NextEnds, Declared
    <3> QED
      BY <1>3, <3>1, <3>2
  <2> QED
    BY <2>5, <2>6, <2>8 DEF Declared
<1> QED
  BY <1>1, <1>2, <1>3 DEF PayloadsNext

-----------------------------------------------------------------------------
LEMMA DeclaredInit ==
    ASSUME Init
    PROVE  Declared
<1>1. DOMAIN <<>> = 1 .. 0 /\ Len(<<>>) = 0 /\ 1 .. 0 = {}
  OBVIOUS
<1> USE DEF Init, RealisationInit
<1>2. Frames
  BY <1>1 DEF Frames
<1>3. Instances
  BY BoundsAssumption DEF Instances
<1>4. RealisedClasses
  BY FS_EmptySet DEF RealisedClasses
<1>5. SlotIsUnique
  BY DEF SlotIsUnique
<1>6. Initialised
  BY <1>1, InitializersAre DEF Initialised
<1>7. ValuesBounded
  BY MaxValueAssumption DEF PayloadsInit, ValuesBounded
<1> QED
  BY <1>2, <1>3, <1>4, <1>5, <1>6, <1>7 DEF Declared

LEMMA DeclaredStep ==
    ASSUME References, Registry, Declared, [Next]_vars
    PROVE  Declared'
<1>1. CASE RealisationNext /\ UNCHANGED payloadVars
  BY <1>1, BuildingDeclared, ImportDeclared, FactoryEndsDeclared, MemberMadeDeclared, AsksForClassDeclared,
     StoreExportsDeclared, TakeExportsDeclared, FailuresDeclared, ClassOfDeclared, GiveDeclared,
     PropertyMadeDeclared, ClassEndsDeclared DEF RealisationNext
<1>2. CASE PayloadsNext
  BY <1>2, PayloadsDeclared
<1>3. CASE UNCHANGED vars
  <2>1. Settled /\ UNCHANGED <<stack, slot>>
    BY <1>3 DEF vars, hostVars, payloadVars, Settled
  <2> QED
    BY <2>1, DeclaredUnmoved
<1> QED
  BY <1>1, <1>2, <1>3 DEF Next

\* What a module, a class and a guest are made of is what they were declared with: a
\* module exports its own members, each name once, and has a state to itself; a class has
\* the state its callbacks ask for; and a guest that is handed out has run its
\* initialisers in their order.  However realisations nest, fail and are tried again.
THEOREM AlwaysRealisedAsDeclared == Spec => []RealisedAsDeclared
<1> DEFINE Inv == References /\ Registry /\ Declared
<1>1. Init => Inv
  BY ReferencesInit, RegistryInit, DeclaredInit
<1>2. Inv /\ [Next]_vars => Inv'
  BY ReferencesStep, RegistryStep, DeclaredStep
<1>3. Inv => RealisedAsDeclared
  BY DeclaredImplies
<1> HIDE DEF Inv
<1> QED
  BY <1>1, <1>2, <1>3, PTL DEF Spec

=============================================================================
