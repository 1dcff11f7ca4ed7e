-------------------------- MODULE SharedStreamProofs --------------------------
(***************************************************************************)
(* Proofs about SharedStream: for any script of items and any number of    *)
(* calls, the calls are served in order and the stream is never polled by  *)
(* two of them at once.  The inductive invariant IInv says that the chain  *)
(* of channels links every call to the one before it, that only the first  *)
(* call that has not ended can be inside the stream, and that an open      *)
(* stream has served exactly the calls that ended.                         *)
(***************************************************************************)
EXTENDS SharedStream, FiniteSetTheorems, TLAPS

\* Every call waits for the call made before it.
TurnsChained ==
    /\ turn = made
    /\ \A c \in Made : previous[c] = c - 1

\* A call polls the stream or has ended only after all calls before it ended.
TurnsTaken ==
    /\ \A c \in Calls : phase[c] = "unmade" <=> c > made
    /\ \A c \in Made : phase[c] \in {"polling", "ended"} =>
           \A b \in 1..(c - 1) : phase[b] = "ended"

\* An open stream has yielded one item to each call that ended; the cell is not
\* emptied while a call is inside the stream.
OpenServed ==
    /\ inside # {} => open
    /\ open => taken <= made
    /\ open => \A c \in Made :
           /\ phase[c] = "ended" <=> c <= taken
           /\ phase[c] = "ended" => outcome[c] = <<"item", c>>
    /\ \A c \in Calls : phase[c] # "ended" => outcome[c] = Unserved

IInv == TypeOK /\ TurnsChained /\ TurnsTaken /\ OpenServed /\ ServedInOrder /\ ErrorIsLast

-----------------------------------------------------------------------------
(* Helpers. *)

LEMMA MadeAreCalls ==
    ASSUME TypeOK
    PROVE  Made \subseteq Calls /\ made \in Nat /\ Calls \subseteq Nat \ {0}
BY MaxCallsAssumption DEF TypeOK, Made, Calls

LEMMA ItemsType == Len(Items) \in Nat /\ DOMAIN Items = 1..Len(Items)
BY ItemsAssumption

\* A call that has its turn comes after calls that all ended.
LEMMA TurnComesLast ==
    ASSUME IInv, NEW c \in Made, HasTurn(c)
    PROVE  \A b \in 1..(c - 1) : phase[b] = "ended"
<1>1. CASE phase[c] = "polling"
  BY <1>1 DEF IInv, TurnsTaken
<1>2. CASE phase[c] = "waiting" /\ (previous[c] # NoCall => phase[previous[c]] = "ended")
  <2>1. c \in Nat /\ c >= 1 /\ previous[c] = c - 1
    BY MadeAreCalls DEF IInv, TurnsChained, Calls, Made
  <2>2. CASE c = 1
    BY <2>1, <2>2
  <2>3. CASE c # 1
    <3>1. c - 1 \in Made /\ phase[c - 1] = "ended"
      BY <1>2, <2>1, <2>3, MadeAreCalls DEF IInv, Made, NoCall
    <3>2. \A b \in 1..((c - 1) - 1) : phase[b] = "ended"
      BY <3>1 DEF IInv, TurnsTaken
    <3>3. \A b \in 1..(c - 1) : b = c - 1 \/ b \in 1..((c - 1) - 1)
      BY <2>1, <2>3
    <3> QED
      BY <3>1, <3>2, <3>3
  <2> QED
    BY <2>2, <2>3
<1> QED
  BY <1>1, <1>2 DEF HasTurn

\* Two calls cannot both be inside the stream.
LEMMA InsideIsOne ==
    ASSUME IInv, NEW c \in inside
    PROVE  inside = {c} /\ c \in Made
<1>1. \A d \in inside : d \in Made /\ phase[d] = "polling"
  BY MadeAreCalls DEF IInv, TypeOK, TurnsTaken, Made, Calls
<1>2. ASSUME NEW d \in inside, d # c
      PROVE  FALSE
  <2>1. c \in Nat /\ d \in Nat /\ c >= 1 /\ d >= 1
    BY <1>1, MadeAreCalls DEF IInv
  <2>2. c \in 1..(d - 1) \/ d \in 1..(c - 1)
    BY <1>2, <2>1
  <2> QED
    BY <1>1, <2>2 DEF IInv, TurnsTaken
<1> QED
  BY <1>1, <1>2

-----------------------------------------------------------------------------
(* Steps. *)

\* A step that changes no phase and no outcome, keeps the count of items, and opens
\* nothing.
LEMMA PhasesKept ==
    ASSUME IInv, TypeOK',
           UNCHANGED <<made, turn, previous, phase, outcome, taken>>,
           open' \in BOOLEAN, open' => open,
           inside' # {} => open'
    PROVE  IInv'
<1>1. TurnsChained' /\ TurnsTaken'
  BY DEF IInv, TurnsChained, TurnsTaken, Made
<1>2. OpenServed'
  BY DEF IInv, OpenServed, Made
<1>3. ServedInOrder'
  BY DEF IInv, ServedInOrder, Made
<1>4. ErrorIsLast'
  BY DEF IInv, ErrorIsLast, Made
<1> QED
  BY <1>1, <1>2, <1>3, <1>4 DEF IInv

LEMMA NextKeeps ==
    ASSUME IInv, NEW c \in Calls, Next(c)
    PROVE  IInv'
<1>1. c = made + 1 /\ made' = c /\ made \in Nat /\ c \in Nat
  BY MadeAreCalls DEF Next, IInv
<1>2. TypeOK'
  <2>1. made' \in 0..MaxCalls /\ turn' \in 0..MaxCalls
    BY <1>1, MaxCallsAssumption DEF Next, TurnAfter, Calls
  <2>2. c \notin inside
    BY <1>1 DEF IInv, TypeOK, TurnsTaken
  <2> QED
    BY <2>1, <2>2 DEF Next, IInv, TypeOK
<1>3. phase[c] = "unmade" /\ outcome[c] = Unserved
  BY <1>1 DEF IInv, TurnsTaken, OpenServed
<1>4. \A b \in Calls : phase'[b] = IF b = c THEN "waiting" ELSE phase[b]
  BY DEF Next, IInv, TypeOK
<1>5. Made' = Made \cup {c} /\ c \notin Made /\ Made \subseteq Calls /\ c \in Calls
  BY <1>1, MadeAreCalls DEF Made, IInv
<1>6. TurnsChained'
  BY <1>1, <1>5 DEF IInv, TypeOK, TurnsChained, Next, TurnAfter
<1>7. TurnsTaken'
  <2>1. \A b \in Calls : phase'[b] = "unmade" <=> b > made'
    BY <1>1, <1>4, MadeAreCalls DEF IInv, TurnsTaken
  <2>2. ASSUME NEW d \in Made', phase'[d] \in {"polling", "ended"}, NEW b \in 1..(d - 1)
        PROVE  phase'[b] = "ended"
    <3>1. d \in Made /\ phase[d] \in {"polling", "ended"}
      BY <1>4, <1>5, <2>2
    <3>2. b \in Made /\ b # c
      BY <1>1, <3>1 DEF Made
    <3> QED
      BY <1>4, <1>5, <3>1, <3>2 DEF IInv, TurnsTaken
  <2> QED
    BY <2>1, <2>2 DEF TurnsTaken
<1>8. open => c > taken
  <2> SUFFICES ASSUME open, taken >= c
               PROVE  FALSE
    BY <1>1, ItemsType DEF IInv, TypeOK
  <2>1. taken \in Nat /\ Len(Items) \in Nat
    BY ItemsType DEF IInv, TypeOK
  <2> QED
    BY <1>1, <2>1 DEF IInv, OpenServed
<1>9. OpenServed'
  BY <1>1, <1>3, <1>4, <1>5, <1>8, ItemsType DEF IInv, TypeOK, OpenServed, Next
<1>10. ServedInOrder'
  <2> SUFFICES ASSUME NEW d \in Made', phase'[d] = "ended"
               PROVE  /\ outcome'[d] \in {<<"item", d>>, <<"end">>}
                      /\ \A b \in 1..(d - 1) :
                           /\ phase'[b] = "ended"
                           /\ outcome'[b] = <<"end">> => outcome'[d] = <<"end">>
    BY DEF ServedInOrder
  <2>1. d \in Made /\ phase[d] = "ended"
    BY <1>4, <1>5
  <2>2. \A b \in 1..(d - 1) : b \in Calls /\ b # c
    BY <1>1, <1>5, <2>1, MadeAreCalls DEF Made, IInv, Calls
  <2> QED
    BY <1>4, <2>1, <2>2 DEF IInv, ServedInOrder, Next
<1>11. ErrorIsLast'
  BY <1>3, <1>5 DEF IInv, ErrorIsLast, Next, Unserved
<1> QED
  BY <1>2, <1>6, <1>7, <1>9, <1>10, <1>11 DEF IInv

LEMMA PollBeginsKeeps ==
    ASSUME IInv, NEW c \in Calls, PollBegins(c)
    PROVE  IInv'
<1>1. c \in Made /\ HasTurn(c) /\ open /\ phase[c] # "ended"
  BY DEF PollBegins, InFlight
<1>2. \A b \in 1..(c - 1) : phase[b] = "ended"
  BY <1>1, TurnComesLast
<1>3. \A b \in Calls : phase'[b] = IF b = c THEN "polling" ELSE phase[b]
  BY DEF PollBegins, IInv, TypeOK
<1>4. TypeOK'
  BY DEF PollBegins, IInv, TypeOK
<1>5. Made' = Made /\ Made \subseteq Calls /\ c \in Nat
  BY MadeAreCalls DEF PollBegins, Made, IInv
<1>6. TurnsChained'
  BY <1>5 DEF IInv, TurnsChained, PollBegins
<1>7. phase[c] # "unmade"
  BY <1>1 DEF HasTurn
<1>8. TurnsTaken'
  <2>1. \A b \in Calls : phase'[b] = "unmade" <=> b > made'
    BY <1>3, <1>7 DEF IInv, TurnsTaken, PollBegins
  <2>2. ASSUME NEW d \in Made', phase'[d] \in {"polling", "ended"}, NEW b \in 1..(d - 1)
        PROVE  phase'[b] = "ended"
    <3>1. phase[b] = "ended"
      BY <1>2, <1>3, <1>5, <2>2 DEF IInv, TurnsTaken
    <3>2. b \in Calls /\ b # c
      <4>1. d \in 1..made /\ made \in 0..MaxCalls
        BY <1>5, <2>2 DEF IInv, TypeOK, Made
      <4>2. b \in Calls
        BY <4>1, MaxCallsAssumption DEF Calls
      <4> QED
        BY <1>1, <3>1, <4>2
    <3> QED
      BY <1>3, <3>1, <3>2
  <2> QED
    BY <2>1, <2>2 DEF TurnsTaken
<1>9. OpenServed'
  BY <1>1, <1>3, <1>5 DEF IInv, OpenServed, PollBegins
<1>10. ServedInOrder'
  <2> SUFFICES ASSUME NEW d \in Made, phase'[d] = "ended"
               PROVE  /\ outcome[d] \in {<<"item", d>>, <<"end">>}
                      /\ \A b \in 1..(d - 1) :
                           /\ phase'[b] = "ended"
                           /\ outcome[b] = <<"end">> => outcome[d] = <<"end">>
    BY <1>5 DEF ServedInOrder, PollBegins
  <2>1. d # c /\ phase[d] = "ended"
    BY <1>3, <1>5
  <2>2. \A b \in 1..(d - 1) : phase'[b] = "ended"
    BY <1>5, <1>8, <2>1 DEF TurnsTaken
  <2> QED
    BY <2>1, <2>2 DEF IInv, ServedInOrder
<1>11. ErrorIsLast'
  BY <1>5 DEF IInv, ErrorIsLast, PollBegins
<1> QED
  BY <1>4, <1>6, <1>8, <1>9, <1>10, <1>11 DEF IInv

\* What resolving a call does to the turns.
LEMMA ResolveKeepsTurns ==
    ASSUME IInv, NEW c \in Made, HasTurn(c), phase[c] # "ended",
           NEW step \in Outcomes, Resolve(c, step),
           UNCHANGED <<made, turn, previous>>
    PROVE  /\ phase' \in [Calls -> {"unmade", "waiting", "polling", "ended"}]
           /\ outcome' \in [Calls -> Outcomes \cup {Unserved}]
           /\ woken' \subseteq Calls
           /\ \A b \in Calls : phase'[b] = IF b = c THEN "ended" ELSE phase[b]
           /\ \A b \in Calls : outcome'[b] = IF b = c THEN step ELSE outcome[b]
           /\ \A b \in 1..(c - 1) : b \in Made /\ b # c /\ phase[b] = "ended"
           /\ \A d \in Made : d > c => phase[d] \notin {"polling", "ended"}
           /\ TurnsChained'
           /\ TurnsTaken'
<1>1. Made \subseteq Calls /\ Made' = Made /\ c \in Nat /\ c >= 1 /\ c <= made /\ made \in Nat
  BY MadeAreCalls DEF IInv, Made
<1>2. /\ phase' \in [Calls -> {"unmade", "waiting", "polling", "ended"}]
      /\ outcome' \in [Calls -> Outcomes \cup {Unserved}]
      /\ woken' \subseteq Calls
  BY <1>1 DEF IInv, TypeOK, Resolve, WaitingFor
<1>3. /\ \A b \in Calls : phase'[b] = IF b = c THEN "ended" ELSE phase[b]
      /\ \A b \in Calls : outcome'[b] = IF b = c THEN step ELSE outcome[b]
  BY <1>1 DEF IInv, TypeOK, Resolve
<1>4. \A b \in 1..(c - 1) : b \in Made /\ b # c /\ phase[b] = "ended"
  BY <1>1, TurnComesLast DEF Made
<1>5. \A d \in Made : d > c => phase[d] \notin {"polling", "ended"}
  <2> SUFFICES ASSUME NEW d \in Made, d > c, phase[d] \in {"polling", "ended"}
               PROVE  FALSE
    OBVIOUS
  <2>1. c \in 1..(d - 1)
    BY <1>1 DEF Made
  <2> QED
    BY <2>1 DEF IInv, TurnsTaken
<1>6. TurnsChained'
  BY <1>1 DEF IInv, TurnsChained
<1>7. TurnsTaken'
  <2>1. c <= made /\ phase[c] # "unmade"
    BY <1>1 DEF HasTurn
  <2>2. \A b \in Calls : phase'[b] = "unmade" <=> b > made'
    BY <1>1, <1>3, <2>1 DEF IInv, TurnsTaken
  <2>3. ASSUME NEW d \in Made, phase'[d] \in {"polling", "ended"}, NEW b \in 1..(d - 1)
        PROVE  phase'[b] = "ended"
    <3>1. b \in Calls
      BY <1>1, MadeAreCalls DEF IInv, Made, Calls
    <3>2. CASE d = c
      BY <1>3, <1>4, <3>1, <3>2
    <3>3. CASE d # c
      <4>1. phase[d] \in {"polling", "ended"}
        BY <1>1, <1>3, <2>3, <3>3
      <4>2. phase[b] = "ended"
        BY <4>1 DEF IInv, TurnsTaken
      <4> QED
        BY <1>3, <3>1, <4>2
    <3> QED
      BY <3>2, <3>3
  <2> QED
    BY <1>1, <2>2, <2>3 DEF TurnsTaken
<1> QED
  BY <1>2, <1>3, <1>4, <1>5, <1>6, <1>7

\* What resolving a call does to the order, when its outcome keeps it.
LEMMA ResolveKeepsOrder ==
    ASSUME IInv, NEW c \in Made, HasTurn(c), phase[c] # "ended",
           NEW step \in Outcomes, Resolve(c, step),
           UNCHANGED <<made, turn, previous>>,
           step \in {<<"item", c>>, <<"end">>},
           \A b \in 1..(c - 1) : outcome[b] = <<"end">> => step = <<"end">>
    PROVE  ServedInOrder'
<1> SUFFICES ASSUME NEW d \in Made, phase'[d] = "ended"
             PROVE  /\ outcome'[d] \in {<<"item", d>>, <<"end">>}
                    /\ \A b \in 1..(d - 1) :
                         /\ phase'[b] = "ended"
                         /\ outcome'[b] = <<"end">> => outcome'[d] = <<"end">>
  BY DEF ServedInOrder, Made
<1>1. Made \subseteq Calls
  BY MadeAreCalls DEF IInv
<1>2. CASE d = c
  BY <1>1, <1>2, ResolveKeepsTurns
<1>3. CASE d # c
  <2>1. phase[d] = "ended"
    BY <1>1, <1>3, ResolveKeepsTurns
  <2>2. ~(d > c)
    BY <2>1, ResolveKeepsTurns
  <2>3. \A b \in 1..(d - 1) : b \in Calls /\ b # c
    BY <1>1, <1>3, <2>2, MadeAreCalls DEF IInv, Made, Calls
  <2>4. outcome'[d] = outcome[d]
    BY <1>1, <1>3, ResolveKeepsTurns
  <2>5. \A b \in 1..(d - 1) : phase'[b] = phase[b] /\ outcome'[b] = outcome[b]
    BY <2>3, ResolveKeepsTurns
  <2> QED
    BY <2>1, <2>4, <2>5 DEF IInv, ServedInOrder
<1> QED
  BY <1>2, <1>3

LEMMA PollEndedKeeps ==
    ASSUME IInv, NEW c \in Calls, PollEnded(c)
    PROVE  IInv'
<1> DEFINE end == <<"end">>
<1>1. c \in Made /\ HasTurn(c) /\ phase[c] # "ended" /\ ~open /\ end \in Outcomes
  BY DEF PollEnded, InFlight, Outcomes
<1>2. Resolve(c, end) /\ UNCHANGED <<made, turn, previous, open, taken, ready, inside, listener>>
  BY DEF PollEnded
<1>3. inside = {}
  BY <1>1 DEF IInv, OpenServed
<1>4. TypeOK'
  BY <1>1, <1>2, <1>3, ResolveKeepsTurns DEF IInv, TypeOK
<1>5. TurnsChained' /\ TurnsTaken'
  BY <1>1, <1>2, ResolveKeepsTurns
<1>6. ServedInOrder'
  BY <1>1, <1>2, ResolveKeepsOrder
<1>7. \A b \in Calls : phase'[b] # "ended" => outcome'[b] = Unserved
  BY <1>1, <1>2, ResolveKeepsTurns DEF IInv, OpenServed
<1>8. OpenServed'
  BY <1>1, <1>2, <1>3, <1>7 DEF OpenServed
<1>9. ErrorIsLast'
  <2> SUFFICES ASSUME NEW d \in Made, NEW i \in DOMAIN Items,
                      outcome'[d] = <<"item", i>>, Items[i] = "err"
               PROVE  taken = i
    BY <1>1, <1>2 DEF ErrorIsLast, Made
  <2>1. d \in Calls /\ d # c
    BY <1>1, <1>2, ResolveKeepsTurns, MadeAreCalls DEF IInv
  <2>2. outcome[d] = <<"item", i>>
    BY <1>1, <1>2, <2>1, ResolveKeepsTurns
  <2> QED
    BY <2>2 DEF IInv, ErrorIsLast
<1> QED
  BY <1>4, <1>5, <1>6, <1>8, <1>9 DEF IInv

LEMMA PollYieldsKeeps ==
    ASSUME IInv, NEW c \in Calls, PollYields(c)
    PROVE  IInv'
<1>1. /\ c \in Made /\ inside = {c} /\ phase[c] = "polling" /\ HasTurn(c) /\ open
      /\ Made' = Made /\ Made \subseteq Calls /\ c \in Nat /\ c >= 1 /\ c <= made
  BY InsideIsOne, MadeAreCalls
  DEF PollYields, IInv, TypeOK, HasTurn, OpenServed, Made
<1>2. taken \in Nat /\ Len(Items) \in Nat /\ taken <= Len(Items) /\ DOMAIN Items = 1..Len(Items)
  BY ItemsType DEF IInv, TypeOK
\* The calls that ended are those before c: c is served the next item.
<1>3. taken + 1 = c
  <2>1. c > taken
    BY <1>1, <1>2 DEF IInv, OpenServed
  <2>2. \A b \in 1..(c - 1) : b \in Made /\ phase[b] = "ended"
    <3>1. made \in Nat /\ c \in 1..made
      BY <1>1, MadeAreCalls DEF IInv
    <3>2. \A b \in 1..(c - 1) : b \in 1..made
      BY <3>1
    <3> QED
      BY <1>1, <3>2, TurnComesLast DEF Made
  <2>3. CASE c = 1
    BY <1>2, <2>1, <2>3
  <2>4. CASE c # 1
    <3>1. c - 1 \in 1..(c - 1)
      BY <1>1, <2>4
    <3>2. c - 1 <= taken
      BY <1>1, <2>2, <3>1 DEF IInv, OpenServed
    <3> QED
      BY <1>1, <1>2, <2>1, <3>2
  <2> QED
    BY <2>3, <2>4
<1> DEFINE more == taken < Len(Items)
<1>4. PICK step \in Outcomes : step = Upcoming /\ Resolve(c, step)
  <2>1. Upcoming \in Outcomes
    BY <1>2 DEF Upcoming, Outcomes
  <2> QED
    BY <2>1 DEF PollYields
<1>5. /\ more => step = <<"item", c>>
      /\ ~more => step = <<"end">>
      /\ taken' = IF more THEN c ELSE taken
      /\ open' = ~Ends(step)
      /\ inside' = {}
      /\ UNCHANGED <<made, turn, previous>>
  BY <1>1, <1>3, <1>4 DEF PollYields, Upcoming
<1>6. phase[c] # "ended"
  BY <1>1
<1>7. TypeOK'
  <2>1. taken' \in 0..Len(Items)
    BY <1>2, <1>3, <1>5
  <2>2. open' \in BOOLEAN /\ ready' \in BOOLEAN /\ listener' = {}
    BY <1>5 DEF PollYields, Ends
  <2> QED
    BY <1>1, <1>4, <1>5, <1>6, <2>1, <2>2, ResolveKeepsTurns DEF IInv, TypeOK
<1>8. TurnsChained' /\ TurnsTaken'
  BY <1>1, <1>4, <1>5, <1>6, ResolveKeepsTurns
<1>9. \A b \in Made : phase[b] = "ended" => outcome[b] = <<"item", b>>
  BY <1>1 DEF IInv, OpenServed
<1>10. ServedInOrder'
  <2>1. \A b \in 1..(c - 1) : outcome[b] # <<"end">>
    BY <1>1, <1>4, <1>5, <1>6, <1>9, ResolveKeepsTurns
  <2> QED
    BY <1>1, <1>4, <1>5, <1>6, <2>1, ResolveKeepsOrder
<1>11. \A b \in Calls : phase'[b] # "ended" => outcome'[b] = Unserved
  BY <1>1, <1>4, <1>5, <1>6, ResolveKeepsTurns DEF IInv, OpenServed
<1>12. OpenServed'
  <2>1. ASSUME open'
        PROVE  /\ taken' <= made'
               /\ \A d \in Made : /\ phase'[d] = "ended" <=> d <= taken'
                                  /\ phase'[d] = "ended" => outcome'[d] = <<"item", d>>
    <3>1. more /\ step = <<"item", c>> /\ taken' = c
      BY <1>5, <2>1 DEF Ends
    <3>2. ASSUME NEW d \in Made
          PROVE  /\ phase'[d] = "ended" <=> d <= c
                 /\ phase'[d] = "ended" => outcome'[d] = <<"item", d>>
      <4>1. d \in Calls /\ d \in Nat
        BY <1>1, MadeAreCalls DEF IInv
      <4>2. CASE d = c
        BY <1>1, <1>4, <1>5, <1>6, <3>1, <4>2, ResolveKeepsTurns
      <4>3. CASE d # c
        <5>1. phase'[d] = phase[d] /\ outcome'[d] = outcome[d]
          BY <1>1, <1>4, <1>5, <1>6, <4>1, <4>3, ResolveKeepsTurns
        <5>2. phase[d] = "ended" <=> d <= taken
          BY <1>1 DEF IInv, OpenServed
        <5> QED
          BY <1>2, <1>3, <1>9, <4>1, <4>3, <5>1, <5>2
      <4> QED
        BY <4>2, <4>3
    <3> QED
      BY <1>1, <1>5, <3>1, <3>2
  <2> QED
    BY <1>1, <1>5, <1>11, <2>1 DEF OpenServed
<1>13. ErrorIsLast'
  <2> SUFFICES ASSUME NEW d \in Made, NEW i \in DOMAIN Items,
                      outcome'[d] = <<"item", i>>, Items[i] = "err"
               PROVE  ~open' /\ taken' = i
    BY <1>1 DEF ErrorIsLast
  <2>1. d \in Calls
    BY <1>1
  <2>2. CASE d = c
    <3>1. step = <<"item", i>>
      BY <1>1, <1>4, <1>5, <1>6, <2>1, <2>2, ResolveKeepsTurns
    <3>2. more /\ i = c
      BY <1>5, <3>1
    <3> QED
      BY <1>5, <3>1, <3>2 DEF Ends
  <2>3. CASE d # c
    <3>1. outcome[d] = <<"item", i>>
      BY <1>1, <1>4, <1>5, <1>6, <2>1, <2>3, ResolveKeepsTurns
    <3> QED
      BY <1>1, <3>1 DEF IInv, ErrorIsLast
  <2> QED
    BY <2>2, <2>3
<1> QED
  BY <1>7, <1>8, <1>10, <1>12, <1>13 DEF IInv

-----------------------------------------------------------------------------
(* The invariant and the theorems. *)

LEMMA InitIInv == Init => IInv
<1> SUFFICES ASSUME Init
             PROVE  IInv
  OBVIOUS
<1>1. Made = {} /\ made = 0 /\ \A c \in Calls : c > 0
  BY MaxCallsAssumption DEF Init, Made, Calls
<1>2. TypeOK
  BY ItemsType, MaxCallsAssumption DEF Init, TypeOK, NoCall
<1>3. TurnsChained /\ TurnsTaken /\ OpenServed
  BY <1>1 DEF Init, TurnsChained, TurnsTaken, OpenServed, NoCall
<1>4. ServedInOrder /\ ErrorIsLast
  BY <1>1 DEF ServedInOrder, ErrorIsLast
<1> QED
  BY <1>2, <1>3, <1>4 DEF IInv

LEMMA StepIInv == IInv /\ [Step]_vars => IInv'
<1> SUFFICES ASSUME IInv, [Step]_vars
             PROVE  IInv'
  OBVIOUS
<1>1. ASSUME NEW c \in Calls, PollWaits(c)
      PROVE  IInv'
  <2>1. TypeOK'
    BY <1>1 DEF PollWaits, IInv, TypeOK
  <2> QED
    BY <1>1, <2>1, PhasesKept DEF PollWaits, IInv, TypeOK, OpenServed
<1>2. ASSUME NEW c \in Calls, PollPends(c)
      PROVE  IInv'
  <2>1. TypeOK'
    BY <1>2 DEF PollPends, IInv, TypeOK
  <2>2. inside' # {} => open
    BY <1>2 DEF PollPends, IInv, OpenServed
  <2> QED
    BY <1>2, <2>1, <2>2, PhasesKept DEF PollPends, IInv, TypeOK
<1>3. CASE Arrive
  <2>1. TypeOK'
    BY <1>3 DEF Arrive, IInv, TypeOK
  <2> QED
    BY <1>3, <2>1, PhasesKept DEF Arrive, IInv, TypeOK, OpenServed
<1>4. CASE Close
  <2>1. TypeOK'
    BY <1>4, MadeAreCalls DEF Close, WokenByClose, InFlight, IInv, TypeOK
  <2> QED
    BY <1>4, <2>1, PhasesKept DEF Close, IInv, TypeOK
<1>5. CASE UNCHANGED vars
  <2>1. TypeOK'
    BY <1>5 DEF vars, IInv, TypeOK
  <2> QED
    BY <1>5, <2>1, PhasesKept DEF vars, IInv, TypeOK, OpenServed
<1> QED
  BY <1>1, <1>2, <1>3, <1>4, <1>5,
     NextKeeps, PollBeginsKeeps, PollEndedKeeps, PollYieldsKeeps
  DEF Step

LEMMA Invariance == Spec => []IInv
BY InitIInv, StepIInv, PTL DEF Spec

\* The variables keep their types.
THEOREM TypeCorrect == Spec => []TypeOK
BY Invariance, PTL DEF IInv

\* Calls are served in the order they were made, the n-th with the n-th item, for
\* any script of items and any number of calls.
THEOREM AlwaysServedInOrder == Spec => []ServedInOrder
BY Invariance, PTL DEF IInv

\* Nothing follows an error.
THEOREM ErrorAlwaysLast == Spec => []ErrorIsLast
BY Invariance, PTL DEF IInv

\* The cell of the stream is never borrowed by two polls.
THEOREM NeverBorrowedByTwo == Spec => []NeverBorrowedTwice
<1>1. IInv => NeverBorrowedTwice
  <2> SUFFICES ASSUME IInv
               PROVE  Cardinality(inside) <= 1
    BY DEF NeverBorrowedTwice
  <2>1. CASE inside = {}
    BY <2>1, FS_EmptySet
  <2>2. CASE inside # {}
    <3>1. PICK c \in inside : inside = {c}
      BY <2>2, InsideIsOne
    <3>2. Cardinality({c}) = 1
      BY FS_Singleton
    <3> QED
      BY <3>1, <3>2
  <2> QED
    BY <2>1, <2>2
<1> QED
  BY <1>1, Invariance, PTL

===============================================================================
