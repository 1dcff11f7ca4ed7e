--------------------------- MODULE GuestEntryProofs ---------------------------
(***************************************************************************)
(* Theorems of GuestEntry for every set of guests, every policy, every     *)
(* clock and every depth of the call stack.                                *)
(***************************************************************************)
EXTENDS GuestEntry, FiniteSetTheorems, SequenceTheorems, TLAPS

-----------------------------------------------------------------------------
(* The call stack *)

\* Two stacks that differ in the results their frames have received at most.
SameFrames(s, t) ==
    /\ Len(s) = Len(t)
    /\ \A i \in 1..Len(s) : /\ s[i].kind = t[i].kind
                            /\ s[i].guest = t[i].guest
                            /\ s[i].locks = t[i].locks

\* A reply changes nothing but the last result of the innermost frame.
LEMMA RepliedFrames ==
    ASSUME NEW s \in Seq(FrameType), NEW r \in Results \cup {"none"}
    PROVE  /\ Replied(s, r) \in Seq(FrameType)
           /\ SameFrames(s, Replied(s, r))
           /\ s # <<>> => Replied(s, r)[Len(s)].last = r
           /\ \A i \in 1..Len(s) : i # Len(s) => Replied(s, r)[i] = s[i]
<1>1. CASE s = <<>>
  BY <1>1 DEF Replied, SameFrames
<1>2. CASE s # <<>>
  <2> DEFINE f == [s[Len(s)] EXCEPT !.last = r]
  <2>1. Len(s) \in 1..Len(s) /\ s[Len(s)] \in FrameType
    BY <1>2, EmptySeq, ElementOfSeq
  <2>2. f \in FrameType /\ f.last = r /\ f.kind = s[Len(s)].kind
            /\ f.guest = s[Len(s)].guest /\ f.locks = s[Len(s)].locks
    BY <2>1 DEF FrameType
  <2>3. Replied(s, r) = [s EXCEPT ![Len(s)] = f]
    BY <1>2 DEF Replied
  <2> HIDE DEF f
  <2>4. /\ [s EXCEPT ![Len(s)] = f] \in Seq(FrameType)
        /\ Len([s EXCEPT ![Len(s)] = f]) = Len(s)
        /\ \A j \in 1..Len(s) : [s EXCEPT ![Len(s)] = f][j] = IF j = Len(s) THEN f ELSE s[j]
    BY <2>1, <2>2, ExceptSeq
  <2>5. QED
    BY <2>1, <2>2, <2>3, <2>4 DEF SameFrames
<1>3. QED
  BY <1>1, <1>2

\* The stack without its innermost frame.
LEMMA BelowFrames ==
    ASSUME NEW s \in Seq(FrameType), s # <<>>
    PROVE  /\ SubSeq(s, 1, Len(s) - 1) \in Seq(FrameType)
           /\ Len(SubSeq(s, 1, Len(s) - 1)) = Len(s) - 1
           /\ \A i \in 1..(Len(s) - 1) : SubSeq(s, 1, Len(s) - 1)[i] = s[i]
           /\ Len(s) \in Nat \ {0}
           /\ s[Len(s)] \in FrameType
<1> DEFINE n == Len(s)
           b == SubSeq(s, 1, n - 1)
<1>1. n \in Nat \ {0} /\ n - 1 \in Int /\ \A i \in 1..(n - 1) : i \in 1..n
  BY EmptySeq
<1>2. \A i \in 1..n : s[i] \in FrameType
  BY ElementOfSeq
<1>3. /\ b \in Seq(FrameType)
      /\ Len(b) = IF 1 <= n - 1 THEN n - 1 - 1 + 1 ELSE 0
      /\ \A i \in 1..(n - 1 - 1 + 1) : b[i] = s[1 + i - 1]
  BY <1>1, <1>2, SubSeqProperties
<1> HIDE DEF n, b
<1>4. Len(b) = n - 1 /\ n - 1 - 1 + 1 = n - 1 /\ \A i \in 1..(n - 1) : 1 + i - 1 = i
  BY <1>1, <1>3
<1>5. \A i \in 1..(n - 1) : b[i] = s[i]
  BY <1>3, <1>4
<1>6. s[n] \in FrameType
  BY <1>1, <1>2
<1>7. QED
  BY <1>1, <1>3, <1>4, <1>5, <1>6 DEF n, b

\* A stack of the same frames counts the same frames.
LEMMA SameCounts ==
    ASSUME NEW s \in Seq(FrameType), NEW t \in Seq(FrameType), SameFrames(s, t),
           NEW K, NEW G
    PROVE  Frames(t, K, G) = Frames(s, K, G)
  BY LenProperties DEF Frames, SameFrames

LEMMA FiniteFrames ==
    ASSUME NEW s \in Seq(FrameType), NEW K, NEW G
    PROVE  /\ IsFiniteSet(Frames(s, K, G))
           /\ Cardinality(Frames(s, K, G)) \in Nat
           /\ Frames(s, K, G) \subseteq 1..Len(s)
           /\ Cardinality(Frames(s, K, G)) = 0 <=> Frames(s, K, G) = {}
<1>1. Len(s) \in Nat /\ DOMAIN s = 1..Len(s)
  BY LenProperties
<1>2. IsFiniteSet(1..Len(s))
  BY <1>1, FS_Interval
<1>3. Frames(s, K, G) \subseteq 1..Len(s)
  BY <1>1 DEF Frames
<1>4. QED
  BY <1>2, <1>3, FS_Subset, FS_CardinalityType, FS_EmptySet

Pushed(s, f) == Append(Replied(s, "none"), f)
Popped(s, r) == Replied(SubSeq(s, 1, Len(s) - 1), r)

\* Calling: one more frame ...
LEMMA PushedStack ==
    ASSUME NEW s \in Seq(FrameType), NEW f \in FrameType
    PROVE  /\ Pushed(s, f) \in Seq(FrameType)
           /\ Pushed(s, f) # <<>>
           /\ Len(Pushed(s, f)) = Len(s) + 1
           /\ Pushed(s, f)[Len(s) + 1] = f
           /\ \A i \in 1..Len(s) : /\ Pushed(s, f)[i].kind = s[i].kind
                                   /\ Pushed(s, f)[i].guest = s[i].guest
                                   /\ Pushed(s, f)[i].locks = s[i].locks
<1> DEFINE u == Replied(s, "none")
<1>1. /\ u \in Seq(FrameType) /\ SameFrames(s, u) /\ Len(u) = Len(s) /\ Len(s) \in Nat
  BY RepliedFrames, LenProperties DEF SameFrames
<1>2. /\ Append(u, f) \in Seq(FrameType) /\ Append(u, f) # <<>>
      /\ Len(Append(u, f)) = Len(s) + 1 /\ Append(u, f)[Len(s) + 1] = f
      /\ \A i \in 1..Len(s) : Append(u, f)[i] = u[i]
  BY <1>1, AppendProperties
<1>3. Pushed(s, f) = Append(u, f)
  BY DEF Pushed
<1> HIDE DEF u
<1>4. QED
  BY <1>1, <1>2, <1>3 DEF SameFrames

\* ... which counts when it is of the kinds and guests counted.
LEMMA PushedFrames ==
    ASSUME NEW s \in Seq(FrameType), NEW f \in FrameType, NEW K, NEW G
    PROVE  /\ (f.kind \in K /\ f.guest \in G) =>
                /\ Frames(Pushed(s, f), K, G) = Frames(s, K, G) \cup {Len(s) + 1}
                /\ Cardinality(Frames(Pushed(s, f), K, G)) = Cardinality(Frames(s, K, G)) + 1
           /\ ~(f.kind \in K /\ f.guest \in G) =>
                Frames(Pushed(s, f), K, G) = Frames(s, K, G)
<1> DEFINE t == Pushed(s, f)
<1>1. /\ Len(s) \in Nat /\ DOMAIN t = 1..(Len(s) + 1) /\ DOMAIN s = 1..Len(s)
      /\ t[Len(s) + 1] = f
      /\ \A i \in 1..Len(s) : t[i].kind = s[i].kind /\ t[i].guest = s[i].guest
  BY PushedStack, LenProperties
<1> HIDE DEF t
<1>2. /\ Len(s) + 1 \notin Frames(s, K, G)
      /\ f.kind \in K /\ f.guest \in G => Frames(t, K, G) = Frames(s, K, G) \cup {Len(s) + 1}
      /\ ~(f.kind \in K /\ f.guest \in G) => Frames(t, K, G) = Frames(s, K, G)
  BY <1>1 DEF Frames
<1>3. Cardinality(Frames(s, K, G) \cup {Len(s) + 1}) = Cardinality(Frames(s, K, G)) + 1
  BY <1>2, FiniteFrames, FS_AddElement
<1>4. QED
  BY <1>2, <1>3 DEF t

\* Returning: the innermost frame is gone ...
LEMMA PoppedStack ==
    ASSUME NEW s \in Seq(FrameType), s # <<>>, NEW r \in Results \cup {"none"}
    PROVE  /\ s[Len(s)] \in FrameType
           /\ Len(s) \in Nat \ {0}
           /\ SubSeq(s, 1, Len(s) - 1) \in Seq(FrameType)
           /\ Popped(s, r) \in Seq(FrameType)
           /\ Len(Popped(s, r)) = Len(s) - 1
           /\ \A i \in 1..(Len(s) - 1) : /\ Popped(s, r)[i].kind = s[i].kind
                                         /\ Popped(s, r)[i].guest = s[i].guest
                                         /\ Popped(s, r)[i].locks = s[i].locks
<1> DEFINE b == SubSeq(s, 1, Len(s) - 1)
<1>1. /\ b \in Seq(FrameType) /\ Len(b) = Len(s) - 1 /\ Len(s) \in Nat \ {0}
      /\ \A i \in 1..(Len(s) - 1) : b[i] = s[i]
      /\ s[Len(s)] \in FrameType
  BY BelowFrames
<1>2. Popped(s, r) = Replied(b, r)
  BY DEF Popped
<1> HIDE DEF b
<1>3. Popped(s, r) \in Seq(FrameType) /\ SameFrames(b, Popped(s, r))
  BY <1>1, <1>2, RepliedFrames
<1>4. QED
  BY <1>1, <1>3 DEF SameFrames, b

\* ... and no longer counts.
LEMMA PoppedFrames ==
    ASSUME NEW s \in Seq(FrameType), s # <<>>, NEW r \in Results \cup {"none"}, NEW K, NEW G
    PROVE  /\ (s[Len(s)].kind \in K /\ s[Len(s)].guest \in G) =>
                /\ Cardinality(Frames(Popped(s, r), K, G)) = Cardinality(Frames(s, K, G)) - 1
                /\ Cardinality(Frames(s, K, G)) > 0
           /\ ~(s[Len(s)].kind \in K /\ s[Len(s)].guest \in G) =>
                Frames(Popped(s, r), K, G) = Frames(s, K, G)
<1> DEFINE t == Popped(s, r)
           F == Frames(s, K, G)
<1>1. /\ Len(s) \in Nat \ {0} /\ DOMAIN t = 1..(Len(s) - 1) /\ DOMAIN s = 1..Len(s)
      /\ \A i \in 1..(Len(s) - 1) : t[i].kind = s[i].kind /\ t[i].guest = s[i].guest
  BY PoppedStack, LenProperties
<1> HIDE DEF t
<1>2. /\ Frames(t, K, G) = F \ {Len(s)}
      /\ Len(s) \in F <=> s[Len(s)].kind \in K /\ s[Len(s)].guest \in G
  BY <1>1 DEF Frames
<1>3. /\ IsFiniteSet(F) /\ Cardinality(F) \in Nat
      /\ Cardinality(F) = 0 => F = {}
  BY FiniteFrames
<1> HIDE DEF F
<1>4. CASE Len(s) \in F
  <2>1. Cardinality(F \ {Len(s)}) = Cardinality(F) - 1
    BY <1>3, <1>4, FS_RemoveElement
  <2>2. Cardinality(F) > 0
    BY <1>3, <1>4
  <2>3. QED
    BY <1>2, <1>4, <2>1, <2>2 DEF F, t
<1>5. CASE Len(s) \notin F
  <2>1. F \ {Len(s)} = F
    BY <1>5
  <2>2. QED
    BY <1>2, <1>5, <2>1 DEF F, t
<1>6. QED
  BY <1>4, <1>5

-----------------------------------------------------------------------------
(* The shapes of a step, as far as the activations are concerned *)

FrameKinds == HostKinds \cup EngineKinds

\* The number of engine frames.
EntriesCounted == entered = Cardinality(Frames(stack, EngineKinds, Guests))

\* Time and cancellations only advance, the stack stays.
Waits ==
    /\ UNCHANGED <<entryVars, stack, result>>
    /\ now' \in Nat /\ now' >= now
    /\ cancelled' \in SUBSET Signals /\ cancelled \subseteq cancelled'

\* A call is answered on the spot.
Answers ==
    \E r \in Results :
        /\ Deliver(stack, r)
        /\ r = "interrupted" => \E g \in Guests : IsDue(g)
        /\ UNCHANGED <<entryVars, signalVars>>

\* An activation begins.
Opens ==
    \E f \in FrameType :
        /\ f.kind \in FrameKinds /\ f.last = "none"
        /\ Begin(f.guest)
        /\ Push(f)
        /\ entered' = IF f.kind \in EngineKinds THEN entered + 1 ELSE entered
        /\ locked' \in BOOLEAN
        /\ UNCHANGED signalVars

\* Guest code begins.
CallsGuestCode ==
    \E f \in FrameType :
        /\ f.kind = "js" /\ f.last = "none"
        /\ Push(f)
        /\ UNCHANGED <<entryVars, signalVars>>

\* The innermost activation ends.
Closes ==
    \E r \in Results :
        /\ TopIs(FrameKinds)
        /\ Deliver(Below, Named(Top.guest, r))
        /\ r = "interrupted" => Top.last = "interrupted"
        /\ Finish(Top.guest)
        /\ entered' = IF Top.kind \in EngineKinds THEN entered - 1 ELSE entered
        /\ locked' \in BOOLEAN
        /\ UNCHANGED signalVars

\* Guest code ends.
GuestCodeEnds ==
    \E r \in Results :
        /\ TopIs({"js"})
        /\ Deliver(Below, r)
        /\ r = "interrupted" => \/ Top.last = "interrupted"
                                \/ \E g \in Guests : IsDue(g)
        /\ UNCHANGED <<entryVars, signalVars>>

Shapes == Waits \/ Answers \/ Opens \/ CallsGuestCode \/ Closes \/ GuestCodeEnds

LEMMA TopFrame ==
    ASSUME TypeOK, stack # <<>>
    PROVE  Top \in FrameType /\ Below \in Seq(FrameType)
  BY BelowFrames DEF TypeOK, Top, Below

LEMMA DueIsSeen ==
    ASSUME TypeOK, ShouldInterrupt
    PROVE  \E g \in Guests : IsDue(g)
  BY DEF TypeOK, ShouldInterrupt

\* Creating, closing and keeping a guest touches no activation.
LEMMA HostShapes ==
    ASSUME TypeOK, NEW g \in Guests,
           \/ NewGuest(g) \/ GuestWithPolicy(g) \/ Close(g) \/ Release(g) \/ Retain
           \/ \E hooks \in BOOLEAN : CreateInsideEntry(g, hooks)
    PROVE  Waits \/ Answers
<1> USE DEF TypeOK
<1>1. CASE NewGuest(g) \/ GuestWithPolicy(g)
  BY <1>1 DEF NewGuest, GuestWithPolicy, Create, Waits, entryVars, signalVars
<1>2. CASE \E hooks \in BOOLEAN : CreateInsideEntry(g, hooks)
  BY <1>2 DEF CreateInsideEntry, Answers, Results, Errors
<1>3. CASE Close(g)
  BY <1>3 DEF Close, Waits, entryVars, signalVars
<1>4. CASE Release(g)
  BY <1>4 DEF Release, Waits, entryVars, signalVars
<1>5. CASE Retain
  BY <1>5 DEF Retain, Waits, entryVars, signalVars
<1>6. QED
  BY <1>1, <1>2, <1>3, <1>4, <1>5

\* Calls that are refused, and jobs polled inside an entry.
LEMMA RefusalShapes ==
    ASSUME TypeOK, NEW g \in Guests,
           \/ EnterClosed(g) \/ EnterDue(g) \/ ReenterRefused(g) \/ Check
           \/ PollJobsDue(g) \/ PollJobsEntered(g) \/ CallbackRefused
    PROVE  Answers
<1>1. ASSUME NEW r \in Results, r # "interrupted", Refuse(r)
      PROVE  Answers
  BY <1>1 DEF Refuse, Answers
<1>2. \A h \in Guests : RefuseDue(h) => Answers
  <2> TAKE h \in Guests
  <2>1. \A e \in DueError(Arm(policy[h])) : e \in Results /\ e # "interrupted"
    BY DEF DueError, Results, Errors
  <2>2. QED
    BY <1>1, <2>1 DEF RefuseDue
<1>3. CASE Check
  BY <1>3, DueIsSeen DEF Check, Refuse, Answers, Results, Errors
<1>4. CASE EnterClosed(g) \/ EnterDue(g)
  BY <1>1, <1>2, <1>4 DEF EnterClosed, EnterDue, Results, Errors
<1>5. CASE ReenterRefused(g)
  BY <1>1, <1>2, <1>5 DEF ReenterRefused, Results, Errors
<1>6. CASE PollJobsDue(g) \/ PollJobsEntered(g)
  BY <1>1, <1>2, <1>6 DEF PollJobsDue, PollJobsEntered, Results, Errors
<1>7. CASE CallbackRefused
  <2>1. stack # <<>> /\ Top.guest \in Guests
    BY <1>7, TopFrame DEF CallbackRefused, JsRuns, TopIs, FrameType
  <2>2. Refuse("closed") \/ RefuseDue(Top.guest)
    BY <1>7 DEF CallbackRefused
  <2>3. QED
    BY <1>1, <1>2, <2>1, <2>2 DEF Results, Errors
<1>8. QED
  BY <1>3, <1>4, <1>5, <1>6, <1>7

\* Entries, callbacks, polls and guest code that begin.
LEMMA CallShapes ==
    ASSUME TypeOK, NEW g \in Guests,
           \/ Enter(g) \/ Reenter(g) \/ Callback \/ PollJobs(g)
           \/ RunJob(g) \/ RunGuestCode
    PROVE  Opens \/ CallsGuestCode
<1>1. CASE Enter(g)
  <2> DEFINE f == Frame("enter", g, entered = 0)
  <2>1. f \in FrameType /\ f.kind = "enter" /\ f.guest = g /\ f.last = "none"
    BY DEF Frame, FrameType, HostKinds
  <2>2. /\ Begin(g) /\ Push(f) /\ UNCHANGED signalVars
        /\ entered' = entered + 1 /\ locked' \in BOOLEAN
    BY <1>1 DEF Enter, TypeOK, EnterEngine
  <2> HIDE DEF f
  <2>3. QED
    BY <2>1, <2>2 DEF Opens, FrameKinds, HostKinds, EngineKinds
<1>2. CASE Reenter(g)
  <2> DEFINE f == Frame("reenter", g, FALSE)
  <2>1. f \in FrameType /\ f.kind = "reenter" /\ f.guest = g /\ f.last = "none"
    BY DEF Frame, FrameType, HostKinds
  <2>2. /\ Begin(g) /\ Push(f) /\ UNCHANGED signalVars
        /\ entered' = entered /\ locked' \in BOOLEAN
    BY <1>2 DEF Reenter, TypeOK
  <2> HIDE DEF f
  <2>3. QED
    BY <2>1, <2>2 DEF Opens, FrameKinds, HostKinds, EngineKinds
<1>3. CASE Callback
  <2> DEFINE f == Frame("reenter", Top.guest, FALSE)
  <2>1. Top.guest \in Guests
    BY <1>3, TopFrame DEF Callback, JsRuns, TopIs, FrameType
  <2>2. f \in FrameType /\ f.kind = "reenter" /\ f.guest = Top.guest /\ f.last = "none"
    BY <2>1 DEF Frame, FrameType, HostKinds
  <2>3. /\ Begin(Top.guest) /\ Push(f) /\ UNCHANGED signalVars
        /\ entered' = entered /\ locked' \in BOOLEAN
    BY <1>3 DEF Callback, JsRuns, TypeOK
  <2> HIDE DEF f
  <2>4. QED
    BY <2>2, <2>3 DEF Opens, FrameKinds, HostKinds, EngineKinds
<1>4. CASE PollJobs(g)
  <2> DEFINE f == Frame("jobs", g, TRUE)
  <2>1. f \in FrameType /\ f.kind = "jobs" /\ f.guest = g /\ f.last = "none"
    BY DEF Frame, FrameType, HostKinds
  <2>2. /\ Begin(g) /\ Push(f) /\ UNCHANGED signalVars
        /\ entered' = entered + 1 /\ locked' \in BOOLEAN
    BY <1>4 DEF PollJobs, TypeOK, EnterEngine
  <2> HIDE DEF f
  <2>3. QED
    BY <2>1, <2>2 DEF Opens, FrameKinds, HostKinds, EngineKinds
<1>5. CASE RunJob(g)
  <2> DEFINE f == Frame("js", g, FALSE)
  <2>1. f \in FrameType /\ f.kind = "js" /\ f.guest = g /\ f.last = "none"
    BY DEF Frame, FrameType, HostKinds
  <2>2. Push(f) /\ UNCHANGED <<entryVars, signalVars>>
    BY <1>5 DEF RunJob
  <2> HIDE DEF f
  <2>3. QED
    BY <2>1, <2>2 DEF CallsGuestCode
<1>6. CASE RunGuestCode
  <2> DEFINE f == Frame("js", Top.guest, FALSE)
  <2>1. Top.guest \in Guests
    BY <1>6, TopFrame DEF RunGuestCode, TopIs, FrameType
  <2>2. f \in FrameType /\ f.kind = "js" /\ f.guest = Top.guest /\ f.last = "none"
    BY <2>1 DEF Frame, FrameType, HostKinds
  <2>3. Push(f) /\ UNCHANGED <<entryVars, signalVars>>
    BY <1>6 DEF RunGuestCode
  <2> HIDE DEF f
  <2>4. QED
    BY <2>2, <2>3 DEF CallsGuestCode
<1>7. QED
  BY <1>1, <1>2, <1>3, <1>4, <1>5, <1>6

\* Host closures, polls and guest code that end.
LEMMA EndShapes ==
    ASSUME TypeOK,
           \/ \E r \in {"ok"} \cup Errors : Return(r)
           \/ FinishJobs \/ JsReturn \/ JsThrows \/ Interrupt
    PROVE  Closes \/ GuestCodeEnds
<1>1. stack # <<>> => Top \in FrameType
  BY TopFrame
<1>2. ASSUME NEW r \in {"ok"} \cup Errors, Return(r)
      PROVE  Closes
  <2>1. r \in Results /\ (r = "interrupted" => Top.last = "interrupted")
    BY <1>2 DEF Return, Results
  <2>2. /\ TopIs(FrameKinds)
        /\ Deliver(Below, Named(Top.guest, r))
        /\ Finish(Top.guest)
        /\ UNCHANGED signalVars
    BY <1>2 DEF Return, TopIs, FrameKinds
  <2>3. /\ entered' = IF Top.kind \in EngineKinds THEN entered - 1 ELSE entered
        /\ locked' \in BOOLEAN
    BY <1>1, <1>2, <2>2 DEF Return, TopIs, LeaveEngine, HostKinds, EngineKinds, FrameType, TypeOK
  <2>4. QED
    BY <2>1, <2>2, <2>3 DEF Closes
<1>3. CASE FinishJobs
  <2> DEFINE r == IF Top.last = "none" THEN "ok" ELSE Top.last
  <2>1. r \in Results /\ (r = "interrupted" => Top.last = "interrupted")
    BY <1>1, <1>3 DEF FinishJobs, TopIs, FrameType, Results, Errors
  <2>2. /\ TopIs(FrameKinds)
        /\ Deliver(Below, Named(Top.guest, r))
        /\ Finish(Top.guest)
        /\ UNCHANGED signalVars
    BY <1>3 DEF FinishJobs, TopIs, FrameKinds, EngineKinds
  <2>3. /\ entered' = IF Top.kind \in EngineKinds THEN entered - 1 ELSE entered
        /\ locked' \in BOOLEAN
    BY <1>1, <1>3, <2>2 DEF FinishJobs, TopIs, LeaveEngine, EngineKinds, FrameType, TypeOK
  <2> HIDE DEF r
  <2>4. QED
    BY <2>1, <2>2, <2>3 DEF Closes
<1>4. CASE JsReturn
  BY <1>4 DEF JsReturn, JsEnds, JsRuns, GuestCodeEnds, Results, Errors
<1>5. CASE JsThrows
  BY <1>5 DEF JsThrows, JsEnds, GuestCodeEnds, Results, Errors
<1>6. CASE Interrupt
  BY <1>6, DueIsSeen DEF Interrupt, JsEnds, JsRuns, GuestCodeEnds, Results, Errors
<1>7. QED
  BY <1>2, <1>3, <1>4, <1>5, <1>6

LEMMA ClockShapes ==
    ASSUME TypeOK, Tick \/ \E s \in Signals : Cancel(s)
    PROVE  Waits
  BY DEF TypeOK, Tick, Cancel, Waits, entryVars

LEMMA StepShapes ==
    ASSUME TypeOK, [Next]_vars
    PROVE  Shapes
<1>1. CASE UNCHANGED vars
  BY <1>1 DEF vars, signalVars, Shapes, Waits, TypeOK
<1>2. ASSUME NEW g \in Guests, GuestNext(g)
      PROVE  Shapes
  BY <1>2, HostShapes, RefusalShapes, CallShapes DEF GuestNext, Shapes
<1>3. CASE Retain \/ Check \/ CallbackRefused \/ RunGuestCode \/ Callback
  <2>1. PICK g \in Guests : TRUE
    BY <1>3, TopFrame
       DEF Retain, Check, CallbackRefused, RunGuestCode, Callback, JsRuns, TopIs, FrameType
  <2>2. QED
    BY <1>3, <2>1, HostShapes, RefusalShapes, CallShapes DEF Shapes
<1>4. CASE \/ \E r \in {"ok"} \cup Errors : Return(r)
           \/ FinishJobs \/ JsReturn \/ JsThrows \/ Interrupt
  BY <1>4, EndShapes DEF Shapes
<1>5. CASE Tick \/ \E s \in Signals : Cancel(s)
  BY <1>5, ClockShapes DEF Shapes
<1>6. QED
  BY <1>1, <1>2, <1>3, <1>4, <1>5 DEF Next

-----------------------------------------------------------------------------
(* Type correctness of the guests' own state *)

GuestTypes ==
    /\ policy \in [Guests -> PolicyType]
    /\ life \in [Guests -> {"unborn", "live", "dropped"}]
    /\ held \in [Guests -> BOOLEAN]
    /\ registry \in SUBSET Guests
    /\ hooked \in BOOLEAN
    /\ closed \in [Guests -> BOOLEAN]

LEMMA ReapTypes ==
    ASSUME GuestTypes, Reap
    PROVE  life' \in [Guests -> {"unborn", "live", "dropped"}] /\ registry' \in SUBSET Guests
  BY DEF GuestTypes, Reap

LEMMA GuestTypesStep ==
    ASSUME TypeOK, [Next]_vars
    PROVE  GuestTypes'
<1>1. GuestTypes
  BY DEF TypeOK, GuestTypes
<1>2. CASE UNCHANGED guestVars
  BY <1>1, <1>2 DEF guestVars, GuestTypes
<1>3. ASSUME NEW g \in Guests, NewGuest(g) \/ GuestWithPolicy(g)
      PROVE  GuestTypes'
  <2>1. DefaultPolicy \in PolicyType /\ Policies \subseteq PolicyType
    BY ConstantsAssumption DEF DefaultPolicy, PolicyType
  <2>2. PICK p \in PolicyType, hooks \in BOOLEAN : Create(g, p, hooks)
    BY <1>3, <2>1 DEF NewGuest, GuestWithPolicy
  <2>3. QED
    BY <1>1, <2>2 DEF Create, GuestTypes
<1>4. ASSUME NEW g \in Guests, NEW hooks \in BOOLEAN, CreateInsideEntry(g, hooks)
      PROVE  GuestTypes'
  BY <1>1, <1>4 DEF CreateInsideEntry, GuestTypes
<1>5. ASSUME NEW g \in Guests, Close(g)
      PROVE  GuestTypes'
  BY <1>1, <1>5 DEF Close, GuestTypes
<1>6. ASSUME NEW g \in Guests, Release(g)
      PROVE  GuestTypes'
  BY <1>1, <1>6, ReapTypes DEF Release, GuestTypes
<1>7. CASE Retain
  BY <1>1, <1>7 DEF Retain, GuestTypes
<1>8. CASE FinishJobs \/ \E r \in {"ok"} \cup Errors : Return(r)
  BY <1>1, <1>8, ReapTypes DEF FinishJobs, Return, GuestTypes
<1>9. ASSUME NEW g \in Guests,
             \/ EnterClosed(g) \/ EnterDue(g) \/ Enter(g) \/ ReenterRefused(g) \/ Reenter(g)
             \/ PollJobsDue(g) \/ PollJobsEntered(g) \/ PollJobs(g) \/ RunJob(g)
      PROVE  UNCHANGED guestVars
  BY <1>9 DEF EnterClosed, EnterDue, Enter, ReenterRefused, Reenter, PollJobsDue,
              PollJobsEntered, PollJobs, RunJob, RefuseDue, Refuse
<1>10. ASSUME \/ Check \/ RunGuestCode \/ CallbackRefused \/ Callback \/ JsReturn \/ JsThrows
              \/ Interrupt \/ Tick \/ \E s \in Signals : Cancel(s)
       PROVE  UNCHANGED guestVars
  BY <1>10 DEF Check, RunGuestCode, CallbackRefused, Callback, JsReturn, JsThrows, JsEnds,
               Interrupt, Tick, Cancel, RefuseDue, Refuse
<1>11. ASSUME NEW g \in Guests, GuestNext(g)
       PROVE  GuestTypes'
  BY <1>2, <1>3, <1>4, <1>5, <1>6, <1>9, <1>11 DEF GuestNext
<1>12. CASE UNCHANGED vars
  BY <1>2, <1>12 DEF vars
<1>13. CASE Next
  BY <1>2, <1>7, <1>8, <1>10, <1>11, <1>13 DEF Next
<1>14. QED
  BY <1>12, <1>13

-----------------------------------------------------------------------------
(* The inductive invariant *)

\* TypeOK is not inductive by itself: the counters stay natural numbers because
\* they count frames.  An interruption is named because whoever is due is still
\* on the stack below it.
IInv ==
    /\ TypeOK
    /\ ActivationsBalanced
    /\ EntriesCounted
    /\ InterruptionHasOwner
    /\ InterruptionIsNamed

EntryTypes ==
    /\ depth \in [Guests -> Nat]
    /\ armed \in [Guests -> SUBSET ArmedType]
    /\ entered \in Nat
    /\ locked \in BOOLEAN
    /\ stack \in Seq(FrameType)
    /\ result \in Results \cup {"none"}
    /\ now \in Nat
    /\ cancelled \in SUBSET Signals

EntryInv == EntryTypes /\ ActivationsBalanced /\ EntriesCounted

LEMMA ArmType ==
    ASSUME EntryTypes, NEW p \in PolicyType
    PROVE  Arm(p) \in ArmedType
  BY DEF EntryTypes, PolicyType, ArmedType, Arm

\* The result of a call reaches the frame, or the host, that made it.
LEMMA Delivered ==
    ASSUME NEW s \in Seq(FrameType), NEW r \in Results, Deliver(s, r)
    PROVE  /\ stack' \in Seq(FrameType) /\ result' \in Results \cup {"none"}
           /\ SameFrames(s, stack')
           /\ stack' = <<>> <=> s = <<>>
           /\ stack' # <<>> => stack'[Len(stack')].last = r
           /\ stack' = <<>> => result' = r
<1>1. /\ stack' = Replied(s, r) /\ r \in Results \cup {"none"}
      /\ result' \in Results \cup {"none"}
      /\ s = <<>> => result' = r
  BY DEF Deliver
<1>2. stack' \in Seq(FrameType) /\ SameFrames(s, stack') /\ Len(stack') = Len(s)
  BY <1>1, RepliedFrames DEF SameFrames
<1>3. stack' = <<>> <=> s = <<>>
  BY <1>2, EmptySeq
<1>4. s # <<>> => stack'[Len(s)].last = r
  BY <1>1, RepliedFrames
<1>5. QED
  BY <1>1, <1>2, <1>3, <1>4

\* Whoever is due is on the stack.
LEMMA DueIsActive ==
    ASSUME EntryInv, NEW g \in Guests, IsDue(g)
    PROVE  OnStack(stack, g)
<1>1. armed[g] # {} /\ depth[g] # 0
  BY DEF EntryInv, ActivationsBalanced, IsDue
<1>2. QED
  BY <1>1, FiniteFrames DEF EntryInv, EntryTypes, ActivationsBalanced, OnStack, Activations

\* Time and further cancellations leave who is due due.
LEMMA DueStaysDue ==
    ASSUME EntryTypes, NEW g \in Guests, IsDue(g), armed'[g] = armed[g],
           now' \in Nat, now' >= now, cancelled \subseteq cancelled'
    PROVE  IsDue(g)'
<1>1. PICK a \in armed[g] : IsExpired(a) \/ IsCancelled(a)
  BY DEF IsDue
<1>2. a.deadline \in SUBSET Nat /\ now \in Nat
  BY DEF EntryTypes, ArmedType
<1>3. CASE IsExpired(a)
  <2>1. PICK d \in a.deadline : now >= d
    BY <1>3 DEF IsExpired
  <2>2. now' >= d
    BY <1>2, <2>1
  <2>3. QED
    BY <2>1, <2>2 DEF IsDue, IsExpired
<1>4. CASE IsCancelled(a)
  BY <1>4 DEF IsDue, IsCancelled
<1>5. QED
  BY <1>1, <1>3, <1>4

\* Beginning an activation adds the frame that it counts.
LEMMA OpensKeepsBalance ==
    ASSUME TypeOK, EntryInv, Opens
    PROVE  EntryInv' /\ stack' # <<>> /\ Top'.last = "none"
<1>1. PICK f \in FrameType :
        /\ f.kind \in FrameKinds /\ f.last = "none"
        /\ Begin(f.guest)
        /\ stack' = Pushed(stack, f) /\ result' = "none"
        /\ entered' = IF f.kind \in EngineKinds THEN entered + 1 ELSE entered
        /\ locked' \in BOOLEAN
        /\ UNCHANGED signalVars
  BY DEF Opens, Push, Pushed
<1>2. f.guest \in Guests /\ stack \in Seq(FrameType)
  BY DEF FrameType, TypeOK
<1>3. stack' \in Seq(FrameType) /\ stack' # <<>> /\ Top' = f
  <2>1. /\ Pushed(stack, f) \in Seq(FrameType) /\ Pushed(stack, f) # <<>>
        /\ Pushed(stack, f)[Len(Pushed(stack, f))] = f
    BY <1>2, PushedStack
  <2>2. stack' = Pushed(stack, f)
    BY <1>1
  <2>3. QED
    BY <2>1, <2>2 DEF Top
<1> DEFINE p == policy[f.guest]
<1>4. Arm(p) \in ArmedType
  BY <1>2, ArmType DEF TypeOK, EntryInv
<1>5. EntryTypes'
  BY <1>1, <1>2, <1>3, <1>4 DEF EntryInv, EntryTypes, Begin, signalVars
<1>6. ASSUME NEW g \in Guests
      PROVE  /\ depth'[g] = Cardinality(Activations(stack', g))
             /\ IF depth'[g] = 0 THEN armed'[g] = {} ELSE \E a \in armed'[g] : armed'[g] = {a}
  <2>1. /\ depth[g] = Cardinality(Activations(stack, g)) /\ depth[g] \in Nat
        /\ IF depth[g] = 0 THEN armed[g] = {} ELSE \E a \in armed[g] : armed[g] = {a}
    BY DEF EntryInv, ActivationsBalanced, EntryTypes
  <2>2. CASE g = f.guest
    <3>1. depth'[g] = depth[g] + 1 /\ armed'[g] = IF depth[g] = 0 THEN {Arm(p)} ELSE armed[g]
      BY <1>1, <1>2, <2>2 DEF Begin, EntryInv, EntryTypes
    <3>2. Cardinality(Activations(stack', g)) = Cardinality(Activations(stack, g)) + 1
      BY <1>1, <1>2, <2>2, PushedFrames DEF Activations, FrameKinds
    <3>3. QED
      BY <2>1, <3>1, <3>2
  <2>3. CASE g # f.guest
    <3>1. depth'[g] = depth[g] /\ armed'[g] = armed[g]
      BY <1>1, <1>2, <2>3 DEF Begin, EntryInv, EntryTypes
    <3>2. Activations(stack', g) = Activations(stack, g)
      BY <1>1, <1>2, <2>3, PushedFrames DEF Activations
    <3>3. QED
      BY <2>1, <3>1, <3>2
  <2>4. QED
    BY <2>2, <2>3
<1>7. EntriesCounted'
  BY <1>1, <1>2, PushedFrames DEF EntryInv, EntryTypes, EntriesCounted
<1>8. QED
  BY <1>1, <1>3, <1>5, <1>6, <1>7 DEF EntryInv, ActivationsBalanced

\* Guest code is no activation.
LEMMA CallsGuestCodeKeepsBalance ==
    ASSUME EntryInv, CallsGuestCode
    PROVE  EntryInv' /\ stack' # <<>> /\ Top'.last = "none"
<1>1. PICK f \in FrameType :
        /\ f.kind = "js" /\ f.last = "none"
        /\ stack' = Pushed(stack, f) /\ result' = "none"
        /\ UNCHANGED <<entryVars, signalVars>>
  BY DEF CallsGuestCode, Push, Pushed
<1>2. stack \in Seq(FrameType)
  BY DEF EntryInv, EntryTypes
<1>3. stack' \in Seq(FrameType) /\ stack' # <<>> /\ Top' = f
  <2>1. stack' = Pushed(stack, f)
    BY <1>1
  <2>2. /\ Pushed(stack, f) \in Seq(FrameType) /\ Pushed(stack, f) # <<>>
        /\ Pushed(stack, f)[Len(Pushed(stack, f))] = f
    BY <1>2, PushedStack
  <2>3. QED
    BY <2>1, <2>2 DEF Top
<1>4. /\ \A g : Activations(stack', g) = Activations(stack, g)
      /\ Frames(stack', EngineKinds, Guests) = Frames(stack, EngineKinds, Guests)
  BY <1>1, <1>2, PushedFrames DEF Activations, HostKinds, EngineKinds
<1>5. QED
  BY <1>1, <1>2, <1>3, <1>4
     DEF EntryInv, EntryTypes, ActivationsBalanced, EntriesCounted, entryVars, signalVars

\* An answer changes no frame.
LEMMA AnswersKeepsBalance ==
    ASSUME EntryInv, NEW r \in Results, Deliver(stack, r), UNCHANGED <<entryVars, signalVars>>
    PROVE  EntryInv' /\ \A g : OnStack(stack', g) = OnStack(stack, g)
<1>1. /\ stack' \in Seq(FrameType) /\ result' \in Results \cup {"none"}
      /\ SameFrames(stack, stack')
  BY Delivered DEF EntryInv, EntryTypes
<1>2. /\ \A g : Activations(stack', g) = Activations(stack, g)
      /\ Frames(stack', EngineKinds, Guests) = Frames(stack, EngineKinds, Guests)
  BY <1>1, SameCounts DEF Activations, EntryInv, EntryTypes
<1>3. QED
  BY <1>1, <1>2 DEF EntryInv, EntryTypes, ActivationsBalanced, EntriesCounted, OnStack,
                    entryVars, signalVars

\* The innermost frame's end takes away what it counted.
LEMMA PopsBalance ==
    ASSUME TypeOK, EntryInv, stack # <<>>, NEW r \in Results, Deliver(Below, r)
    PROVE  /\ stack' \in Seq(FrameType) /\ result' \in Results \cup {"none"}
           /\ Top \in FrameType
           /\ \A K, G :
                /\ (Top.kind \in K /\ Top.guest \in G) =>
                     /\ Cardinality(Frames(stack', K, G)) = Cardinality(Frames(stack, K, G)) - 1
                     /\ Cardinality(Frames(stack, K, G)) > 0
                /\ ~(Top.kind \in K /\ Top.guest \in G) => Frames(stack', K, G) = Frames(stack, K, G)
<1>1. /\ stack \in Seq(FrameType) /\ r \in Results \cup {"none"}
      /\ stack' = Popped(stack, r) /\ Top = stack[Len(stack)]
  BY DEF TypeOK, Deliver, Below, Popped, Top
<1>2. Top \in FrameType /\ stack' \in Seq(FrameType)
  BY <1>1, PoppedStack
<1>3. result' \in Results \cup {"none"}
  BY DEF Deliver
<1>4. ASSUME NEW K, NEW G
      PROVE  /\ (Top.kind \in K /\ Top.guest \in G) =>
                     /\ Cardinality(Frames(stack', K, G)) = Cardinality(Frames(stack, K, G)) - 1
                     /\ Cardinality(Frames(stack, K, G)) > 0
             /\ ~(Top.kind \in K /\ Top.guest \in G) => Frames(stack', K, G) = Frames(stack, K, G)
  BY <1>1, PoppedFrames
<1>5. QED
  BY <1>2, <1>3, <1>4

\* A name for an interruption is a result.
LEMMA NamedResults ==
    ASSUME NEW g \in Guests, NEW r \in Results
    PROVE  /\ Named(g, r) \in Results
           /\ Named(g, r) = "interrupted" => r = "interrupted" /\ ~IsDue(g)
<1>1. CASE r = "interrupted" /\ IsDue(g)
  <2>1. \E e \in {"timeout", "cancelled"} : \E a \in armed[g] : e \in DueError(a)
    BY <1>1 DEF IsDue, DueError
  <2>2. Named(g, r) \in {"timeout", "cancelled"}
    BY <1>1, <2>1 DEF Named
  <2>3. QED
    BY <2>2 DEF Results, Errors
<1>2. CASE ~(r = "interrupted" /\ IsDue(g))
  BY <1>2 DEF Named
<1>3. QED
  BY <1>1, <1>2

\* Dropping the activation of the innermost frame keeps every count, and the
\* other guests active.
LEMMA ClosesKeepsBalance ==
    ASSUME TypeOK, EntryInv, TopIs(FrameKinds), NEW r \in Results, Deliver(Below, r),
           Finish(Top.guest),
           entered' = IF Top.kind \in EngineKinds THEN entered - 1 ELSE entered,
           locked' \in BOOLEAN, UNCHANGED signalVars
    PROVE  /\ EntryInv'
           /\ \A g \in Guests : g # Top.guest =>
                  /\ OnStack(stack', g) = OnStack(stack, g)
                  /\ armed'[g] = armed[g]
<1> DEFINE h == Top.guest
<1>1. /\ stack # <<>> /\ Top.kind \in FrameKinds
      /\ Top \in FrameType /\ h \in Guests
      /\ stack' \in Seq(FrameType) /\ result' \in Results \cup {"none"}
  BY PopsBalance DEF TopIs, FrameType
<1>2. ASSUME NEW g \in Guests, g # h
      PROVE  /\ depth'[g] = depth[g] /\ armed'[g] = armed[g]
             /\ Activations(stack', g) = Activations(stack, g)
  BY <1>1, <1>2, PopsBalance DEF Finish, Activations, EntryInv, EntryTypes
<1>3. /\ depth'[h] = Cardinality(Activations(stack', h))
      /\ depth[h] \in Nat \ {0} /\ depth'[h] = depth[h] - 1
      /\ armed'[h] = IF depth[h] = 1 THEN {} ELSE armed[h]
      /\ \E a \in armed[h] : armed[h] = {a}
  <2>1. /\ Cardinality(Activations(stack', h)) = Cardinality(Activations(stack, h)) - 1
        /\ Cardinality(Activations(stack, h)) > 0
    BY <1>1, PopsBalance DEF Activations, FrameKinds
  <2>2. /\ depth'[h] = depth[h] - 1
        /\ armed'[h] = IF depth[h] = 1 THEN {} ELSE armed[h]
    BY <1>1 DEF Finish, EntryInv, EntryTypes
  <2>3. /\ depth[h] = Cardinality(Activations(stack, h)) /\ depth[h] \in Nat
        /\ IF depth[h] = 0 THEN armed[h] = {} ELSE \E a \in armed[h] : armed[h] = {a}
    BY <1>1 DEF EntryInv, ActivationsBalanced, EntryTypes
  <2>4. QED
    BY <2>1, <2>2, <2>3
<1>4. ActivationsBalanced'
  <2> SUFFICES ASSUME NEW g \in Guests
               PROVE  /\ depth'[g] = Cardinality(Activations(stack', g))
                      /\ IF depth'[g] = 0 THEN armed'[g] = {}
                                          ELSE \E a \in armed'[g] : armed'[g] = {a}
    BY DEF ActivationsBalanced
  <2>1. CASE g # h
    <3>1. /\ depth[g] = Cardinality(Activations(stack, g))
          /\ IF depth[g] = 0 THEN armed[g] = {} ELSE \E a \in armed[g] : armed[g] = {a}
      BY DEF EntryInv, ActivationsBalanced
    <3>2. /\ depth'[g] = depth[g] /\ armed'[g] = armed[g]
          /\ Activations(stack', g) = Activations(stack, g)
      BY <1>2, <2>1
    <3>3. QED
      BY <3>1, <3>2
  <2>2. CASE g = h
    <3>1. CASE depth[h] = 1
      <4>1. armed'[h] = {} /\ depth'[h] = 0
        BY <1>3, <3>1
      <4>2. QED
        BY <1>3, <2>2, <4>1
    <3>2. CASE depth[h] # 1
      <4>1. armed'[h] = armed[h] /\ depth'[h] # 0
        BY <1>3, <3>2
      <4>2. QED
        BY <1>3, <2>2, <4>1
    <3>3. QED
      BY <3>1, <3>2
  <2>3. QED
    BY <2>1, <2>2
<1>5. EntriesCounted' /\ entered' \in Nat
  <2>1. entered = Cardinality(Frames(stack, EngineKinds, Guests)) /\ entered \in Nat
    BY DEF EntryInv, EntriesCounted, EntryTypes
  <2>2. CASE Top.kind \in EngineKinds
    <3>1. /\ Cardinality(Frames(stack', EngineKinds, Guests))
                = Cardinality(Frames(stack, EngineKinds, Guests)) - 1
          /\ Cardinality(Frames(stack, EngineKinds, Guests)) > 0
      BY <1>1, <2>2, PopsBalance
    <3>2. QED
      BY <2>1, <2>2, <3>1 DEF EntriesCounted
  <2>3. CASE Top.kind \notin EngineKinds
    <3>1. Frames(stack', EngineKinds, Guests) = Frames(stack, EngineKinds, Guests)
      BY <1>1, <2>3, PopsBalance
    <3>2. QED
      BY <2>1, <2>3, <3>1 DEF EntriesCounted
  <2>4. QED
    BY <2>2, <2>3
<1>6. EntryTypes'
  <2>1. depth' \in [Guests -> Nat] /\ armed' \in [Guests -> SUBSET ArmedType]
    BY <1>1, <1>3 DEF Finish, EntryInv, EntryTypes
  <2>2. QED
    BY <1>1, <1>5, <2>1 DEF EntryInv, EntryTypes, signalVars
<1>7. QED
  BY <1>2, <1>4, <1>5, <1>6 DEF EntryInv, OnStack

\* The end of guest code touches no activation.
LEMMA GuestCodeEndsKeepsBalance ==
    ASSUME TypeOK, EntryInv, TopIs({"js"}), NEW r \in Results, Deliver(Below, r),
           UNCHANGED <<entryVars, signalVars>>
    PROVE  EntryInv' /\ \A g \in Guests : OnStack(stack', g) = OnStack(stack, g)
<1>1. stack # <<>> /\ Top.kind = "js"
  BY DEF TopIs
<1>2. stack' \in Seq(FrameType) /\ result' \in Results \cup {"none"}
  BY <1>1, PopsBalance
<1>3. /\ \A g \in Guests : Activations(stack', g) = Activations(stack, g)
      /\ Frames(stack', EngineKinds, Guests) = Frames(stack, EngineKinds, Guests)
  BY <1>1, PopsBalance DEF Activations, HostKinds, EngineKinds
<1>4. QED
  BY <1>2, <1>3 DEF EntryInv, EntryTypes, ActivationsBalanced, EntriesCounted, OnStack,
                    entryVars, signalVars

-----------------------------------------------------------------------------
(* Interruptions *)

\* An interruption is passed on to a caller only while its owner is still active.
LEMMA DeliveredInterruption ==
    ASSUME NEW s \in Seq(FrameType), NEW r \in Results, Deliver(s, r),
           r = "interrupted" => \E g \in Guests : OnStack(stack', g) /\ IsDue(g)'
    PROVE  InterruptionHasOwner' /\ InterruptionIsNamed'
<1>1. /\ stack' # <<>> => Top'.last = r
      /\ stack' = <<>> => result' = r
  BY Delivered DEF Top
<1>2. InterruptionHasOwner'
  BY <1>1 DEF InterruptionHasOwner
<1>3. ASSUME stack' = <<>>, result' = "interrupted"
      PROVE  FALSE
  <2>1. PICK g \in Guests : OnStack(stack', g)
    BY <1>1, <1>3
  <2>2. QED
    BY <1>3, <2>1 DEF OnStack, Activations, Frames
<1>4. QED
  BY <1>2, <1>3 DEF InterruptionIsNamed

LEMMA WaitsStep ==
    ASSUME IInv, EntryInv, Waits
    PROVE  EntryInv' /\ InterruptionHasOwner' /\ InterruptionIsNamed'
<1>1. /\ depth' = depth /\ armed' = armed /\ entered' = entered /\ locked' = locked
      /\ stack' = stack /\ result' = result
      /\ now' \in Nat /\ now' >= now
      /\ cancelled' \in SUBSET Signals /\ cancelled \subseteq cancelled'
  BY DEF Waits, entryVars
<1>2. EntryInv'
  BY <1>1 DEF EntryInv, EntryTypes, ActivationsBalanced, EntriesCounted
<1>3. ASSUME NEW g \in Guests, IsDue(g)
      PROVE  IsDue(g)'
  BY <1>1, <1>3, DueStaysDue DEF EntryInv
<1>4. Top' = Top
  BY <1>1 DEF Top
<1>5. InterruptionHasOwner'
  BY <1>1, <1>3, <1>4 DEF IInv, InterruptionHasOwner
<1>6. QED
  BY <1>1, <1>2, <1>5 DEF IInv, InterruptionIsNamed

LEMMA AnswersStep ==
    ASSUME IInv, EntryInv, Answers
    PROVE  EntryInv' /\ InterruptionHasOwner' /\ InterruptionIsNamed'
<1>1. PICK r \in Results :
        /\ Deliver(stack, r)
        /\ r = "interrupted" => \E g \in Guests : IsDue(g)
        /\ UNCHANGED <<entryVars, signalVars>>
  BY DEF Answers
<1>2. EntryInv' /\ \A g : OnStack(stack', g) = OnStack(stack, g)
  BY <1>1, AnswersKeepsBalance
<1>3. \A g \in Guests : IsDue(g)' = IsDue(g)
  BY <1>1 DEF IsDue, IsExpired, IsCancelled, entryVars, signalVars
<1>4. r = "interrupted" => \E g \in Guests : OnStack(stack', g) /\ IsDue(g)'
  BY <1>1, <1>2, <1>3, DueIsActive
<1>5. QED
  BY <1>1, <1>2, <1>4, DeliveredInterruption DEF EntryInv, EntryTypes

LEMMA CallsStep ==
    ASSUME IInv, EntryInv, Opens \/ CallsGuestCode
    PROVE  EntryInv' /\ InterruptionHasOwner' /\ InterruptionIsNamed'
<1>1. EntryInv' /\ stack' # <<>> /\ Top'.last = "none"
  BY OpensKeepsBalance, CallsGuestCodeKeepsBalance DEF IInv
<1>2. QED
  BY <1>1 DEF InterruptionHasOwner, InterruptionIsNamed

LEMMA ClosesStep ==
    ASSUME IInv, EntryInv, Closes
    PROVE  EntryInv' /\ InterruptionHasOwner' /\ InterruptionIsNamed'
<1>1. PICK r \in Results :
        /\ TopIs(FrameKinds)
        /\ Deliver(Below, Named(Top.guest, r))
        /\ r = "interrupted" => Top.last = "interrupted"
        /\ Finish(Top.guest)
        /\ entered' = IF Top.kind \in EngineKinds THEN entered - 1 ELSE entered
        /\ locked' \in BOOLEAN
        /\ UNCHANGED signalVars
  BY DEF Closes
<1> DEFINE h == Top.guest
           n == Named(h, r)
<1>2. stack # <<>> /\ h \in Guests /\ Below \in Seq(FrameType)
  BY <1>1, TopFrame DEF TopIs, IInv, FrameType
<1>3. n \in Results /\ (n = "interrupted" => r = "interrupted" /\ ~IsDue(h))
  BY <1>2, NamedResults
<1>4. /\ EntryInv'
      /\ \A g \in Guests : g # h => /\ OnStack(stack', g) = OnStack(stack, g)
                                    /\ armed'[g] = armed[g]
  BY <1>1, <1>3, ClosesKeepsBalance DEF IInv
<1>5. \A g \in Guests : g # h => IsDue(g)' = IsDue(g)
  BY <1>1, <1>4 DEF IsDue, IsExpired, IsCancelled, signalVars
<1>6. ASSUME n = "interrupted"
      PROVE  \E g \in Guests : OnStack(stack', g) /\ IsDue(g)'
  <2>1. PICK g \in Guests : OnStack(stack, g) /\ IsDue(g)
    BY <1>1, <1>2, <1>3, <1>6 DEF IInv, InterruptionHasOwner
  <2>2. g # h
    BY <1>3, <1>6, <2>1
  <2>3. QED
    BY <1>4, <1>5, <2>1, <2>2
<1>7. QED
  BY <1>1, <1>2, <1>3, <1>4, <1>6, DeliveredInterruption

LEMMA GuestCodeEndsStep ==
    ASSUME IInv, EntryInv, GuestCodeEnds
    PROVE  EntryInv' /\ InterruptionHasOwner' /\ InterruptionIsNamed'
<1>1. PICK r \in Results :
        /\ TopIs({"js"})
        /\ Deliver(Below, r)
        /\ r = "interrupted" => \/ Top.last = "interrupted"
                                \/ \E g \in Guests : IsDue(g)
        /\ UNCHANGED <<entryVars, signalVars>>
  BY DEF GuestCodeEnds
<1>2. stack # <<>> /\ Below \in Seq(FrameType)
  BY <1>1, TopFrame DEF TopIs, IInv
<1>3. EntryInv' /\ \A g \in Guests : OnStack(stack', g) = OnStack(stack, g)
  BY <1>1, GuestCodeEndsKeepsBalance DEF IInv
<1>4. \A g \in Guests : IsDue(g)' = IsDue(g)
  BY <1>1 DEF IsDue, IsExpired, IsCancelled, entryVars, signalVars
<1>5. r = "interrupted" => \E g \in Guests : OnStack(stack, g) /\ IsDue(g)
  BY <1>1, <1>2, DueIsActive DEF IInv, InterruptionHasOwner
<1>6. r = "interrupted" => \E g \in Guests : OnStack(stack', g) /\ IsDue(g)'
  BY <1>3, <1>4, <1>5
<1>7. QED
  BY <1>1, <1>2, <1>3, <1>6, DeliveredInterruption

-----------------------------------------------------------------------------
(* The theorems *)

LEMMA InitIInv ==
    ASSUME Init
    PROVE  IInv
<1>1. DefaultPolicy \in PolicyType
  BY DEF DefaultPolicy, PolicyType
<1>2. stack = <<>> /\ stack \in Seq(FrameType)
  BY EmptySeq DEF Init
<1>3. TypeOK
  BY <1>1, <1>2 DEF Init, TypeOK
<1>4. \A K, G : Cardinality(Frames(stack, K, G)) = 0
  <2>1. \A K, G : Frames(stack, K, G) = {}
    BY <1>2 DEF Frames
  <2>2. QED
    BY <2>1, FS_EmptySet
<1>5. ActivationsBalanced /\ EntriesCounted
  BY <1>4 DEF Init, ActivationsBalanced, Activations, EntriesCounted
<1>6. InterruptionHasOwner /\ InterruptionIsNamed
  BY DEF Init, InterruptionHasOwner, InterruptionIsNamed
<1>7. QED
  BY <1>3, <1>5, <1>6 DEF IInv

LEMMA StepIInv ==
    ASSUME IInv, [Next]_vars
    PROVE  IInv'
<1>1. TypeOK /\ EntryInv
  BY DEF IInv, TypeOK, EntryInv, EntryTypes
<1>2. EntryInv' /\ InterruptionHasOwner' /\ InterruptionIsNamed'
  BY <1>1, StepShapes, WaitsStep, AnswersStep, CallsStep, ClosesStep, GuestCodeEndsStep
     DEF Shapes
<1>3. GuestTypes'
  BY <1>1, GuestTypesStep
<1>4. TypeOK'
  BY <1>2, <1>3 DEF EntryInv, EntryTypes, GuestTypes, TypeOK
<1>5. QED
  BY <1>2, <1>4 DEF EntryInv, IInv

LEMMA Invariance == Spec => []IInv
  BY InitIInv, StepIInv, PTL DEF Spec

\* Guest::enter, the activity of a guest and the engine keep their counters
\* natural numbers, and every result, frame and armed policy has its type.
THEOREM TypeCorrect == Spec => []TypeOK
<1>1. IInv => TypeOK
  BY DEF IInv
<1>2. QED
  BY <1>1, Invariance, PTL

\* GuestActivity: the depth of a guest is the number of its frames, whatever the
\* nesting, and its policy is armed exactly while it has one.
THEOREM ActivationsAlwaysBalanced == Spec => []ActivationsBalanced
<1>1. IInv => ActivationsBalanced
  BY DEF IInv
<1>2. QED
  BY <1>1, Invariance, PTL

\* GuestState::activate: no interruption reaches the host without its name.
THEOREM InterruptionAlwaysNamed == Spec => []InterruptionIsNamed
<1>1. IInv => InterruptionIsNamed
  BY DEF IInv
<1>2. QED
  BY <1>1, Invariance, PTL

\* The interrupt handler: code is stopped only for a guest that is due and active below.
THEOREM InterruptionAlwaysOwned == Spec => []InterruptionHasOwner
<1>1. IInv => InterruptionHasOwner
  BY DEF IInv
<1>2. QED
  BY <1>1, Invariance, PTL

\* GuestActivity::begin and finish: nothing extends the deadline of an activation.
THEOREM DeadlineNeverMoves == Spec => DeadlineIsFixed
<1> DEFINE Fixed == \A g \in Guests : depth[g] > 0 /\ depth'[g] > 0 => armed'[g] = armed[g]
<1>1. ASSUME IInv, [Next]_vars
      PROVE  [Fixed]_vars
  <2>1. TypeOK
    BY <1>1 DEF IInv
  <2>2. CASE armed' = armed
    BY <2>2
  <2>3. CASE Opens
    <3>1. PICK f \in FrameType : Begin(f.guest)
      BY <2>3 DEF Opens
    <3>2. QED
      BY <2>1, <3>1 DEF Begin, TypeOK
  <2>4. CASE Closes
    BY <2>1, <2>4 DEF Closes, Finish, TypeOK
  <2>5. QED
    BY <1>1, <2>1, <2>2, <2>3, <2>4, StepShapes
       DEF Shapes, Waits, Answers, CallsGuestCode, GuestCodeEnds, entryVars
<1>2. QED
  BY <1>1, Invariance, PTL DEF Spec, DeadlineIsFixed

-----------------------------------------------------------------------------
(***************************************************************************)
(* The engine and closed guests.  The frame at the bottom of the stack     *)
(* entered the engine and took its lock, no other frame did: the lock is   *)
(* held while the stack is not empty.                                      *)
(***************************************************************************)
Rooted ==
    /\ stack # <<>> => stack[1].kind \in EngineKinds /\ stack[1].locks
    /\ \A i \in 1 .. Len(stack) : stack[i].locks => i = 1
    /\ locked <=> stack # <<>>

\* What keeps a guest alive, and which of them the interrupt handler sees.
Kept ==
    /\ \A g \in Guests : Strong(stack, held, g) => life[g] = "live"
    /\ registry = {g \in Guests : life[g] = "live"}

Restricted(p) == p.signal # {} \/ p.timeout # {}
Armed(a) == a.signal # {} \/ a.deadline # {}

Hooks ==
    /\ \A g \in Guests : Restricted(policy[g]) => hooked
    /\ \A g \in Guests : \A a \in armed[g] : Armed(a) => hooked

Standing == IInv /\ Rooted /\ Kept /\ Hooks

-----------------------------------------------------------------------------
(* The shapes of a step, as far as the engine and the handles are concerned. *)

\* A frame is pushed; the first takes the lock.
Begins ==
    \E f \in FrameType :
        /\ stack' = Pushed(stack, f)
        /\ IF stack = <<>> THEN f.kind \in EngineKinds /\ f.locks ELSE ~f.locks
        /\ locked'
        /\ f.kind \in HostKinds => ~closed[f.guest]
        /\ f.kind \in FrameKinds => Strong(stack, held, f.guest) \/ life[f.guest] = "live"
        /\ UNCHANGED guestVars

\* The innermost frame ends, and with it the lock it took and the handle it had.
Ends ==
    /\ stack # <<>>
    /\ \E r \in Results : stack' = Popped(stack, r)
    /\ locked' = (locked /\ ~(Top.kind \in EngineKinds /\ Top.locks))
    /\ UNCHANGED <<held, closed>>
    /\ \/ Reap
       \/ Top.kind = "js" /\ UNCHANGED <<life, registry>>

\* The frames stay; the host may create, close, keep and drop guests.
Stays ==
    /\ stack' \in Seq(FrameType) /\ SameFrames(stack, stack')
    /\ locked' = locked
    /\ \/ UNCHANGED <<held, life, registry>>
       \/ \E g \in Guests :
            /\ held' = [held EXCEPT ![g] = TRUE] /\ life' = [life EXCEPT ![g] = "live"]
            /\ registry' = registry \cup {g}
       \/ \E g \in Guests : held' = [held EXCEPT ![g] = FALSE] /\ Reap

LEMMA SameStack ==
    ASSUME TypeOK
    PROVE  SameFrames(stack, stack)
BY DEF SameFrames

LEMMA AnsweredStack ==
    ASSUME TypeOK, NEW r \in Results, Deliver(stack, r)
    PROVE  stack' \in Seq(FrameType) /\ SameFrames(stack, stack')
BY RepliedFrames DEF Deliver, TypeOK

\* Frames that are the same, pushed or popped, seen from the stack.
LEMMA EmptyIffZero ==
    ASSUME TypeOK, Rooted, EntriesCounted
    PROVE  entered = 0 <=> stack = <<>>
<1>1. CASE stack = <<>>
  <2>1. Frames(stack, EngineKinds, Guests) = {}
    BY <1>1 DEF Frames
  <2> QED
    BY <1>1, <2>1, FS_EmptySet DEF EntriesCounted
<1>2. CASE stack # <<>>
  <2>1. 1 \in DOMAIN stack /\ stack[1].guest \in Guests
    <3>1. stack \in Seq(FrameType) /\ Len(stack) \in Nat \ {0} /\ DOMAIN stack = 1 .. Len(stack)
      BY <1>2, EmptySeq, LenProperties DEF TypeOK
    <3>2. stack[1] \in FrameType
      BY <3>1, ElementOfSeq
    <3> QED
      BY <3>1, <3>2 DEF FrameType
  <2>2. 1 \in Frames(stack, EngineKinds, Guests)
    BY <1>2, <2>1 DEF Rooted, Frames
  <2>3. Cardinality(Frames(stack, EngineKinds, Guests)) # 0
    BY <2>2, FiniteFrames DEF TypeOK
  <2> QED
    BY <1>2, <2>3 DEF EntriesCounted
<1> QED
  BY <1>1, <1>2

LEMMA TokensAreStrong ==
    ASSUME TypeOK, NEW g \in TokenGuests
    PROVE  g \in Guests /\ Strong(stack, held, g)
BY DEF TokenGuests, Strong, OnStack, Activations, Frames

LEMMA BeginsShape ==
    ASSUME Standing, NEW g \in Guests,
           \/ Enter(g) \/ Reenter(g) \/ Callback \/ PollJobs(g)
           \/ RunJob(g) \/ RunGuestCode
    PROVE  Begins
<1>1. TypeOK /\ (entered = 0 <=> stack = <<>>) /\ (stack # <<>> => locked = TRUE)
  BY EmptyIffZero DEF Standing, IInv, Rooted, TypeOK
<1>2. stack # <<>> => Top \in FrameType /\ Top.guest \in Guests
  BY <1>1, TopFrame DEF FrameType
<1>3. CASE Enter(g)
  <2> DEFINE f == Frame("enter", g, entered = 0)
  <2>1. f \in FrameType /\ f.kind = "enter" /\ f.guest = g /\ f.locks = (entered = 0)
    BY DEF Frame, FrameType, HostKinds
  <2>2. stack' = Pushed(stack, f) /\ locked' /\ ~closed[g] /\ Strong(stack, held, g) /\ UNCHANGED guestVars
    BY <1>3 DEF Enter, Push, Pushed, EnterEngine
  <2> HIDE DEF f
  <2> QED
    BY <1>1, <2>1, <2>2 DEF Begins, EngineKinds
<1>4. CASE Reenter(g)
  <2> DEFINE f == Frame("reenter", g, FALSE)
  <2>1. f \in FrameType /\ f.kind = "reenter" /\ f.guest = g /\ ~f.locks
    BY DEF Frame, FrameType, HostKinds
  <2>2. /\ stack' = Pushed(stack, f) /\ locked' = locked /\ ~closed[g] /\ UNCHANGED guestVars /\ stack # <<>>
        /\ Strong(stack, held, g)
    BY <1>1, <1>4, TokensAreStrong DEF Reenter, Push, Pushed, TopIs
  <2> HIDE DEF f
  <2> QED
    BY <1>1, <2>1, <2>2 DEF Begins
<1>5. CASE Callback
  <2> DEFINE f == Frame("reenter", Top.guest, FALSE)
  <2>1. stack # <<>> /\ Top.guest \in Guests
    BY <1>2, <1>5 DEF Callback, JsRuns, TopIs
  <2>2. f \in FrameType /\ f.kind = "reenter" /\ f.guest = Top.guest /\ ~f.locks
    BY <2>1 DEF Frame, FrameType, HostKinds
  <2>3. /\ stack' = Pushed(stack, f) /\ locked' = locked /\ ~closed[Top.guest] /\ UNCHANGED guestVars
        /\ life[Top.guest] = "live"
    BY <1>5 DEF Callback, Push, Pushed
  <2> HIDE DEF f
  <2> QED
    BY <1>1, <2>1, <2>2, <2>3 DEF Begins
<1>6. CASE PollJobs(g)
  <2> DEFINE f == Frame("jobs", g, TRUE)
  <2>1. f \in FrameType /\ f.kind = "jobs" /\ f.guest = g /\ f.locks
    BY DEF Frame, FrameType, HostKinds
  <2>2. stack' = Pushed(stack, f) /\ locked' /\ entered = 0 /\ Strong(stack, held, g) /\ UNCHANGED guestVars
    BY <1>6 DEF PollJobs, Push, Pushed, EnterEngine
  <2> HIDE DEF f
  <2> QED
    BY <1>1, <2>1, <2>2 DEF Begins, EngineKinds, HostKinds
<1>7. CASE RunJob(g)
  <2> DEFINE f == Frame("js", g, FALSE)
  <2>1. f \in FrameType /\ f.kind = "js" /\ f.guest = g /\ ~f.locks
    BY DEF Frame, FrameType, HostKinds
  <2>2. stack' = Pushed(stack, f) /\ locked' = locked /\ UNCHANGED guestVars /\ stack # <<>>
    BY <1>7 DEF RunJob, Push, Pushed, TopIs, entryVars
  <2> HIDE DEF f
  <2> QED
    BY <1>1, <2>1, <2>2 DEF Begins, FrameKinds, EngineKinds, HostKinds
<1>8. CASE RunGuestCode
  <2> DEFINE f == Frame("js", Top.guest, FALSE)
  <2>1. stack # <<>> /\ Top.guest \in Guests
    BY <1>2, <1>8 DEF RunGuestCode, TopIs
  <2>2. f \in FrameType /\ f.kind = "js" /\ ~f.locks
    BY <2>1 DEF Frame, FrameType, HostKinds
  <2>3. stack' = Pushed(stack, f) /\ locked' = locked /\ UNCHANGED guestVars
    BY <1>8 DEF RunGuestCode, Push, Pushed, entryVars
  <2> HIDE DEF f
  <2> QED
    BY <1>1, <2>1, <2>2, <2>3 DEF Begins, FrameKinds, EngineKinds, HostKinds
<1> QED
  BY <1>3, <1>4, <1>5, <1>6, <1>7, <1>8

LEMMA EndsShape ==
    ASSUME Standing,
           \/ \E r \in {"ok"} \cup Errors : Return(r)
           \/ FinishJobs \/ JsReturn \/ JsThrows \/ Interrupt
    PROVE  Ends
<1>1. TypeOK /\ (stack # <<>> => Top \in FrameType)
  BY TopFrame DEF Standing, IInv
<1>2. ASSUME NEW r \in Results, Deliver(Below, r)
      PROVE  stack' = Popped(stack, r)
  BY <1>2 DEF Deliver, Below, Popped
<1>3. ASSUME NEW r \in {"ok"} \cup Errors, Return(r)
      PROVE  Ends
  <2>1. stack # <<>> /\ Top.kind \in HostKinds /\ r \in Results
    BY <1>3 DEF Return, TopIs, Results
  <2>2. Named(Top.guest, r) \in Results
    BY <1>1, <2>1, NamedResults DEF FrameType
  <2>3. locked' = (locked /\ ~(Top.kind \in EngineKinds /\ Top.locks))
    BY <1>1, <1>3, <2>1 DEF Return, LeaveEngine, HostKinds, EngineKinds, TypeOK, FrameType
  <2> DEFINE n == Named(Top.guest, r)
  <2>4. n \in Results /\ Deliver(Below, n) /\ UNCHANGED <<held, closed>> /\ Reap
    BY <1>3, <2>2 DEF Return
  <2> HIDE DEF n
  <2>5. stack' = Popped(stack, n)
    BY <1>2, <2>4
  <2> QED
    BY <2>1, <2>3, <2>4, <2>5 DEF Ends
<1>4. CASE FinishJobs
  <2> DEFINE r == IF Top.last = "none" THEN "ok" ELSE Top.last
  <2>1. stack # <<>> /\ Top.kind = "jobs" /\ r \in Results
    BY <1>1, <1>4 DEF FinishJobs, TopIs, FrameType, Results
  <2>2. Named(Top.guest, r) \in Results
    BY <1>1, <2>1, NamedResults DEF FrameType
  <2>3. locked' = (locked /\ ~(Top.kind \in EngineKinds /\ Top.locks))
    BY <1>1, <1>4, <2>1 DEF FinishJobs, LeaveEngine, EngineKinds, TypeOK, FrameType
  <2> DEFINE n == Named(Top.guest, r)
  <2>4. n \in Results /\ Deliver(Below, n) /\ UNCHANGED <<held, closed>> /\ Reap
    BY <1>4, <2>2 DEF FinishJobs
  <2> HIDE DEF r, n
  <2>5. stack' = Popped(stack, n)
    BY <1>2, <2>4
  <2> QED
    BY <2>1, <2>3, <2>4, <2>5 DEF Ends
<1>5. ASSUME NEW r \in Results, JsEnds(r), TopIs({"js"})
      PROVE  Ends
  <2>1. stack # <<>> /\ Top.kind = "js" /\ stack' = Popped(stack, r)
    BY <1>2, <1>5 DEF JsEnds, TopIs
  <2>2. locked' = locked /\ UNCHANGED <<held, closed, life, registry>> /\ locked \in BOOLEAN
    BY <1>1, <1>5 DEF JsEnds, guestVars, entryVars, TypeOK
  <2> QED
    BY <2>1, <2>2 DEF Ends, EngineKinds
<1>6. CASE JsReturn \/ JsThrows \/ Interrupt
  BY <1>5, <1>6 DEF JsReturn, JsThrows, Interrupt, JsRuns, Results, Errors
<1> QED
  BY <1>3, <1>4, <1>6

LEMMA StaysShape ==
    ASSUME Standing, NEW g \in Guests,
           \/ NewGuest(g) \/ GuestWithPolicy(g) \/ Close(g) \/ Release(g) \/ Retain
           \/ \E hooks \in BOOLEAN : CreateInsideEntry(g, hooks)
           \/ EnterClosed(g) \/ EnterDue(g) \/ ReenterRefused(g) \/ Check
           \/ PollJobsDue(g) \/ PollJobsEntered(g) \/ CallbackRefused
           \/ Tick \/ \E s \in Signals : Cancel(s)
           \/ UNCHANGED vars
    PROVE  Stays
<1>1. TypeOK /\ stack \in Seq(FrameType) /\ SameFrames(stack, stack)
  BY SameStack DEF Standing, IInv, TypeOK
<1>2. ASSUME stack' = stack, locked' = locked, UNCHANGED <<held, life, registry>>
      PROVE  Stays
  BY <1>1, <1>2 DEF Stays
<1>3. ASSUME NEW r \in Results, Deliver(stack, r), locked' = locked, UNCHANGED <<held, life, registry>>
      PROVE  Stays
  BY <1>1, <1>3, AnsweredStack DEF Stays
<1>4. CASE NewGuest(g) \/ GuestWithPolicy(g)
  BY <1>1, <1>4 DEF NewGuest, GuestWithPolicy, Create, Stays, entryVars
<1>5. CASE \E hooks \in BOOLEAN : CreateInsideEntry(g, hooks)
  BY <1>3, <1>5 DEF CreateInsideEntry, entryVars, Results, Errors
<1>6. CASE Close(g) \/ Tick \/ (\E s \in Signals : Cancel(s)) \/ UNCHANGED vars
  BY <1>2, <1>6 DEF Close, Tick, Cancel, vars, guestVars, entryVars
<1>7. CASE Release(g)
  BY <1>1, <1>7 DEF Release, Stays, entryVars
<1>8. CASE Retain
  <2> DEFINE h == Top.guest
  <2>1. stack # <<>> /\ h \in Guests /\ Top.kind \in HostKinds
    BY <1>1, <1>8, TopFrame DEF Retain, TopIs, FrameType
  <2>2. Strong(stack, held, h)
    <3>1. Len(stack) \in DOMAIN stack /\ stack[Len(stack)] = Top
      BY <1>1, <2>1, EmptySeq, LenProperties DEF Top
    <3> QED
      BY <2>1, <3>1 DEF Strong, OnStack, Activations, Frames
  <2>3. life[h] = "live" /\ h \in registry
    BY <2>1, <2>2 DEF Standing, Kept
  <2>4. held' = [held EXCEPT ![h] = TRUE] /\ UNCHANGED <<life, registry, stack, locked>>
    BY <1>8 DEF Retain, entryVars
  <2> HIDE DEF h
  <2>5. life' = [life EXCEPT ![h] = "live"] /\ registry' = registry \cup {h}
    BY <1>1, <2>1, <2>3, <2>4 DEF TypeOK
  <2> QED
    BY <1>1, <2>1, <2>4, <2>5 DEF Stays
<1>9. CASE EnterClosed(g) \/ EnterDue(g) \/ ReenterRefused(g) \/ Check
           \/ PollJobsDue(g) \/ PollJobsEntered(g) \/ CallbackRefused
  <2>1. ASSUME NEW r \in Results, Refuse(r)
        PROVE  Stays
    BY <1>3, <2>1 DEF Refuse, guestVars, entryVars
  <2>2. ASSUME NEW h \in Guests, RefuseDue(h)
        PROVE  Stays
    BY <2>1, <2>2 DEF RefuseDue, DueError, Results, Errors
  <2>3. CASE CallbackRefused
    <3>1. Top.guest \in Guests
      BY <1>1, <2>3, TopFrame DEF CallbackRefused, JsRuns, TopIs, FrameType
    <3> QED
      BY <2>1, <2>2, <2>3, <3>1 DEF CallbackRefused, Results, Errors
  <2> QED
    BY <1>9, <2>1, <2>2, <2>3
    DEF EnterClosed, EnterDue, ReenterRefused, Check, PollJobsDue, PollJobsEntered, Results, Errors
<1> QED
  BY <1>4, <1>5, <1>6, <1>7, <1>8, <1>9

LEMMA EngineShapes ==
    ASSUME Standing, [Next]_vars
    PROVE  Begins \/ Ends \/ Stays
<1>1. ASSUME NEW g \in Guests, GuestNext(g)
      PROVE  Begins \/ Ends \/ Stays
  BY <1>1, BeginsShape, StaysShape DEF GuestNext
<1>2. CASE Callback \/ RunGuestCode \/ Retain \/ Check \/ CallbackRefused
  <2>1. PICK g \in Guests : TRUE
    BY <1>2, TopFrame DEF Callback, RunGuestCode, Retain, Check, CallbackRefused, JsRuns, TopIs,
                          FrameType, Standing, IInv
  <2> QED
    BY <1>2, <2>1, BeginsShape, StaysShape
<1>3. CASE (\E r \in {"ok"} \cup Errors : Return(r)) \/ FinishJobs \/ JsReturn \/ JsThrows \/ Interrupt
  BY <1>3, EndsShape
<1>4. CASE Tick \/ (\E s \in Signals : Cancel(s)) \/ UNCHANGED vars
  <2>1. TypeOK /\ stack \in Seq(FrameType) /\ SameFrames(stack, stack)
    BY SameStack DEF Standing, IInv, TypeOK
  <2> QED
    BY <1>4, <2>1 DEF Tick, Cancel, vars, guestVars, entryVars, Stays
<1> QED
  BY <1>1, <1>2, <1>3, <1>4 DEF Next

-----------------------------------------------------------------------------
(* The frames of the next stack are frames of the stack, or the one pushed. *)

LEMMA FramesOfNext ==
    ASSUME TypeOK, Ends \/ Stays, NEW K, NEW G
    PROVE  Frames(stack', K, G) \subseteq Frames(stack, K, G)
<1>1. stack \in Seq(FrameType)
  BY DEF TypeOK
<1>2. CASE Ends
  <2>1. PICK r \in Results : stack' = Popped(stack, r)
    BY <1>2 DEF Ends
  <2>2. stack # <<>> /\ r \in Results \cup {"none"}
    BY <1>2 DEF Ends
  <2>3. /\ Len(stack) \in Nat \ {0} /\ stack' \in Seq(FrameType) /\ Len(stack') = Len(stack) - 1
        /\ \A i \in 1 .. (Len(stack) - 1) :
              stack'[i].kind = stack[i].kind /\ stack'[i].guest = stack[i].guest
    BY <1>1, <2>1, <2>2, PoppedStack
  <2>4. DOMAIN stack' = 1 .. (Len(stack) - 1) /\ DOMAIN stack = 1 .. Len(stack)
    BY <1>1, <2>3, LenProperties
  <2> QED
    BY <2>3, <2>4 DEF Frames
<1>3. CASE Stays
  BY <1>1, <1>3, SameCounts DEF Stays
<1> QED
  BY <1>2, <1>3

LEMMA RootedStep ==
    ASSUME Standing, Begins \/ Ends \/ Stays
    PROVE  Rooted'
<1>1. stack \in Seq(FrameType) /\ Len(stack) \in Nat /\ (stack = <<>> <=> Len(stack) = 0) /\ locked \in BOOLEAN
  BY EmptySeq, LenProperties DEF Standing, IInv, TypeOK
<1>2. /\ stack # <<>> => stack[1].kind \in EngineKinds /\ stack[1].locks
      /\ \A i \in 1 .. Len(stack) : stack[i].locks => i = 1
      /\ locked <=> stack # <<>>
  BY DEF Standing, Rooted
<1>3. CASE Begins
  <2>1. PICK f \in FrameType :
          /\ stack' = Pushed(stack, f)
          /\ IF stack = <<>> THEN f.kind \in EngineKinds /\ f.locks ELSE ~f.locks
          /\ locked'
    BY <1>3 DEF Begins
  <2>2. /\ stack' # <<>> /\ Len(stack') = Len(stack) + 1 /\ stack'[Len(stack) + 1] = f
        /\ \A i \in 1 .. Len(stack) : /\ stack'[i].kind = stack[i].kind
                                      /\ stack'[i].locks = stack[i].locks
    <3> DEFINE t == Pushed(stack, f)
    <3>1. /\ t # <<>> /\ Len(t) = Len(stack) + 1 /\ t[Len(stack) + 1] = f
          /\ \A i \in 1 .. Len(stack) : t[i].kind = stack[i].kind /\ t[i].locks = stack[i].locks
      BY <1>1, PushedStack
    <3>2. stack' = t
      BY <2>1
    <3> HIDE DEF t
    <3> QED
      BY <3>1, <3>2
  <2>3. stack'[1].kind \in EngineKinds /\ stack'[1].locks
    BY <1>1, <1>2, <2>1, <2>2
  <2>4. \A i \in 1 .. Len(stack') : stack'[i].locks => i = 1
    BY <1>1, <1>2, <2>1, <2>2
  <2> QED
    BY <2>1, <2>2, <2>3, <2>4 DEF Rooted
<1>4. CASE Ends
  <2>1. PICK r \in Results : stack' = Popped(stack, r)
    BY <1>4 DEF Ends
  <2>2. stack # <<>> /\ r \in Results \cup {"none"} /\ Top = stack[Len(stack)]
        /\ locked' = (locked /\ ~(Top.kind \in EngineKinds /\ Top.locks))
    BY <1>4 DEF Ends, Top
  <2>3. /\ stack' \in Seq(FrameType) /\ Len(stack') = Len(stack) - 1
        /\ \A i \in 1 .. (Len(stack) - 1) : /\ stack'[i].kind = stack[i].kind
                                            /\ stack'[i].locks = stack[i].locks
    BY <1>1, <2>1, <2>2, PoppedStack
  <2>4. stack' = <<>> <=> Len(stack) = 1
    BY <1>1, <2>2, <2>3, EmptySeq
  <2>5. locked' <=> Len(stack) # 1
    <3>1. Len(stack) = 1 => Top.kind \in EngineKinds /\ Top.locks
      BY <1>2, <2>2
    <3>2. Top.locks => Len(stack) = 1
      <4>1. Len(stack) \in 1 .. Len(stack)
        BY <1>1, <2>2
      <4>2. stack[Len(stack)].locks => Len(stack) = 1
        BY <1>2, <4>1, Zenon
      <4> QED
        BY <2>2, <4>2, Zenon
    <3> QED
      BY <1>2, <2>2, <3>1, <3>2, Zenon
  <2>6. \A i \in 1 .. Len(stack') : stack'[i].locks => i = 1
    BY <1>1, <1>2, <2>3
  <2>7. Len(stack) # 1 => stack'[1].kind \in EngineKinds /\ stack'[1].locks
    BY <1>1, <1>2, <2>2, <2>3
  <2> QED
    BY <2>4, <2>5, <2>6, <2>7 DEF Rooted
<1>5. CASE Stays
  <2>1. stack' \in Seq(FrameType) /\ SameFrames(stack, stack') /\ locked' = locked
    BY <1>5 DEF Stays
  <2>2. stack' = <<>> <=> stack = <<>>
    BY <1>1, <2>1, EmptySeq DEF SameFrames
  <2> QED
    BY <1>1, <1>2, <2>1, <2>2 DEF Rooted, SameFrames
<1> QED
  BY <1>3, <1>4, <1>5

\* Who is alive after the last handles are gone.
LEMMA ReapKeeps ==
    ASSUME TypeOK, Kept, Reap,
           \A g \in Guests : Strong(stack', held', g) => Strong(stack, held, g)
    PROVE  Kept'
<1> DEFINE gone == {g \in Guests : life[g] = "live" /\ ~Strong(stack', held', g)}
<1>1. /\ life' = [g \in Guests |-> IF g \in gone THEN "dropped" ELSE life[g]]
      /\ registry' = registry \ gone
  BY DEF Reap
<1>2. \A g \in Guests : Strong(stack', held', g) => life'[g] = "live"
  BY <1>1 DEF Kept
<1>3. registry' = {g \in Guests : life'[g] = "live"}
  BY <1>1 DEF Kept
<1> QED
  BY <1>2, <1>3 DEF Kept, Strong

LEMMA KeptStep ==
    ASSUME Standing, Begins \/ Ends \/ Stays
    PROVE  Kept'
<1>1. /\ stack \in Seq(FrameType) /\ held \in [Guests -> BOOLEAN] /\ TypeOK /\ Kept
      /\ life \in [Guests -> {"unborn", "live", "dropped"}]
  BY DEF Standing, IInv, TypeOK
<1>2. CASE Begins
  <2>1. PICK f \in FrameType :
          /\ stack' = Pushed(stack, f)
          /\ f.kind \in FrameKinds => Strong(stack, held, f.guest) \/ life[f.guest] = "live"
          /\ UNCHANGED guestVars
    BY <1>2 DEF Begins
  <2>2. ASSUME NEW g \in Guests, OnStack(stack', g), ~OnStack(stack, g)
        PROVE  f.kind \in FrameKinds /\ f.guest = g
    <3> DEFINE t == Pushed(stack, f)
    <3>1. ~(f.kind \in FrameKinds /\ f.guest \in {g}) => Frames(t, FrameKinds, {g}) = Frames(stack, FrameKinds, {g})
      BY <1>1, PushedFrames
    <3>2. stack' = t
      BY <2>1
    <3> HIDE DEF t
    <3> QED
      BY <2>2, <3>1, <3>2 DEF OnStack, Activations, FrameKinds
  <2>3. held' = held /\ life' = life /\ registry' = registry
    BY <2>1 DEF guestVars
  <2>4. \A g \in Guests : Strong(stack', held', g) => life'[g] = "live"
    BY <1>1, <2>1, <2>2, <2>3 DEF Kept, Strong
  <2> QED
    BY <1>1, <2>3, <2>4 DEF Kept, Strong
<1>3. ASSUME Ends \/ Stays, NEW g \in Guests, OnStack(stack', g)
      PROVE  OnStack(stack, g)
  BY <1>1, <1>3, FramesOfNext DEF OnStack, Activations
<1>4. CASE Ends
  <2>1. \A g \in Guests : Strong(stack', held', g) => Strong(stack, held, g)
    BY <1>3, <1>4 DEF Ends, Strong
  <2>2. CASE Reap
    BY <1>1, <2>1, <2>2, ReapKeeps
  <2>3. CASE UNCHANGED <<life, registry>>
    BY <1>1, <2>1, <2>3 DEF Kept, Strong
  <2> QED
    BY <1>4, <2>2, <2>3 DEF Ends
<1>5. CASE Stays
  <2>1. CASE UNCHANGED <<held, life, registry>>
    BY <1>1, <1>3, <1>5, <2>1 DEF Kept, Strong
  <2>2. ASSUME NEW g \in Guests,
               held' = [held EXCEPT ![g] = TRUE], life' = [life EXCEPT ![g] = "live"],
               registry' = registry \cup {g}
        PROVE  Kept'
    <3>1. \A h \in Guests : h # g => held'[h] = held[h] /\ life'[h] = life[h]
      BY <1>1, <2>2
    <3>2. life'[g] = "live"
      BY <1>1, <2>2
    <3>3. \A h \in Guests : Strong(stack', held', h) => life'[h] = "live"
      BY <1>1, <1>3, <1>5, <3>1, <3>2 DEF Kept, Strong
    <3> QED
      BY <1>1, <2>2, <3>1, <3>2, <3>3 DEF Kept, Strong
  <2>3. ASSUME NEW g \in Guests, held' = [held EXCEPT ![g] = FALSE], Reap
        PROVE  Kept'
    <3>1. \A h \in Guests : held'[h] => held[h]
      BY <1>1, <2>3
    <3>2. \A h \in Guests : Strong(stack', held', h) => Strong(stack, held, h)
      BY <1>3, <1>5, <3>1 DEF Strong
    <3> QED
      BY <1>1, <2>3, <3>2, ReapKeeps
  <2> QED
    BY <1>5, <2>1, <2>2, <2>3 DEF Stays
<1> QED
  BY <1>2, <1>4, <1>5

-----------------------------------------------------------------------------
(* The interrupt condition *)

\* A policy that restricts its guest comes with the condition, which stays.
LEMMA PoliciesAreHooked ==
    ASSUME Standing, [Next]_vars
    PROVE  /\ hooked => hooked'
           /\ \A g \in Guests : Restricted(policy'[g]) => hooked'
<1>1. /\ policy \in [Guests -> PolicyType] /\ TypeOK /\ hooked \in BOOLEAN
      /\ \A g \in Guests : Restricted(policy[g]) => hooked
  BY DEF Standing, Hooks, IInv, TypeOK
<1>2. CASE policy' = policy /\ (hooked => hooked')
  BY <1>1, <1>2
<1>3. ASSUME NEW g \in Guests, NEW p, NEW hooks \in BOOLEAN, Create(g, p, hooks),
             Restricted(p) => hooks
      PROVE  (hooked => hooked') /\ \A h \in Guests : Restricted(policy'[h]) => hooked'
  <2>1. policy' = [policy EXCEPT ![g] = p] /\ hooked' = (hooked \/ hooks)
    BY <1>3 DEF Create
  <2>2. \A h \in Guests : policy'[h] = IF h = g THEN p ELSE policy[h]
    BY <1>1, <2>1
  <2> QED
    BY <1>1, <1>3, <2>1, <2>2
<1>4. ASSUME NEW g \in Guests, NewGuest(g) \/ GuestWithPolicy(g)
      PROVE  (hooked => hooked') /\ \A h \in Guests : Restricted(policy'[h]) => hooked'
  <2>1. ~Restricted(DefaultPolicy)
    BY DEF Restricted, DefaultPolicy
  <2> QED
    BY <1>3, <1>4, <2>1 DEF NewGuest, GuestWithPolicy
<1>5. ASSUME ~ \E g \in Guests : NewGuest(g) \/ GuestWithPolicy(g)
      PROVE  policy' = policy /\ (hooked => hooked')
  <2>1. CASE UNCHANGED <<policy, hooked>>
    BY <2>1
  <2>2. ASSUME NEW r, Refuse(r)
        PROVE  UNCHANGED <<policy, hooked>>
    BY <2>2 DEF Refuse, guestVars
  <2>3. ASSUME NEW g \in Guests, GuestNext(g)
        PROVE  policy' = policy /\ (hooked => hooked')
    <3>1. CASE (\E hooks \in BOOLEAN : CreateInsideEntry(g, hooks)) \/ Close(g) \/ Release(g)
      <4>1. ASSUME NEW hooks \in BOOLEAN, CreateInsideEntry(g, hooks)
            PROVE  policy' = policy /\ (hooked => hooked')
        <5>1. policy' = policy /\ hooked' = (hooked \/ hooks)
          BY <4>1 DEF CreateInsideEntry
        <5> QED
          BY <5>1, Zenon
      <4>2. CASE Close(g) \/ Release(g)
        BY <4>2 DEF Close, Release
      <4> QED
        BY <3>1, <4>1, <4>2
    <3>2. CASE EnterClosed(g) \/ EnterDue(g) \/ ReenterRefused(g) \/ PollJobsDue(g) \/ PollJobsEntered(g)
      BY <2>2, <3>2 DEF EnterClosed, EnterDue, ReenterRefused, PollJobsDue, PollJobsEntered, RefuseDue
    <3>3. CASE Enter(g) \/ Reenter(g) \/ PollJobs(g) \/ RunJob(g)
      <4>1. UNCHANGED guestVars
        BY <3>3, Zenon DEF Enter, Reenter, PollJobs, RunJob
      <4> QED
        BY <4>1 DEF guestVars
    <3> QED
      BY <1>5, <2>3, <3>1, <3>2, <3>3 DEF GuestNext
  <2>4. CASE Check \/ CallbackRefused
    BY <2>2, <2>4 DEF Check, CallbackRefused, RefuseDue
  <2>5. CASE \/ \E r \in {"ok"} \cup Errors : Return(r)
             \/ Retain \/ FinishJobs \/ RunGuestCode \/ Callback \/ JsReturn \/ JsThrows \/ Interrupt
             \/ Tick \/ (\E s \in Signals : Cancel(s)) \/ UNCHANGED vars
    <3>1. UNCHANGED guestVars \/ UNCHANGED <<policy, hooked>>
      <4>1. CASE (\E r \in {"ok"} \cup Errors : Return(r)) \/ Retain \/ FinishJobs
        BY <4>1 DEF Return, Retain, FinishJobs
      <4>2. CASE RunGuestCode \/ Callback \/ JsReturn \/ JsThrows \/ Interrupt
        BY <4>2, Zenon DEF RunGuestCode, Callback, JsReturn, JsThrows, Interrupt, JsEnds
      <4>3. CASE Tick \/ (\E s \in Signals : Cancel(s)) \/ UNCHANGED vars
        BY <4>3, Zenon DEF Tick, Cancel, vars
      <4> QED
        BY <2>5, <4>1, <4>2, <4>3
    <3> QED
      BY <3>1 DEF guestVars
  <2> QED
    BY <2>3, <2>4, <2>5 DEF Next
<1> QED
  BY <1>2, <1>4, <1>5

\* What is armed was armed before, or is the policy of an activation that begins.
LEMMA ArmedFromPolicy ==
    ASSUME TypeOK, Shapes, NEW g \in Guests
    PROVE  armed'[g] \subseteq armed[g] \cup {Arm(policy[g])}
<1>1. armed \in [Guests -> SUBSET ArmedType] /\ (stack # <<>> => Top.guest \in Guests)
  BY TopFrame DEF TypeOK, FrameType
<1>2. CASE Waits \/ Answers \/ CallsGuestCode \/ GuestCodeEnds
  BY <1>2 DEF Waits, Answers, CallsGuestCode, GuestCodeEnds, entryVars
<1>3. CASE Opens
  <2>1. PICK f \in FrameType : Begin(f.guest)
    BY <1>3 DEF Opens
  <2>2. f.guest \in Guests
    BY DEF FrameType
  <2> DEFINE h == f.guest
             a == Arm(policy[h])
  <2>3. h \in Guests /\ (armed' = armed \/ armed' = [armed EXCEPT ![h] = {a}])
    BY <2>1, <2>2 DEF Begin
  <2>4. h = g => a = Arm(policy[g])
    OBVIOUS
  <2> HIDE DEF h, a
  <2> QED
    BY <1>1, <2>3, <2>4
<1>4. CASE Closes
  <2> DEFINE h == Top.guest
  <2>1. h \in Guests /\ (armed' = armed \/ armed' = [armed EXCEPT ![h] = {}])
    BY <1>1, <1>4 DEF Closes, Finish, TopIs
  <2> HIDE DEF h
  <2> QED
    BY <1>1, <2>1
<1> QED
  BY <1>2, <1>3, <1>4 DEF Shapes

LEMMA HooksStep ==
    ASSUME Standing, [Next]_vars
    PROVE  Hooks'
<1>1. TypeOK /\ Shapes
  BY StepShapes DEF Standing, IInv
<1>2. (hooked => hooked') /\ \A g \in Guests : Restricted(policy'[g]) => hooked'
  BY PoliciesAreHooked
<1>3. ASSUME NEW g \in Guests, NEW a \in armed'[g], Armed(a)
      PROVE  hooked'
  <2>1. a \in armed[g] \/ a = Arm(policy[g])
    BY <1>1, <1>3, ArmedFromPolicy
  <2>2. CASE a \in armed[g]
    BY <1>2, <1>3, <2>2 DEF Standing, Hooks
  <2>3. CASE a = Arm(policy[g])
    <3>1. Restricted(policy[g])
      BY <1>3, <2>3 DEF Armed, Arm, Restricted
    <3> QED
      BY <1>2, <3>1 DEF Standing, Hooks
  <2> QED
    BY <2>1, <2>2, <2>3
<1> QED
  BY <1>2, <1>3 DEF Hooks, Restricted, Armed

-----------------------------------------------------------------------------

LEMMA InitStanding ==
    ASSUME Init
    PROVE  Standing
<1>1. IInv
  BY InitIInv
<1>2. stack = <<>> /\ Len(stack) = 0 /\ DOMAIN stack = {}
  BY EmptySeq DEF Init
<1>3. Rooted
  BY <1>2 DEF Init, Rooted
<1>4. Kept
  BY <1>2 DEF Init, Kept, Strong, OnStack, Activations, Frames
<1>5. Hooks
  BY DEF Init, Hooks, Restricted, DefaultPolicy
<1> QED
  BY <1>1, <1>3, <1>4, <1>5 DEF Standing

LEMMA StepStanding ==
    ASSUME Standing, [Next]_vars
    PROVE  Standing'
<1>1. IInv'
  BY StepIInv DEF Standing
<1> QED
  BY <1>1, EngineShapes, RootedStep, KeptStep, HooksStep DEF Standing

LEMMA AlwaysStanding == Spec => []Standing
  BY InitStanding, StepStanding, PTL DEF Spec

\* Engine::enter and poll_jobs: whatever the nesting, the runtime lock is held while
\* and only while an entry is open, guest code runs under it, and the interrupt
\* handler sees every armed policy that can become due.
THEOREM EngineAlwaysFollowsEntries == Spec => []EngineFollowsEntries
<1>1. Standing => EngineFollowsEntries
  <2> SUFFICES ASSUME Standing
               PROVE  EngineFollowsEntries
    OBVIOUS
  <2>1. TypeOK /\ ActivationsBalanced /\ EntriesCounted /\ Rooted /\ Kept /\ Hooks
    BY DEF Standing, IInv
  <2>2. locked <=> entered > 0
    BY <2>1, EmptyIffZero DEF Rooted, TypeOK
  <2>3. (\E i \in DOMAIN stack : stack[i].kind = "js") => locked
    BY <2>1, EmptySeq DEF Rooted
  <2>4. ASSUME NEW g \in Guests, armed[g] # {}
        PROVE  /\ life[g] = "live" /\ g \in registry
               /\ (\E a \in armed[g] : a.deadline # {} \/ a.signal # {}) => hooked
    <3>1. depth[g] # 0 /\ depth[g] = Cardinality(Activations(stack, g))
      BY <2>1, <2>4 DEF ActivationsBalanced
    <3>2. OnStack(stack, g)
      BY <2>1, <3>1, FiniteFrames DEF TypeOK, OnStack, Activations
    <3>3. life[g] = "live" /\ g \in registry
      BY <2>1, <3>2 DEF Kept, Strong
    <3> QED
      BY <2>1, <3>3 DEF Hooks, Armed
  <2> QED
    BY <2>1, <2>2, <2>3, <2>4 DEF EngineFollowsEntries, EntriesCounted
<1> QED
  BY <1>1, AlwaysStanding, PTL

\* Guest::close: a closed guest gets no further host closure or callback, from no
\* entry, job or token, for any number of guests and any nesting.
THEOREM ClosedAlwaysOnlyUnwinds == Spec => ClosedOnlyUnwinds
<1> DEFINE Unwinds == \A g \in Guests :
                 closed[g] => Frames(stack', HostKinds, {g}) \subseteq Frames(stack, HostKinds, {g})
<1>1. ASSUME Standing, [Next]_vars
      PROVE  [Unwinds]_vars
  <2>1. TypeOK /\ stack \in Seq(FrameType)
    BY <1>1 DEF Standing, IInv, TypeOK
  <2>2. CASE Begins
    <3>1. PICK f \in FrameType :
            /\ stack' = Pushed(stack, f)
            /\ f.kind \in HostKinds => ~closed[f.guest]
      BY <2>2 DEF Begins
    <3>2. ASSUME NEW g \in Guests, closed[g]
          PROVE  Frames(stack', HostKinds, {g}) \subseteq Frames(stack, HostKinds, {g})
      <4>1. ~(f.kind \in HostKinds /\ f.guest \in {g})
        BY <3>1, <3>2
      <4> QED
        BY <2>1, <3>1, <4>1, PushedFrames
    <3> QED
      BY <3>2
  <2>3. CASE Ends \/ Stays
    BY <2>1, <2>3, FramesOfNext
  <2> QED
    BY <1>1, <2>2, <2>3, EngineShapes
<1> QED
  BY <1>1, AlwaysStanding, PTL DEF Spec, ClosedOnlyUnwinds
=============================================================================
