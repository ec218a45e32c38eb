------------------------- MODULE ControlFlowProofs -------------------------
(***************************************************************************)
(* Unwinding, for any script: whatever is nested, a break, continue or     *)
(* return finds the frame it is for, and nobody else takes it.             *)
(***************************************************************************)
EXTENDS ControlFlow, FiniteSetTheorems, WellFoundedInduction, TLAPS

-----------------------------------------------------------------------------
(* Bounded sets of naturals *)

\* A nonempty set of naturals has a least element.
LEMMA LeastExists ==
    ASSUME NEW S, S \subseteq Nat, S /= {}
    PROVE  \E m \in S : \A n \in S : m <= n
<1>1. PICK m \in S : \A n \in S : <<n, m>> \notin OpToRel(<, Nat)
  BY NatLessThanWellFounded, WFMin
<1>2. \A n \in S : ~(n < m)
  BY <1>1 DEF OpToRel
<1> QED BY <1>2

\* A nonempty subset of 1 .. n has a greatest element.
LEMMA GreatestExists ==
    ASSUME NEW n \in Nat, NEW S, S \subseteq 1 .. n, S /= {}
    PROVE  \E m \in S : \A k \in S : k <= m
<1> DEFINE Mirror == {n - k : k \in S}
<1>1. \A k \in S : n - k \in Nat
  OBVIOUS
<1>2. Mirror \subseteq Nat /\ Mirror /= {}
  BY <1>1
<1> HIDE DEF Mirror
<1>3. PICK least \in Mirror : \A k \in Mirror : least <= k
  BY <1>2, LeastExists
<1>4. PICK m \in S : least = n - m
  BY <1>3 DEF Mirror
<1>5. \A k \in S : n - m <= n - k
  BY <1>3, <1>4 DEF Mirror
<1> QED BY <1>5

From(S, k) == {j \in S : j >= k}

LEMMA FromFinite ==
    ASSUME NEW n \in Nat, NEW S, S \subseteq 1 .. n, NEW k
    PROVE  /\ IsFiniteSet(S) /\ Cardinality(S) \in Nat
           /\ IsFiniteSet(From(S, k)) /\ Cardinality(From(S, k)) \in Nat
<1>1. IsFiniteSet(1 .. n)
  BY FS_Interval
<1>2. From(S, k) \subseteq 1 .. n
  BY DEF From
<1> QED BY <1>1, <1>2, FS_Subset, FS_CardinalityType

\* The mth element of a set, counted from its greatest.
LEMMA NthFromTop ==
    ASSUME NEW n \in Nat, NEW S, S \subseteq 1 .. n, NEW m \in Nat \ {0}, m <= Cardinality(S)
    PROVE  \E i \in S : Cardinality(From(S, i)) = m
<1> DEFINE T == {k \in 1 .. n : Cardinality(From(S, k)) >= m}
<1>0. \A k : IsFiniteSet(From(S, k)) /\ Cardinality(From(S, k)) \in Nat
  BY FromFinite
<1>1. T /= {}
  <2>1. From(S, 1) = S
    <3>1. \A j \in S : j >= 1
      OBVIOUS
    <3> QED BY <3>1 DEF From
  <2>2. n /= 0
    <3>1. SUFFICES ASSUME n = 0 PROVE FALSE
      OBVIOUS
    <3>2. S = {}
      BY <3>1
    <3> QED BY <3>2, FS_EmptySet
  <2>3. 1 \in T
    BY <2>1, <2>2
  <2> QED BY <2>3
<1>2. PICK i \in T : \A k \in T : k <= i
  <2>1. T \subseteq 1 .. n
    OBVIOUS
  <2> HIDE DEF T
  <2> QED BY <1>1, <2>1, GreatestExists
<1>3. Cardinality(From(S, i + 1)) < m
  <2>1. CASE i + 1 <= n
    <3>1. i + 1 \in 1 .. n /\ i + 1 \notin T
      BY <1>2, <2>1
    <3> QED BY <1>0, <3>1
  <2>2. CASE i + 1 > n
    <3>1. \A j \in S : ~(j >= i + 1)
      BY <1>2, <2>2
    <3>2. From(S, i + 1) = {}
      BY <3>1 DEF From
    <3> QED BY <3>2, FS_EmptySet
  <2> QED BY <1>2, <2>1, <2>2
<1>4. From(S, i + 1) = From(S, i) \ {i}
  <2>1. \A j \in S : j >= i + 1 <=> j >= i /\ j /= i
    BY <1>2
  <2> QED BY <2>1 DEF From
<1>5. Cardinality(From(S, i + 1)) = IF i \in From(S, i) THEN Cardinality(From(S, i)) - 1
                                     ELSE Cardinality(From(S, i))
  BY <1>0, <1>4, FS_RemoveElement
<1>6. Cardinality(From(S, i)) >= m /\ Cardinality(From(S, i)) \in Nat
  BY <1>0, <1>2
<1>7. i \in From(S, i)
  BY <1>3, <1>5, <1>6
<1>8. Cardinality(From(S, i)) = m
  BY <1>3, <1>5, <1>6, <1>7
<1> QED BY <1>7, <1>8 DEF From

-----------------------------------------------------------------------------
(* Types *)

Kinds == {"block", "list", "semicolons", "compact", "while", "for", "if", "case", "function", "trap"}
LoopKinds == {"while", "for"}
Steps == {"line", "structured", "next", "command", "after", "inline", "head", "condition", "checked",
          "body", "branch", "done", "trailing"}
Requests == {r \in [kind : {"none", "break", "continue", "return"}, levels : Nat, status : Int, aim : Nat] :
                r.kind = "none" => r = NoRequest}
Results == [code : Int, exempt : BOOLEAN]
Frames == [kind : Kinds, step : Steps, code : Int, more : BOOLEAN, exempt : BOOLEAN, saved : Requests]

Typed == stack \in Seq(Frames) /\ ret \in Results /\ flow \in Requests /\ exiting \in BOOLEAN

LEMMA RequestFields ==
    ASSUME NEW r \in Requests
    PROVE  /\ r.kind \in {"none", "break", "continue", "return"} /\ r.levels \in Nat /\ r.status \in Int
           /\ r.aim \in Nat /\ (r.kind = "none" => r = NoRequest)
BY DEF Requests

LEMMA NoRequestTyped == NoRequest \in Requests /\ NoRequest.kind = "none" /\ NoRequest.aim = 0
BY DEF NoRequest, Requests

LEMMA NewFrame ==
    ASSUME NEW kind \in Kinds, NEW step \in Steps
    PROVE  Frame(kind, step) \in Frames /\ Frame(kind, step).kind = kind
BY NoRequestTyped DEF Frame, Frames, Success

LEMMA NewBlock ==
    Block \in Seq(Frames) /\ Len(Block) = 1 /\ \A i \in DOMAIN Block : Block[i].kind = "block"
<1> DEFINE f == Frame("block", "line")
<1>1. f \in Frames /\ f.kind = "block"
  BY NewFrame DEF Kinds, Steps
<1> HIDE DEF f
<1>2. Block = <<f>>
  BY DEF Block, f
<1> QED BY <1>1, <1>2

LEMMA TopOf ==
    ASSUME stack \in Seq(Frames), stack /= <<>>
    PROVE  /\ Len(stack) \in Nat \ {0} /\ DOMAIN stack = 1 .. Len(stack)
           /\ Top = stack[Len(stack)] /\ Top \in Frames /\ Len(stack) \in DOMAIN stack
<1>1. Len(stack) \in Nat \ {0} /\ DOMAIN stack = 1 .. Len(stack)
  OBVIOUS
<1>2. Len(stack) \in DOMAIN stack
  BY <1>1
<1> QED BY <1>1, <1>2 DEF Top

LEMMA BecomeOf ==
    ASSUME stack \in Seq(Frames), stack /= <<>>, NEW f \in Frames
    PROVE  /\ Become(f) \in Seq(Frames) /\ Len(Become(f)) = Len(stack) /\ Become(f) /= <<>>
           /\ Become(f)[Len(stack)] = f
           /\ \A i \in 1 .. (Len(stack) - 1) : Become(f)[i] = stack[i]
<1> DEFINE new == Become(f)
<1>1. Len(stack) \in Nat \ {0} /\ DOMAIN stack = 1 .. Len(stack)
  OBVIOUS
<1>2. new \in Seq(Frames)
  BY <1>1 DEF Become
<1>3. Len(new) = Len(stack)
  BY <1>1 DEF Become
<1>4. DOMAIN new = DOMAIN stack /\ new[Len(stack)] = f /\ \A i \in 1 .. (Len(stack) - 1) : new[i] = stack[i]
  <2>1. DOMAIN new = DOMAIN stack
    BY DEF Become
  <2>2. \A n \in Nat \ {0} : n \in 1 .. n /\ \A i \in 1 .. (n - 1) : i \in 1 .. n /\ i /= n
    OBVIOUS
  <2>3. Len(stack) \in DOMAIN stack /\ \A i \in 1 .. (Len(stack) - 1) : i \in DOMAIN stack /\ i /= Len(stack)
    BY <1>1, <2>2, Zenon
  <2> QED BY <2>1, <2>3 DEF Become
<1> HIDE DEF new
<1>5. new /= <<>>
  BY <1>1, <1>2, <1>3
<1> QED BY <1>2, <1>3, <1>4, <1>5 DEF new

Pop == SubSeq(stack, 1, Len(stack) - 1)

LEMMA PopOf ==
    ASSUME stack \in Seq(Frames), stack /= <<>>
    PROVE  /\ Pop \in Seq(Frames) /\ Len(Pop) = Len(stack) - 1
           /\ \A i \in 1 .. (Len(stack) - 1) : Pop[i] = stack[i]
<1>1. Len(stack) \in Nat \ {0} /\ DOMAIN stack = 1 .. Len(stack)
  OBVIOUS
<1> QED BY <1>1 DEF Pop

LEMMA ConcatOf ==
    ASSUME NEW base \in Seq(Frames), NEW more \in Seq(Frames)
    PROVE  /\ base \o more \in Seq(Frames) /\ Len(base \o more) = Len(base) + Len(more)
           /\ \A i \in 1 .. Len(base) : (base \o more)[i] = base[i]
           /\ \A i \in 1 .. Len(more) : (base \o more)[Len(base) + i] = more[i]
OBVIOUS

-----------------------------------------------------------------------------
(* What a request waits for *)

IsLoop(frame) == frame.kind \in LoopKinds /\ frame.step \notin {"done", "trailing"}
IsOpen(frame) == IsLoop(frame) /\ frame.step \in {"condition", "body"}
LoopsTo(frames, n) == {i \in 1 .. n : IsLoop(frames[i])}
OpenTo(frames, n) == {i \in 1 .. n : IsOpen(frames[i])}
FunctionsTo(frames, n) == {i \in 1 .. n : frames[i].kind = "function"}

\* The frame of a request is among the first n and waits for it: it is the innermost function of
\* them; or it is a loop, there is a level for every loop from it on, and each of these loops has
\* its LoopScope open.  The last part is what RequestsAreAwaited lacks to be inductive: a loop at
\* its own poll would go on, and take no level.
Due(request, frames, n) ==
    /\ request.kind = "return" =>
          /\ request.aim \in FunctionsTo(frames, n)
          /\ \A j \in FunctionsTo(frames, n) : j <= request.aim
    /\ request.kind \in {"break", "continue"} =>
          /\ request.aim \in LoopsTo(frames, n)
          /\ Cardinality(From(LoopsTo(frames, n), request.aim)) = request.levels
          /\ From(LoopsTo(frames, n), request.aim) \subseteq OpenTo(frames, n)

FlowDue == ~exiting /\ Pending /\ flow.aim /= 0 => Due(flow, stack, Len(stack))
SavedDue ==
    ~exiting => \A i \in DOMAIN stack :
                   stack[i].kind = "trap" /\ stack[i].saved.aim /= 0 => Due(stack[i].saved, stack, i - 1)

LEMMA ScopesOf ==
    ASSUME NEW frames \in Seq(Frames)
    PROVE  /\ Loops(frames) = LoopsTo(frames, Len(frames))
           /\ LoopScopes(frames) = OpenTo(frames, Len(frames))
           /\ ReturnScopes(frames) = FunctionsTo(frames, Len(frames))
<1>1. DOMAIN frames = 1 .. Len(frames)
  OBVIOUS
<1>2. Loops(frames) = LoopsTo(frames, Len(frames))
  BY <1>1, Zenon DEF Loops, LoopsTo, IsLoop, LoopKinds
<1>3. LoopScopes(frames) = {i \in LoopsTo(frames, Len(frames)) : frames[i].step \in {"condition", "body"}}
  BY <1>2, Zenon DEF LoopScopes
<1>4. LoopScopes(frames) = OpenTo(frames, Len(frames))
  BY <1>3 DEF LoopsTo, OpenTo, IsOpen
<1> QED BY <1>1, <1>2, <1>4 DEF ReturnScopes, FunctionsTo

\* A request is due in other frames where it sees the same functions, or the same loops.
LEMMA DueElsewhere ==
    ASSUME NEW r, NEW frames, NEW n, NEW frames2, NEW n2, Due(r, frames, n),
           r.kind = "return" => FunctionsTo(frames2, n2) = FunctionsTo(frames, n),
           r.kind \in {"break", "continue"} =>
              LoopsTo(frames2, n2) = LoopsTo(frames, n) /\ OpenTo(frames, n) \subseteq OpenTo(frames2, n2)
    PROVE  Due(r, frames2, n2)
BY DEF Due

LEMMA DueBelow ==
    ASSUME NEW r, NEW frames, NEW frames2, NEW n, \A i \in 1 .. n : frames2[i] = frames[i], Due(r, frames, n)
    PROVE  Due(r, frames2, n)
<1>1. FunctionsTo(frames2, n) = FunctionsTo(frames, n)
  BY DEF FunctionsTo
<1>2. LoopsTo(frames2, n) = LoopsTo(frames, n)
  BY DEF LoopsTo
<1>3. OpenTo(frames2, n) = OpenTo(frames, n)
  BY DEF OpenTo
<1> QED BY <1>1, <1>2, <1>3, DueElsewhere

\* A frame that ends and is no loop that may go on and no function.
LEMMA DueAfterPop ==
    ASSUME NEW r, Typed, stack /= <<>>, ~IsLoop(Top), Top.kind /= "function", Due(r, stack, Len(stack))
    PROVE  Due(r, Pop, Len(Pop))
<1> DEFINE n == Len(stack)
<1>1. n \in Nat \ {0} /\ Len(Pop) = n - 1 /\ \A i \in 1 .. (n - 1) : Pop[i] = stack[i]
  BY TopOf, PopOf DEF Typed
<1>2. ~IsLoop(stack[n]) /\ ~IsOpen(stack[n]) /\ stack[n].kind /= "function"
  BY DEF Top, IsOpen
<1> HIDE DEF n
<1>3. \A i \in 1 .. n : i = n \/ i \in 1 .. (n - 1)
  BY <1>1
<1>4. \A i \in 1 .. (n - 1) : i \in 1 .. n
  BY <1>1
<1>5. FunctionsTo(Pop, n - 1) = FunctionsTo(stack, n)
  BY <1>1, <1>2, <1>3, <1>4 DEF FunctionsTo
<1>6. LoopsTo(Pop, n - 1) = LoopsTo(stack, n)
  BY <1>1, <1>2, <1>3, <1>4 DEF LoopsTo
<1>7. OpenTo(Pop, n - 1) = OpenTo(stack, n)
  BY <1>1, <1>2, <1>3, <1>4 DEF OpenTo
<1>8. Due(r, stack, n)
  BY DEF n
<1> QED BY <1>1, <1>5, <1>6, <1>7, <1>8, DueElsewhere

\* The frame on top may open its scope or, when the request is not for a loop, close it.
Retains(frame) == (IsOpen(Top) => IsOpen(frame)) /\ (IsLoop(frame) => IsLoop(Top))
LEMMA DueAfterBecome ==
    ASSUME NEW r, Typed, stack /= <<>>, NEW f \in Frames, f.kind = Top.kind, Retains(f), Due(r, stack, Len(stack))
    PROVE  Due(r, Become(f), Len(stack))
<1> DEFINE n == Len(stack)
           new == Become(f)
<1>1. n \in Nat \ {0} /\ new[n] = f /\ \A i \in 1 .. (n - 1) : new[i] = stack[i]
  BY TopOf, BecomeOf DEF Typed
<1>2. stack[n].kind = f.kind /\ (IsOpen(stack[n]) => IsOpen(f)) /\ (IsLoop(f) => IsLoop(stack[n]))
  BY DEF Top, Retains
<1>3. Due(r, stack, n)
  OBVIOUS
<1> HIDE DEF n, new
<1>4. \A i \in 1 .. n : i = n \/ i \in 1 .. (n - 1)
  BY <1>1
<1>5. n \in 1 .. n
  BY <1>1
<1>6. FunctionsTo(new, n) = FunctionsTo(stack, n)
  BY <1>1, <1>2, <1>4, <1>5 DEF FunctionsTo
<1>7. OpenTo(stack, n) \subseteq OpenTo(new, n)
  BY <1>1, <1>2, <1>4, <1>5 DEF OpenTo
<1>8. LoopsTo(new, n) \subseteq LoopsTo(stack, n)
  BY <1>1, <1>2, <1>4, <1>5 DEF LoopsTo
<1>9. ASSUME r.kind \in {"break", "continue"} PROVE LoopsTo(new, n) = LoopsTo(stack, n)
  <2>1. r.aim \in 1 .. n /\ From(LoopsTo(stack, n), r.aim) \subseteq OpenTo(stack, n)
    BY <1>3, <1>9 DEF Due, LoopsTo
  <2>2. n >= r.aim
    BY <1>1, <2>1
  <2>3. n \in LoopsTo(stack, n) => n \in OpenTo(stack, n)
    BY <2>1, <2>2 DEF From
  <2>4. n \in LoopsTo(stack, n) => IsLoop(f)
    BY <1>2, <2>3 DEF OpenTo, IsOpen
  <2>5. LoopsTo(stack, n) \subseteq LoopsTo(new, n)
    BY <1>1, <1>4, <2>4 DEF LoopsTo
  <2> QED BY <1>8, <2>5
<1>10. Due(r, new, n)
  BY <1>3, <1>6, <1>7, <1>9, DueElsewhere
<1> QED BY <1>10 DEF n, new

\* New frames that are no loops and no functions.
LEMMA DueAfterCall ==
    ASSUME NEW r, NEW base \in Seq(Frames), NEW new \in Seq(Frames),
           \A i \in DOMAIN new : new[i].kind \notin {"while", "for", "function"}, Due(r, base, Len(base))
    PROVE  Due(r, base \o new, Len(base \o new))
<1> DEFINE n == Len(base)
           m == Len(new)
           all == base \o new
<1>1. n \in Nat /\ m \in Nat /\ Len(all) = n + m /\ DOMAIN new = 1 .. m
  OBVIOUS
<1>2. \A i \in 1 .. n : all[i] = base[i]
  BY ConcatOf
<1>3. \A i \in 1 .. m : all[n + i] = new[i]
  BY ConcatOf
<1>4. Due(r, base, n)
  OBVIOUS
<1>5. \A i \in 1 .. m : new[i].kind \notin {"while", "for", "function"}
  BY <1>1
<1> HIDE DEF n, m, all
<1>6. \A i \in 1 .. (n + m) : i \in 1 .. n \/ \E j \in 1 .. m : i = n + j
  <2>1. \A i \in 1 .. (n + m) : i \in 1 .. n \/ ((i - n) \in 1 .. m /\ i = n + (i - n))
    BY <1>1
  <2> QED BY <2>1
<1>7. \A i \in 1 .. (n + m) : i \in 1 .. n \/ all[i].kind \notin {"while", "for", "function"}
  BY <1>3, <1>5, <1>6
<1>8. \A i \in 1 .. n : i \in 1 .. (n + m)
  BY <1>1
<1>9. FunctionsTo(all, n + m) = FunctionsTo(base, n)
  BY <1>2, <1>7, <1>8 DEF FunctionsTo
<1>10. LoopsTo(all, n + m) = LoopsTo(base, n)
  BY <1>2, <1>7, <1>8 DEF LoopsTo, IsLoop, LoopKinds
<1>11. OpenTo(all, n + m) = OpenTo(base, n)
  BY <1>2, <1>7, <1>8 DEF OpenTo, IsOpen, IsLoop, LoopKinds
<1>12. Due(r, all, n + m)
  BY <1>4, <1>9, <1>10, <1>11, DueElsewhere
<1> QED BY <1>1, <1>12 DEF all

-----------------------------------------------------------------------------
(* The shapes of a step *)

\* The frame on top goes on as another of its kind; while a request is pending, in sight of it.
Stepped(frame) ==
    /\ frame \in Frames /\ frame.kind = Top.kind /\ frame.kind /= "trap"
    /\ Pending /\ ~exiting => Retains(frame)
NewFrames(frames) ==
    /\ frames \in Seq(Frames)
    /\ \A i \in DOMAIN frames : /\ frames[i].kind /= "trap"
                                /\ Pending => frames[i].kind \notin {"while", "for", "function"}

Well == ret' \in Results /\ exiting' \in BOOLEAN /\ (exiting => exiting')
Popped == stack /= <<>> /\ stack' = Pop /\ ~IsLoop(Top) /\ Top.kind /= "function"
Shifted ==
    /\ stack /= <<>>
    /\ \E frame : /\ Stepped(frame)
                  /\ \/ stack' = Become(frame)
                     \/ \E frames : NewFrames(frames) /\ stack' = Become(frame) \o frames
Calm == flow' = flow /\ (stack' = stack \/ Popped \/ Shifted)

\* break, continue or return makes a request.
Requested ==
    /\ ~Pending /\ stack /= <<>>
    /\ flow' \in Requests /\ flow'.kind /= "none"
    /\ \E frame : Stepped(frame) /\ stack' = Become(frame)
    /\ flow'.aim /= 0 => Due(flow', stack', Len(stack'))

\* A loop takes its level of the request, and ends unless the request was for it.
Consumed ==
    /\ Pending /\ stack /= <<>> /\ IsOpen(Top) /\ ConsumeLoop
    /\ \E frame \in Frames : /\ frame.kind = Top.kind /\ stack' = Become(frame)
                             /\ flow' /= NoRequest => frame.step = "done"

\* What a frame may become: the same call at another step.
Kin(frame, step) == {f \in Frames : f.kind = frame.kind /\ f.step = step}

LEMMA KinOf ==
    ASSUME NEW t \in Frames, NEW step \in Steps, NEW code \in Int, NEW more \in BOOLEAN, NEW exempt \in BOOLEAN
    PROVE  /\ [t EXCEPT !.step = step] \in Kin(t, step)
           /\ [t EXCEPT !.step = step, !.code = code] \in Kin(t, step)
           /\ [t EXCEPT !.step = step, !.exempt = exempt] \in Kin(t, step)
           /\ [t EXCEPT !.step = step, !.more = more] \in Kin(t, step)
           /\ [t EXCEPT !.step = step, !.code = code, !.more = more] \in Kin(t, step)
           /\ [t EXCEPT !.step = step, !.more = more, !.code = code] \in Kin(t, step)
           /\ [t EXCEPT !.step = step, !.code = code, !.exempt = exempt] \in Kin(t, step)
           /\ [t EXCEPT !.step = step, !.code = code, !.more = more, !.exempt = exempt] \in Kin(t, step)
           /\ [t EXCEPT !.more = more] \in Kin(t, t.step)
<1>1. [t EXCEPT !.step = step] \in Kin(t, step)
  BY DEF Kin, Frames
<1>2. [t EXCEPT !.step = step, !.code = code] \in Kin(t, step)
  BY DEF Kin, Frames
<1>3. [t EXCEPT !.step = step, !.exempt = exempt] \in Kin(t, step)
  BY DEF Kin, Frames
<1>4. [t EXCEPT !.step = step, !.more = more] \in Kin(t, step)
  BY DEF Kin, Frames
<1>5. [t EXCEPT !.step = step, !.code = code, !.more = more] \in Kin(t, step)
  BY DEF Kin, Frames
<1>6. [t EXCEPT !.step = step, !.more = more, !.code = code] \in Kin(t, step)
  BY DEF Kin, Frames
<1>7. [t EXCEPT !.step = step, !.code = code, !.exempt = exempt] \in Kin(t, step)
  BY DEF Kin, Frames
<1>8. [t EXCEPT !.step = step, !.code = code, !.more = more, !.exempt = exempt] \in Kin(t, step)
  BY DEF Kin, Frames
<1>9. [t EXCEPT !.more = more] \in Kin(t, t.step)
  BY DEF Kin, Frames
<1> QED BY <1>1, <1>2, <1>3, <1>4, <1>5, <1>6, <1>7, <1>8, <1>9

\* Any step of a call that is no loop retains what is due.
LEMMA SteppedOutside ==
    ASSUME NEW step, NEW f \in Kin(Top, step), Top.kind \notin {"while", "for", "trap"}
    PROVE  Stepped(f)
BY DEF Kin, Stepped, Retains, IsOpen, IsLoop, LoopKinds

\* So does a loop that opens its scope, or that is at its own poll.
LEMMA SteppedInLoop ==
    ASSUME NEW step, NEW f \in Kin(Top, step), Top.kind \in {"while", "for"},
           \/ Top.step \in {"head", "checked"}
           \/ ~Pending \/ exiting
    PROVE  Stepped(f)
BY DEF Kin, Stepped, Retains, IsOpen, IsLoop, LoopKinds

LEMMA StatusTyped == Outcomes \subseteq Int /\ Success \in Int /\ Failure \in Int /\ Interrupted \in Int
BY ControlFlowAssumption DEF Statuses, Success, Failure, Interrupted

LEMMA ResultTyped ==
    ASSUME NEW code \in Int, NEW exempt \in BOOLEAN
    PROVE  [code |-> code, exempt |-> exempt] \in Results /\ NoResult \in Results
BY DEF Results, NoResult

\* Return, from a call that is neither a loop that may go on nor a function.
LEMMA ReturnShape ==
    ASSUME Typed, stack /= <<>>, NEW code \in Int, NEW exempt \in BOOLEAN, Return(code, exempt),
           UNCHANGED flow, exiting' \in BOOLEAN, exiting => exiting',
           ~IsLoop(Top), Top.kind /= "function"
    PROVE  Well /\ Calm
BY ResultTyped DEF Return, Well, Calm, Popped, Pop

LEMMA GotoShape ==
    ASSUME Typed, stack /= <<>>, NEW f, Stepped(f), Goto(f), UNCHANGED <<flow, exiting>>
    PROVE  Well /\ Calm
<1>1. NoResult \in Results
  BY DEF Results, NoResult
<1> QED BY <1>1 DEF Goto, Well, Calm, Shifted, Typed

LEMMA CallShape ==
    ASSUME Typed, stack /= <<>>, NEW f, Stepped(f), NEW frames, NewFrames(frames), Call(Become(f), frames),
           UNCHANGED <<flow, exiting>>
    PROVE  Well /\ Calm
<1>1. NoResult \in Results
  BY DEF Results, NoResult
<1> QED BY <1>1 DEF Call, Well, Calm, Shifted, Typed

\* One new frame.
LEMMA OneFrame ==
    ASSUME NEW kind \in Kinds, NEW step \in Steps, kind /= "trap",
           Pending => kind \notin {"while", "for", "function"}
    PROVE  NewFrames(<<Frame(kind, step)>>)
<1> DEFINE f == Frame(kind, step)
<1>1. f \in Frames /\ f.kind = kind
  BY NewFrame
<1> HIDE DEF f
<1>2. <<f>> \in Seq(Frames) /\ DOMAIN <<f>> = {1} /\ <<f>>[1] = f
  BY <1>1
<1>3. NewFrames(<<f>>)
  BY <1>1, <1>2 DEF NewFrames
<1> QED BY <1>3 DEF f

LEMMA NewBlockFrames == NewFrames(Block)
<1>1. "block" \in Kinds /\ "line" \in Steps
  BY DEF Kinds, Steps
<1> QED BY <1>1, OneFrame DEF Block

LEMMA NewCompactFrames == NewFrames(<<Frame("compact", "next")>>)
<1>1. "compact" \in Kinds /\ "next" \in Steps
  BY DEF Kinds, Steps
<1> QED BY <1>1, OneFrame

\* A request that break or continue makes is due: its levels are at most the open loops, and the
\* loop they count to is found.
LEMMA LoopRequestDue ==
    ASSUME NEW frames \in Seq(Frames), NEW levels \in Nat \ {0}, levels <= EnclosingLoops(frames),
           NEW kind \in {"break", "continue"}
    PROVE  LET r == [kind |-> kind, levels |-> levels, status |-> 0, aim |-> LoopAim(frames, levels)]
           IN  r \in Requests /\ r.kind /= "none" /\ (r.aim /= 0 => Due(r, frames, Len(frames)))
<1> DEFINE n == Len(frames)
           loops == LoopsTo(frames, n)
           open == OpenTo(frames, n)
           at == LoopAt(frames, levels)
           r == [kind |-> kind, levels |-> levels, status |-> 0, aim |-> LoopAim(frames, levels)]
<1>1. n \in Nat /\ loops \subseteq 1 .. n /\ open \subseteq loops
  BY DEF LoopsTo, OpenTo, IsOpen
<1>2. Loops(frames) = loops /\ LoopScopes(frames) = open
  BY ScopesOf
<1>3. levels <= Cardinality(open)
  BY <1>2 DEF EnclosingLoops
<1> HIDE DEF n, loops, open
<1>4. IsFiniteSet(loops) /\ Cardinality(loops) \in Nat /\ Cardinality(open) \in Nat
  <2>1. open \subseteq 1 .. n
    BY <1>1
  <2> QED BY <1>1, <2>1, FromFinite
<1>5. Cardinality(open) <= Cardinality(loops)
  BY <1>1, <1>4, FS_Subset
<1>6. levels <= Cardinality(loops)
  BY <1>3, <1>4, <1>5
<1>7. \E i \in loops : Cardinality(From(loops, i)) = levels
  BY <1>1, <1>6, NthFromTop
<1>8. at \in loops /\ Cardinality(From(loops, at)) = levels
  <2>1. at = CHOOSE i \in loops : Cardinality(From(loops, i)) = levels
    BY <1>2 DEF LoopAt, From
  <2> HIDE DEF at
  <2> QED BY <1>7, <2>1
<1> HIDE DEF at
<1>9. LoopAim(frames, levels) = IF From(loops, at) \subseteq open THEN at ELSE 0
  BY <1>2 DEF LoopAim, at, From
<1>10. at \in Nat
  BY <1>1, <1>8
<1>11. r \in Requests /\ r.kind = kind /\ r.levels = levels /\ r.aim = LoopAim(frames, levels)
  <2>1. LoopAim(frames, levels) \in Nat
    BY <1>9, <1>10
  <2> QED BY <2>1 DEF Requests
<1>12. ASSUME r.aim /= 0 PROVE Due(r, frames, n)
  <2>1. r.aim = at /\ From(loops, at) \subseteq open
    BY <1>9, <1>11, <1>12
  <2> QED BY <1>8, <1>11, <2>1 DEF Due, loops, open
<1>13. r.kind /= "none"
  BY <1>11
<1> QED BY <1>11, <1>12, <1>13 DEF n, r

\* A request that return makes is due.
LEMMA ReturnRequestDue ==
    ASSUME NEW frames \in Seq(Frames), ReturnScopes(frames) /= {}, NEW code \in Int
    PROVE  LET r == [kind |-> "return", levels |-> 0, status |-> code, aim |-> ReturnAim(frames)]
           IN  r \in Requests /\ r.kind /= "none" /\ Due(r, frames, Len(frames))
<1> DEFINE n == Len(frames)
           all == FunctionsTo(frames, n)
           aim == ReturnAim(frames)
           r == [kind |-> "return", levels |-> 0, status |-> code, aim |-> aim]
<1>1. n \in Nat /\ all \subseteq 1 .. n
  BY DEF FunctionsTo
<1>2. ReturnScopes(frames) = all
  BY ScopesOf
<1> HIDE DEF n, all
<1>3. \E i \in all : \A j \in all : j <= i
  BY <1>1, <1>2, GreatestExists
<1>4. aim = CHOOSE i \in all : \A j \in all : j <= i
  BY <1>2 DEF ReturnAim
<1> HIDE DEF aim
<1>5. aim \in all /\ \A j \in all : j <= aim
  BY <1>3, <1>4
<1>6. aim \in Nat
  BY <1>1, <1>5
<1>7. r \in Requests /\ r.kind = "return" /\ r.aim = aim
  BY <1>6 DEF Requests
<1>8. Due(r, frames, n)
  BY <1>5, <1>7 DEF Due, all
<1> QED BY <1>7, <1>8 DEF n, aim

-----------------------------------------------------------------------------
(* The shape of each action *)

LEMMA ControlShape ==
    ASSUME Typed, stack /= <<>>, NEW f, Stepped(f), ~Pending, ControlCommand(Become(f))
    PROVE  Well /\ (Calm \/ Requested)
<1> DEFINE new == Become(f)
<1>1. new \in Seq(Frames) /\ f \in Frames
  BY BecomeOf DEF Stepped, Typed
<1>2. stack' = new /\ exiting' = exiting /\ exiting \in BOOLEAN
  BY DEF ControlCommand, Typed
<1>3. LoopControl(new) \/ ReturnControl(new)
  BY DEF ControlCommand
<1> HIDE DEF new
<1>4. ASSUME flow' = flow, ret' \in Results PROVE Well /\ Calm
  BY <1>2, <1>4 DEF Well, Calm, Shifted, new
<1>5. ASSUME flow' \in Requests, flow'.kind /= "none", flow'.aim /= 0 => Due(flow', new, Len(new)), ret' \in Results
      PROVE Well /\ Requested
  BY <1>2, <1>5 DEF Well, Requested, new
<1>6. CASE LoopControl(new)
  <2>1. PICK kind \in {"break", "continue"}, m \in 1 .. MaxLevels :
           LET levels == AtMost(m, EnclosingLoops(new)) IN
           IF EnclosingLoops(new) = 0
              THEN ret' = [code |-> Failure, exempt |-> FALSE] /\ UNCHANGED flow
              ELSE /\ flow' = [kind |-> kind, levels |-> levels, status |-> 0, aim |-> LoopAim(new, levels)]
                   /\ ret' = [code |-> Success, exempt |-> FALSE]
    BY <1>6 DEF LoopControl
  <2> DEFINE levels == AtMost(m, EnclosingLoops(new))
  <2>2. ret' \in Results
    BY <2>1, StatusTyped, ResultTyped
  <2>3. CASE EnclosingLoops(new) = 0
    BY <1>4, <2>1, <2>2, <2>3
  <2>4. CASE EnclosingLoops(new) /= 0
    <3>1. EnclosingLoops(new) \in Nat
      <4>1. LoopScopes(new) = OpenTo(new, Len(new)) /\ Len(new) \in Nat
        BY <1>1, ScopesOf
      <4>2. OpenTo(new, Len(new)) \subseteq 1 .. Len(new)
        BY DEF OpenTo
      <4> QED BY <4>1, <4>2, FromFinite DEF EnclosingLoops
    <3>2. levels \in Nat \ {0} /\ levels <= EnclosingLoops(new)
      BY <2>4, <3>1, ControlFlowAssumption DEF AtMost
    <3>3. flow' = [kind |-> kind, levels |-> levels, status |-> 0, aim |-> LoopAim(new, levels)]
      BY <2>1, <2>4
    <3> HIDE DEF levels
    <3>4. flow' \in Requests /\ flow'.kind /= "none" /\ (flow'.aim /= 0 => Due(flow', new, Len(new)))
      BY <1>1, <3>2, <3>3, LoopRequestDue
    <3> QED BY <1>5, <2>2, <3>4
  <2> QED BY <2>3, <2>4
<1>7. CASE ReturnControl(new)
  <2>1. PICK code \in Outcomes :
           IF ReturnScopes(new) = {}
              THEN ret' = [code |-> Failure, exempt |-> FALSE] /\ UNCHANGED flow
              ELSE /\ flow' = [kind |-> "return", levels |-> 0, status |-> code, aim |-> ReturnAim(new)]
                   /\ ret' = [code |-> code, exempt |-> FALSE]
    BY <1>7 DEF ReturnControl
  <2>2. code \in Int
    BY StatusTyped
  <2>3. ret' \in Results
    BY <2>1, <2>2, StatusTyped, ResultTyped
  <2>4. CASE ReturnScopes(new) = {}
    BY <1>4, <2>1, <2>3, <2>4
  <2>5. CASE ReturnScopes(new) /= {}
    <3>1. flow' \in Requests /\ flow'.kind /= "none" /\ Due(flow', new, Len(new))
      BY <1>1, <2>1, <2>2, <2>5, ReturnRequestDue
    <3> QED BY <1>5, <2>3, <3>1
  <2> QED BY <2>4, <2>5
<1> QED BY <1>3, <1>6, <1>7

\* One command: it returns at once, makes a request, or calls evaluators, none of them a loop.
LEMMA InvokeShape ==
    ASSUME Typed, stack /= <<>>, NEW f, Stepped(f), Invoke(Become(f))
    PROVE  Well /\ (Calm \/ Requested)
<1>1. flow \in Requests /\ flow.status \in Int /\ exiting \in BOOLEAN
  BY RequestFields DEF Typed
<1>2. ASSUME stack' = Become(f), flow' = flow, ret' \in Results, exiting' \in BOOLEAN, exiting => exiting'
      PROVE Well /\ Calm
  BY <1>2 DEF Well, Calm, Shifted
<1>3. CASE NothingRuns(Become(f))
  <2>1. PICK code \in IF Pending THEN {flow.status} ELSE Outcomes : ret' = [code |-> code, exempt |-> FALSE]
    BY <1>3 DEF NothingRuns
  <2>2. code \in Int
    BY <1>1, StatusTyped
  <2>3. ret' \in Results
    BY <2>1, <2>2, ResultTyped
  <2> QED BY <1>1, <1>2, <1>3, <2>3 DEF NothingRuns
<1>4. CASE SimpleCommand(Become(f))
  <2>1. PICK code \in Outcomes, negated \in BOOLEAN :
           ret' = [code |-> code, exempt |-> negated /\ code /= Success]
    BY <1>4 DEF SimpleCommand
  <2>2. code \in Int /\ (negated /\ code /= Success) \in BOOLEAN
    BY StatusTyped
  <2>3. ret' \in Results
    BY <2>1, <2>2, ResultTyped
  <2> QED BY <1>1, <1>2, <1>4, <2>3 DEF SimpleCommand
<1>5. CASE ExitCommand(Become(f))
  BY <1>2, <1>5, StatusTyped, ResultTyped DEF ExitCommand
<1>6. CASE ~Pending /\ ControlCommand(Become(f))
  BY <1>6, ControlShape
<1>7. CASE ~Pending /\ NestedCall(Become(f))
  <2>1. ASSUME NEW frames, NewFrames(frames), Call(Become(f), frames), UNCHANGED <<flow, exiting>> PROVE Well /\ Calm
    BY <2>1, CallShape
  <2>2. NewFrames(<<Frame("function", "body")>> \o Block)
    <3>1. Frame("function", "body") \in Frames /\ Frame("function", "body").kind = "function"
      BY NewFrame DEF Kinds, Steps
    <3>2. Frame("block", "line") \in Frames /\ Frame("block", "line").kind = "block"
      BY NewFrame DEF Kinds, Steps
    <3> DEFINE a == Frame("function", "body")
               b == Frame("block", "line")
    <3> HIDE DEF a, b
    <3>3. a \in Frames /\ a.kind = "function" /\ b \in Frames /\ b.kind = "block"
      BY <3>1, <3>2 DEF a, b
    <3>4. <<a>> \o <<b>> \in Seq(Frames) /\ DOMAIN (<<a>> \o <<b>>) = 1 .. 2
          /\ (<<a>> \o <<b>>)[1] = a /\ (<<a>> \o <<b>>)[2] = b
      BY <3>3
    <3>5. NewFrames(<<a>> \o <<b>>)
      BY <1>7, <3>3, <3>4 DEF NewFrames
    <3> QED BY <3>5 DEF a, b, Block
  <2>3. NewFrames(<<Frame("case", "head")>>)
    BY <1>7, OneFrame DEF Kinds, Steps
  <2>4. \A kind \in {"list", "semicolons"} : NewFrames(<<Frame(kind, "next")>>)
    BY <1>7, OneFrame DEF Kinds, Steps
  <2> QED BY <1>7, <2>1, <2>2, <2>3, <2>4, NewBlockFrames DEF NestedCall
<1> QED BY <1>3, <1>4, <1>5, <1>6, <1>7 DEF Invoke

LEMMA CompoundShape ==
    ASSUME Typed, stack /= <<>>, NEW f, Stepped(f), ~Pending, Compound(Become(f)), UNCHANGED <<flow, exiting>>
    PROVE  Well /\ Calm
<1>1. PICK kind \in {"while", "for", "if", "case"} : Call(Become(f), <<Frame(kind, "head")>>)
  BY DEF Compound
<1>2. NewFrames(<<Frame(kind, "head")>>)
  BY OneFrame DEF Kinds, Steps
<1> QED BY <1>1, <1>2, CallShape

\* What a running or returned call is known to be.
LEMMA AtTop ==
    ASSUME Typed, NEW kind, NEW step, Running(kind, step) \/ Returned(kind, step)
    PROVE  /\ stack /= <<>> /\ Top \in Frames /\ Top.kind = kind /\ Top.step = step
           /\ Top.code \in Int /\ Top.more \in BOOLEAN /\ Top.exempt \in BOOLEAN /\ Top.saved \in Requests
           /\ ret.code \in Int /\ ret.exempt \in BOOLEAN /\ flow \in Requests /\ flow.status \in Int
           /\ exiting \in BOOLEAN
<1>1. stack /= <<>> /\ Top.kind = kind /\ Top.step = step
  BY DEF Running, Returned
<1>2. Top \in Frames
  BY <1>1, TopOf DEF Typed
<1>3. Top.code \in Int /\ Top.more \in BOOLEAN /\ Top.exempt \in BOOLEAN /\ Top.saved \in Requests
  BY <1>2 DEF Frames
<1>4. ret.code \in Int /\ ret.exempt \in BOOLEAN
  BY DEF Typed, Results
<1> QED BY <1>1, <1>2, <1>3, <1>4, RequestFields DEF Typed

StepShape == Well /\ (Calm \/ Requested \/ Consumed)

Outside == {"block", "list", "semicolons", "compact", "if", "case"}

LEMMA PlainReturn ==
    ASSUME Typed, NEW kind \in Outside, NEW step, Running(kind, step) \/ Returned(kind, step),
           NEW code \in Int, NEW exempt \in BOOLEAN, Return(code, exempt),
           UNCHANGED flow, exiting' \in BOOLEAN, exiting => exiting'
    PROVE  StepShape
<1>1. stack /= <<>> /\ Top.kind = kind
  BY AtTop
<1>2. ~IsLoop(Top) /\ Top.kind /= "function"
  BY <1>1 DEF Outside, IsLoop, LoopKinds
<1> QED BY <1>1, <1>2, ReturnShape DEF StepShape

LEMMA PlainGoto ==
    ASSUME Typed, NEW kind \in Outside, NEW step, Running(kind, step) \/ Returned(kind, step),
           NEW next, NEW f \in Kin(Top, next), Goto(f), UNCHANGED <<flow, exiting>>
    PROVE  StepShape
<1>1. stack /= <<>> /\ Top.kind = kind
  BY AtTop
<1>2. Stepped(f)
  BY <1>1, SteppedOutside DEF Outside
<1> QED BY <1>1, <1>2, GotoShape DEF StepShape

LEMMA PlainInvoke ==
    ASSUME Typed, NEW kind \in Outside, NEW step, Running(kind, step) \/ Returned(kind, step),
           NEW next, NEW f \in Kin(Top, next), Invoke(Become(f))
    PROVE  StepShape
<1>1. stack /= <<>> /\ Top.kind = kind
  BY AtTop
<1>2. Stepped(f)
  BY <1>1, SteppedOutside DEF Outside
<1> QED BY <1>1, <1>2, InvokeShape DEF StepShape

LEMMA PlainCall ==
    ASSUME Typed, NEW kind \in Outside, NEW step, Running(kind, step) \/ Returned(kind, step),
           NEW next, NEW f \in Kin(Top, next), NEW frames, NewFrames(frames), Call(Become(f), frames),
           UNCHANGED <<flow, exiting>>
    PROVE  StepShape
<1>1. stack /= <<>> /\ Top.kind = kind
  BY AtTop
<1>2. Stepped(f)
  BY <1>1, SteppedOutside DEF Outside
<1> QED BY <1>1, <1>2, CallShape DEF StepShape

LEMMA PlainCompound ==
    ASSUME Typed, NEW kind \in Outside, NEW step, Running(kind, step) \/ Returned(kind, step),
           NEW next, NEW f \in Kin(Top, next), ~Pending, Compound(Become(f)), UNCHANGED <<flow, exiting>>
    PROVE  StepShape
<1>1. stack /= <<>> /\ Top.kind = kind
  BY AtTop
<1>2. Stepped(f)
  BY <1>1, SteppedOutside DEF Outside
<1> QED BY <1>1, <1>2, CompoundShape DEF StepShape

\* The names of the steps.
LEMMA Named == "block" \in Outside /\ "list" \in Outside /\ "semicolons" \in Outside /\ "compact" \in Outside
               /\ "if" \in Outside /\ "case" \in Outside
BY DEF Outside

LEMMA StepNamed == \A step \in {"line", "structured", "next", "command", "after", "inline", "head", "condition",
                                "checked", "body", "branch", "done", "trailing"} : step \in Steps
BY DEF Steps

LEMMA BlockShape == ASSUME Typed, BlockNext PROVE StepShape
<1>0. exiting \in BOOLEAN /\ Posix \in BOOLEAN
  BY ControlFlowAssumption DEF Typed
<1>1. CASE BlockEnds
  <2>1. Running("block", "line") /\ Return(Top.code, FALSE) /\ UNCHANGED <<flow, exiting>>
    BY <1>1 DEF BlockEnds
  <2>2. Top.code \in Int
    BY <2>1, AtTop
  <2> QED BY <1>0, <2>1, <2>2, Named, PlainReturn
<1>2. CASE BlockUnwinds
  <2>1. PICK step \in {"line", "next", "after"} : Running("block", step)
    BY <1>2 DEF BlockUnwinds
  <2>2. PICK code \in IF Pending /\ ~(exiting /\ Top.step = "after") THEN {flow.status} ELSE Outcomes : Return(code, FALSE)
    BY <1>2 DEF BlockUnwinds
  <2>3. code \in Int
    BY <2>1, <2>2, AtTop, StatusTyped
  <2>4. UNCHANGED <<flow, exiting>>
    BY <1>2 DEF BlockUnwinds
  <2> QED BY <1>0, <2>1, <2>2, <2>3, <2>4, Named, PlainReturn
<1>3. CASE CompoundLine
  <2> DEFINE f == [Top EXCEPT !.step = "structured", !.code = Success]
  <2>1. Running("block", "line") /\ ~Pending /\ Compound(Become(f)) /\ UNCHANGED <<flow, exiting>>
    BY <1>3 DEF CompoundLine
  <2>2. f \in Kin(Top, "structured")
    BY <2>1, AtTop, StepNamed, StatusTyped, KinOf
  <2> HIDE DEF f
  <2> QED BY <2>1, <2>2, Named, PlainCompound
<1>4. CASE StructuredReturns
  <2> DEFINE f == [Top EXCEPT !.step = "line", !.code = ret.code]
  <2>1. Returned("block", "structured") /\ (Return(ret.code, FALSE) \/ Goto(f)) /\ UNCHANGED <<flow, exiting>>
    BY <1>4 DEF StructuredReturns
  <2>2. f \in Kin(Top, "line") /\ ret.code \in Int
    BY <2>1, AtTop, StepNamed, KinOf
  <2> HIDE DEF f
  <2> QED BY <1>0, <2>1, <2>2, Named, PlainReturn, PlainGoto
<1>5. CASE ListLine
  <2> DEFINE f == [Top EXCEPT !.step = "next", !.code = Success, !.more = FALSE]
  <2>1. Running("block", "line") /\ Goto(f) /\ UNCHANGED <<flow, exiting>>
    BY <1>5 DEF ListLine
  <2>2. f \in Kin(Top, "next")
    BY <2>1, AtTop, StepNamed, StatusTyped, KinOf
  <2> HIDE DEF f
  <2> QED BY <2>1, <2>2, Named, PlainGoto
<1>6. CASE BlockCommand
  <2>1. PICK more \in BOOLEAN : Invoke(Become([Top EXCEPT !.step = "command", !.code = Success, !.more = more]))
    BY <1>6 DEF BlockCommand
  <2> DEFINE f == [Top EXCEPT !.step = "command", !.code = Success, !.more = more]
  <2>2. Running("block", "next") /\ Invoke(Become(f))
    BY <1>6, <2>1 DEF BlockCommand
  <2>3. f \in Kin(Top, "command")
    BY <2>2, AtTop, StepNamed, StatusTyped, KinOf
  <2> HIDE DEF f
  <2> QED BY <2>2, <2>3, Named, PlainInvoke
<1>7. CASE BlockCommandReturns
  <2> DEFINE f == [Top EXCEPT !.step = "after", !.code = ret.code, !.exempt = ret.exempt]
  <2>1. Returned("block", "command") /\ (Return(Interrupted, FALSE) \/ Goto(f)) /\ UNCHANGED <<flow, exiting>>
    BY <1>7 DEF BlockCommandReturns
  <2>2. f \in Kin(Top, "after")
    BY <2>1, AtTop, StepNamed, KinOf
  <2> HIDE DEF f
  <2> QED BY <1>0, <2>1, <2>2, Named, StatusTyped, PlainReturn, PlainGoto
<1>8. CASE BlockAborts
  <2>1. Running("block", "after") /\ Return(Top.code, FALSE) /\ UNCHANGED flow /\ ~exiting /\ exiting' = Posix
    BY <1>8 DEF BlockAborts
  <2>2. Top.code \in Int
    BY <2>1, AtTop
  <2> QED BY <1>0, <2>1, <2>2, Named, PlainReturn
<1>9. CASE BlockContinues
  <2> DEFINE f == [Top EXCEPT !.step = "next", !.exempt = FALSE]
  <2>1. Running("block", "after") /\ Goto(f) /\ UNCHANGED <<flow, exiting>>
    BY <1>9 DEF BlockContinues
  <2>2. f \in Kin(Top, "next")
    BY <2>1, AtTop, StepNamed, KinOf
  <2> HIDE DEF f
  <2> QED BY <2>1, <2>2, Named, PlainGoto
<1>10. CASE InlineMember
  <2> DEFINE f == [Top EXCEPT !.step = "inline", !.code = Success, !.more = FALSE]
  <2>1. Running("block", "next") /\ ~Pending /\ ((Compound(Become(f)) /\ UNCHANGED <<flow, exiting>>) \/ Invoke(Become(f)))
    BY <1>10 DEF InlineMember
  <2>2. f \in Kin(Top, "inline")
    BY <2>1, AtTop, StepNamed, StatusTyped, KinOf
  <2> HIDE DEF f
  <2> QED BY <2>1, <2>2, Named, PlainCompound, PlainInvoke
<1>11. CASE InlineReturns
  <2>1. PICK more \in BOOLEAN : Goto([Top EXCEPT !.step = "next", !.code = ret.code, !.more = more])
    BY <1>11 DEF InlineReturns
  <2> DEFINE f == [Top EXCEPT !.step = "next", !.code = ret.code, !.more = more]
  <2>2. Returned("block", "inline") /\ Goto(f) /\ UNCHANGED <<flow, exiting>>
    BY <1>11, <2>1 DEF InlineReturns
  <2>3. f \in Kin(Top, "next")
    BY <2>2, AtTop, StepNamed, KinOf
  <2> HIDE DEF f
  <2> QED BY <2>2, <2>3, Named, PlainGoto
<1>12. CASE SkipMember
  <2> DEFINE f == [Top EXCEPT !.more = FALSE]
  <2>1. Running("block", "next") /\ Goto(f) /\ UNCHANGED <<flow, exiting>>
    BY <1>12 DEF SkipMember
  <2>2. f \in Kin(Top, Top.step)
    BY <2>1, AtTop, StepNamed, StatusTyped, KinOf
  <2> HIDE DEF f
  <2> QED BY <2>1, <2>2, Named, PlainGoto
<1>13. CASE LineEnds
  <2> DEFINE f == [Top EXCEPT !.step = "line"]
  <2>1. Running("block", "next") /\ (Return(Interrupted, FALSE) \/ Goto(f)) /\ UNCHANGED <<flow, exiting>>
    BY <1>13 DEF LineEnds
  <2>2. f \in Kin(Top, "line")
    BY <2>1, AtTop, StepNamed, StatusTyped, KinOf
  <2> HIDE DEF f
  <2> QED BY <1>0, <2>1, <2>2, Named, StatusTyped, PlainReturn, PlainGoto
<1>14. CASE NotFoundAborts
  <2>1. /\ Running("block", "next") /\ Return(Failure, FALSE)
        /\ UNCHANGED flow /\ exiting' = (exiting \/ Posix)
    BY <1>14 DEF NotFoundAborts
  <2> QED BY <1>0, <2>1, Named, StatusTyped, PlainReturn
<1> QED BY <1>1, <1>2, <1>3, <1>4, <1>5, <1>6, <1>7, <1>8, <1>9, <1>10, <1>11, <1>12, <1>13, <1>14 DEF BlockNext

LEMMA ListShape == ASSUME Typed, ListNext PROVE StepShape
<1>0. exiting \in BOOLEAN /\ Posix \in BOOLEAN
  BY ControlFlowAssumption DEF Typed
<1>1. CASE ListCommand
  <2>1. PICK more \in BOOLEAN :
           Invoke(Become([Top EXCEPT !.step = "command", !.code = Success, !.more = more, !.exempt = more]))
    BY <1>1 DEF ListCommand
  <2> DEFINE f == [Top EXCEPT !.step = "command", !.code = Success, !.more = more, !.exempt = more]
  <2>2. Running("list", "next") /\ Invoke(Become(f))
    BY <1>1, <2>1 DEF ListCommand
  <2>3. f \in Kin(Top, "command")
    BY <2>2, AtTop, StepNamed, StatusTyped, KinOf
  <2> HIDE DEF f
  <2> QED BY <2>2, <2>3, Named, PlainInvoke
<1>2. CASE ListCommandReturns
  <2> DEFINE f == [Top EXCEPT !.step = "next", !.code = ret.code]
  <2>1. Returned("list", "command") /\ (Return(ret.code, FALSE) \/ Goto(f)) /\ UNCHANGED <<flow, exiting>>
    BY <1>2 DEF ListCommandReturns
  <2>2. f \in Kin(Top, "next") /\ ret.code \in Int
    BY <2>1, AtTop, StepNamed, KinOf
  <2> HIDE DEF f
  <2> QED BY <1>0, <2>1, <2>2, Named, PlainReturn, PlainGoto
<1>3. CASE SkipListMember
  <2> DEFINE f == [Top EXCEPT !.more = FALSE]
  <2>1. Running("list", "next") /\ Goto(f) /\ UNCHANGED <<flow, exiting>>
    BY <1>3 DEF SkipListMember
  <2>2. f \in Kin(Top, Top.step)
    BY <2>1, AtTop, StepNamed, StatusTyped, KinOf
  <2> HIDE DEF f
  <2> QED BY <2>1, <2>2, Named, PlainGoto
<1>4. CASE ListEnds
  <2>1. Running("list", "next") /\ Return(Top.code, Top.code /= Success /\ Top.exempt) /\ UNCHANGED <<flow, exiting>>
    BY <1>4 DEF ListEnds
  <2>2. Top.code \in Int /\ (Top.code /= Success /\ Top.exempt) \in BOOLEAN
    BY <2>1, AtTop
  <2> QED BY <1>0, <2>1, <2>2, Named, PlainReturn
<1>5. CASE SemicolonCommand
  <2> DEFINE f == [Top EXCEPT !.step = "command", !.code = Success, !.exempt = FALSE]
  <2>1. Running("semicolons", "next") /\ Invoke(Become(f))
    BY <1>5 DEF SemicolonCommand
  <2>2. f \in Kin(Top, "command")
    BY <2>1, AtTop, StepNamed, StatusTyped, KinOf
  <2> HIDE DEF f
  <2> QED BY <2>1, <2>2, Named, PlainInvoke
<1>6. CASE SemicolonReturns
  <2> DEFINE f == [Top EXCEPT !.step = "next", !.code = ret.code, !.exempt = ret.exempt]
  <2>1. Returned("semicolons", "command") /\ UNCHANGED flow
    BY <1>6 DEF SemicolonReturns
  <2>2. f \in Kin(Top, "next") /\ ret.code \in Int
    BY <2>1, AtTop, StepNamed, KinOf
  <2>3. CASE Return(ret.code, FALSE)
    <3>1. exiting' \in BOOLEAN /\ (exiting => exiting')
      BY <1>6 DEF SemicolonReturns
    <3> QED BY <2>1, <2>2, <2>3, <3>1, Named, PlainReturn
  <2>4. CASE Goto(f) /\ ~SemicolonAborts
    <3>1. exiting' = exiting
      BY <1>0, <1>6, <2>4 DEF SemicolonReturns
    <3> HIDE DEF f
    <3> QED BY <2>1, <2>2, <2>4, <3>1, Named, PlainGoto
  <2>5. IF Pending \/ exiting \/ ret.code = Interrupted \/ SemicolonAborts
           THEN Return(ret.code, FALSE) ELSE Goto(f)
    BY <1>6 DEF SemicolonReturns
  <2> HIDE DEF f
  <2>6. Return(ret.code, FALSE) \/ (Goto(f) /\ ~SemicolonAborts)
    BY <2>5
  <2> QED BY <2>3, <2>4, <2>5
<1>7. CASE SemicolonsEnd
  <2>1. Running("semicolons", "next") /\ Return(Top.code, Top.exempt) /\ UNCHANGED <<flow, exiting>>
    BY <1>7 DEF SemicolonsEnd
  <2>2. Top.code \in Int /\ Top.exempt \in BOOLEAN
    BY <2>1, AtTop
  <2> QED BY <1>0, <2>1, <2>2, Named, PlainReturn
<1>8. CASE CompactCommand
  <2> DEFINE f == [Top EXCEPT !.step = "command", !.code = Success]
  <2>1. Running("compact", "next") /\ Invoke(Become(f))
    BY <1>8 DEF CompactCommand
  <2>2. f \in Kin(Top, "command")
    BY <2>1, AtTop, StepNamed, StatusTyped, KinOf
  <2> HIDE DEF f
  <2> QED BY <2>1, <2>2, Named, PlainInvoke
<1>9. CASE CompactReturns
  <2> DEFINE f == [Top EXCEPT !.step = "next"]
  <2>1. Returned("compact", "command") /\ (Return(ret.code, FALSE) \/ Goto(f)) /\ UNCHANGED <<flow, exiting>>
    BY <1>9 DEF CompactReturns
  <2>2. f \in Kin(Top, "next") /\ ret.code \in Int
    BY <2>1, AtTop, StepNamed, StatusTyped, KinOf
  <2> HIDE DEF f
  <2> QED BY <1>0, <2>1, <2>2, Named, PlainReturn, PlainGoto
<1>10. CASE CompactEnds
  <2>1. Running("compact", "next") /\ Return(Top.code, FALSE) /\ UNCHANGED <<flow, exiting>>
    BY <1>10 DEF CompactEnds
  <2>2. Top.code \in Int
    BY <2>1, AtTop
  <2> QED BY <1>0, <2>1, <2>2, Named, PlainReturn
<1> QED BY <1>1, <1>2, <1>3, <1>4, <1>5, <1>6, <1>7, <1>8, <1>9, <1>10 DEF ListNext

LEMMA BranchShape == ASSUME Typed, BranchNext PROVE StepShape
<1>0. exiting \in BOOLEAN
  BY DEF Typed
<1>1. CASE IfCondition
  <2> DEFINE f == [Top EXCEPT !.step = "condition", !.code = Success]
  <2>1. Running("if", "head") /\ Invoke(Become(f))
    BY <1>1 DEF IfCondition
  <2>2. f \in Kin(Top, "condition")
    BY <2>1, AtTop, StepNamed, StatusTyped, KinOf
  <2> HIDE DEF f
  <2> QED BY <2>1, <2>2, Named, PlainInvoke
<1>2. CASE IfConditionReturns
  <2>1. Returned("if", "condition") /\ UNCHANGED <<flow, exiting>>
        /\ (Return(ret.code, FALSE) \/ \E step \in {"branch", "head", "done"} : Goto([Top EXCEPT !.step = step]))
    BY <1>2 DEF IfConditionReturns
  <2>2. Top \in Frames /\ ret.code \in Int
    BY <2>1, AtTop
  <2>3. ASSUME NEW step \in {"branch", "head", "done"}, Goto([Top EXCEPT !.step = step]) PROVE StepShape
    <3> DEFINE f == [Top EXCEPT !.step = step]
    <3>1. f \in Kin(Top, step)
      BY <2>2, StepNamed, StatusTyped, KinOf
    <3>2. Goto(f)
      BY <2>3
    <3> HIDE DEF f
    <3> QED BY <2>1, <3>1, <3>2, Named, PlainGoto
  <2> QED BY <1>0, <2>1, <2>2, <2>3, Named, PlainReturn
<1>3. CASE IfBranch
  <2> DEFINE f == [Top EXCEPT !.step = "body"]
  <2>1. PICK body \in {Block, <<Frame("compact", "next")>>} : Call(Become(f), body)
    BY <1>3 DEF IfBranch
  <2>2. Running("if", "branch") /\ UNCHANGED <<flow, exiting>>
    BY <1>3 DEF IfBranch
  <2>3. f \in Kin(Top, "body")
    BY <2>2, AtTop, StepNamed, StatusTyped, KinOf
  <2>4. NewFrames(body)
    BY NewBlockFrames, NewCompactFrames
  <2> HIDE DEF f
  <2> QED BY <2>1, <2>2, <2>3, <2>4, Named, PlainCall
<1>4. CASE IfBodyReturns
  <2> DEFINE f == [Top EXCEPT !.step = "done", !.code = ret.code]
  <2>1. Returned("if", "body") /\ Goto(f) /\ UNCHANGED <<flow, exiting>>
    BY <1>4 DEF IfBodyReturns
  <2>2. f \in Kin(Top, "done")
    BY <2>1, AtTop, StepNamed, KinOf
  <2> HIDE DEF f
  <2> QED BY <2>1, <2>2, Named, PlainGoto
<1>5. CASE IfEnds
  <2>1. Running("if", "done") /\ Return(Top.code, FALSE) /\ UNCHANGED <<flow, exiting>>
    BY <1>5 DEF IfEnds
  <2>2. Top.code \in Int
    BY <2>1, AtTop
  <2> QED BY <1>0, <2>1, <2>2, Named, PlainReturn
<1>6. CASE IfTrailing
  <2> DEFINE f == [Top EXCEPT !.step = "trailing", !.code = Success]
  <2>1. PICK body \in {Block, <<Frame("compact", "next")>>} : Call(Become(f), body)
    BY <1>6 DEF IfTrailing
  <2>2. Running("if", "done") /\ UNCHANGED <<flow, exiting>>
    BY <1>6 DEF IfTrailing
  <2>3. f \in Kin(Top, "trailing")
    BY <2>2, AtTop, StepNamed, StatusTyped, KinOf
  <2>4. NewFrames(body)
    BY NewBlockFrames, NewCompactFrames
  <2> HIDE DEF f
  <2> QED BY <2>1, <2>2, <2>3, <2>4, Named, PlainCall
<1>7. CASE CaseClause
  <2> DEFINE f == [Top EXCEPT !.step = "body", !.code = Success]
  <2>1. Running("case", "head") /\ Call(Become(f), <<Frame("compact", "next")>>) /\ UNCHANGED <<flow, exiting>>
    BY <1>7 DEF CaseClause
  <2>2. f \in Kin(Top, "body")
    BY <2>1, AtTop, StepNamed, StatusTyped, KinOf
  <2> HIDE DEF f
  <2> QED BY <2>1, <2>2, Named, NewCompactFrames, PlainCall
<1>8. CASE CaseBodyReturns
  <2> DEFINE f == [Top EXCEPT !.step = "head", !.code = ret.code]
  <2>1. Returned("case", "body") /\ (Return(ret.code, FALSE) \/ Goto(f)) /\ UNCHANGED <<flow, exiting>>
    BY <1>8 DEF CaseBodyReturns
  <2>2. f \in Kin(Top, "head") /\ ret.code \in Int
    BY <2>1, AtTop, StepNamed, KinOf
  <2> HIDE DEF f
  <2> QED BY <1>0, <2>1, <2>2, Named, PlainReturn, PlainGoto
<1>9. CASE CaseEnds
  <2>1. Running("case", "head") /\ Return(Top.code, FALSE) /\ UNCHANGED <<flow, exiting>>
    BY <1>9 DEF CaseEnds
  <2>2. Top.code \in Int
    BY <2>1, AtTop
  <2> QED BY <1>0, <2>1, <2>2, Named, PlainReturn
<1>10. CASE TrailingReturns
  <2>1. PICK kind \in {"while", "for", "if"} : Returned(kind, "trailing")
    BY <1>10 DEF TrailingReturns
  <2>2. stack /= <<>> /\ Top.kind = kind /\ Top.step = "trailing" /\ ret.code \in Int
    BY <2>1, AtTop
  <2>3. ~IsLoop(Top) /\ Top.kind /= "function"
    BY <2>2 DEF IsLoop
  <2>4. Return(ret.code, FALSE) /\ UNCHANGED <<flow, exiting>>
    BY <1>10 DEF TrailingReturns
  <2> QED BY <1>0, <2>2, <2>3, <2>4, ReturnShape DEF StepShape
<1> QED BY <1>1, <1>2, <1>3, <1>4, <1>5, <1>6, <1>7, <1>8, <1>9, <1>10 DEF BranchNext

-----------------------------------------------------------------------------
(* Loops *)

\* What handle_loop_command_result makes of the request: a loop that goes on has taken it all.
LEMMA ConsumeShape ==
    ASSUME Typed, stack /= <<>>, IsOpen(Top), ConsumeLoop, NEW code \in Int,
           \/ Leave(LoopCode(code))
           \/ Iterate(LoopCode(code)) /\ ~LoopLeaves(code),
           exiting' = exiting
    PROVE  StepShape
<1> DEFINE left == [Top EXCEPT !.step = "done", !.code = LoopCode(code)]
           again == [Top EXCEPT !.step = "head", !.code = LoopCode(code)]
<1>1. flow \in Requests /\ flow.kind \in {"none", "break", "continue", "return"} /\ flow.status \in Int
      /\ flow.levels \in Nat /\ exiting \in BOOLEAN
  BY RequestFields DEF Typed
<1>2. LoopCode(code) \in Int
  BY <1>1 DEF LoopCode
<1>3. Top \in Frames /\ Top.kind \in {"while", "for"}
  BY TopOf DEF Typed, IsOpen, IsLoop, LoopKinds
<1>4. left \in Kin(Top, "done") /\ again \in Kin(Top, "head")
  BY <1>2, <1>3, StepNamed, StatusTyped, KinOf
<1>5. Leave(LoopCode(code)) => Goto(left)
  BY DEF Leave
<1>6. Iterate(LoopCode(code)) => Goto(again)
  BY DEF Iterate
<1> HIDE DEF left, again
<1>7. CASE ~Pending
  <2>1. UNCHANGED <<flow, exiting>>
    BY <1>1, <1>7 DEF ConsumeLoop, Pending
  <2>2. Stepped(left) /\ Stepped(again)
    BY <1>3, <1>4, <1>7, SteppedInLoop
  <2> QED BY <1>5, <1>6, <2>1, <2>2, GotoShape DEF StepShape
<1>8. CASE Pending
  <2>1. NoResult \in Results
    BY DEF Results, NoResult
  <2>2. Well
    BY <1>1, <1>5, <1>6, <2>1 DEF Well, Goto
  <2>3. CASE Leave(LoopCode(code))
    <3>1. left \in Frames /\ left.kind = Top.kind /\ left.step = "done" /\ stack' = Become(left)
      BY <1>4, <1>5, <2>3 DEF Kin, Goto
    <3> QED BY <1>8, <2>2, <3>1 DEF StepShape, Consumed
  <2>4. CASE Iterate(LoopCode(code)) /\ ~LoopLeaves(code)
    <3>1. again \in Frames /\ again.kind = Top.kind /\ stack' = Become(again)
      BY <1>4, <1>6, <2>4 DEF Kin, Goto
    <3>2. flow.kind \notin {"return", "break"} /\ (flow.kind = "continue" => ~(flow.levels > 1))
      BY <2>4 DEF LoopLeaves
    <3>3. flow.kind = "continue" /\ flow.levels <= 1
      BY <1>1, <1>8, <3>2 DEF Pending
    <3>4. flow' = NoRequest
      BY <1>1, <3>3 DEF ConsumeLoop
    <3> QED BY <1>8, <2>2, <3>1, <3>4 DEF StepShape, Consumed
  <2> QED BY <2>3, <2>4
<1> QED BY <1>7, <1>8

\* A loop at its own poll, or one that a shell that is exiting leaves.
LEMMA LoopGoto ==
    ASSUME Typed, NEW kind \in {"while", "for"}, NEW step, Running(kind, step) \/ Returned(kind, step),
           step \in {"head", "checked"} \/ ~Pending \/ exiting,
           NEW next, NEW f \in Kin(Top, next), Goto(f), UNCHANGED <<flow, exiting>>
    PROVE  StepShape
<1>1. stack /= <<>> /\ Top.kind = kind /\ Top.step = step
  BY AtTop
<1>2. Stepped(f)
  BY <1>1, SteppedInLoop
<1> QED BY <1>1, <1>2, GotoShape DEF StepShape

LEMMA LoopCall ==
    ASSUME Typed, NEW kind \in {"while", "for"}, NEW step \in {"head", "checked"}, Running(kind, step),
           NEW next, NEW f \in Kin(Top, next), Call(Become(f), Block), UNCHANGED <<flow, exiting>>
    PROVE  StepShape
<1>1. stack /= <<>> /\ Top.kind = kind /\ Top.step = step
  BY AtTop
<1>2. Stepped(f)
  BY <1>1, SteppedInLoop
<1> QED BY <1>1, <1>2, NewBlockFrames, CallShape DEF StepShape

LEMMA OpenLoop ==
    ASSUME Typed, NEW kind \in {"while", "for"}, NEW step \in {"condition", "body"}, Returned(kind, step)
    PROVE  stack /= <<>> /\ IsOpen(Top)
<1>1. stack /= <<>> /\ Top.kind = kind /\ Top.step = step
  BY AtTop
<1> QED BY <1>1 DEF IsOpen, IsLoop, LoopKinds

LEMMA LoopShape == ASSUME Typed, LoopNext PROVE StepShape
<1>0. exiting \in BOOLEAN
  BY DEF Typed
<1>1. CASE WhileCondition
  <2> DEFINE f == [Top EXCEPT !.step = "condition"]
  <2>1. Running("while", "head") /\ Invoke(Become(f))
    BY <1>1 DEF WhileCondition
  <2>2. stack /= <<>> /\ Top.kind = "while" /\ Top.step = "head"
    BY <2>1, AtTop
  <2>3. f \in Kin(Top, "condition")
    BY <2>1, AtTop, StepNamed, StatusTyped, KinOf
  <2> HIDE DEF f
  <2>4. Stepped(f)
    BY <2>2, <2>3, SteppedInLoop
  <2> QED BY <2>1, <2>2, <2>4, InvokeShape DEF StepShape
<1>2. CASE WhileConditionReturns
  <2>1. Returned("while", "condition") /\ exiting' = exiting
    BY <1>2 DEF WhileConditionReturns
  <2>2. Top \in Frames /\ ret.code \in Int /\ stack /= <<>> /\ IsOpen(Top)
    BY <2>1, AtTop, OpenLoop
  <2>3. CASE exiting
    <3> DEFINE f == [Top EXCEPT !.step = "done", !.code = ret.code]
    <3>1. Goto(f) /\ UNCHANGED <<flow, exiting>>
      BY <1>2, <2>3 DEF WhileConditionReturns, Leave
    <3>2. f \in Kin(Top, "done")
      BY <2>2, StepNamed, StatusTyped, KinOf
    <3> HIDE DEF f
    <3> QED BY <2>1, <2>3, <3>1, <3>2, LoopGoto
  <2>4. CASE ~exiting /\ Pending
    <3>1. ConsumeLoop /\ (Leave(LoopCode(ret.code)) \/ (Iterate(LoopCode(ret.code)) /\ ~LoopLeaves(ret.code)))
      BY <1>2, <2>4 DEF WhileConditionReturns
    <3> QED BY <2>1, <2>2, <3>1, ConsumeShape
  <2>5. CASE ~exiting /\ ~Pending
    <3>1. PICK until \in BOOLEAN : Goto([Top EXCEPT !.step = "checked", !.more = ((ret.code = Success) /= until)])
      BY <1>2, <2>5 DEF WhileConditionReturns
    <3> DEFINE more == (ret.code = Success) /= until
               f == [Top EXCEPT !.step = "checked", !.more = more]
    <3>2. Goto(f) /\ UNCHANGED <<flow, exiting>>
      BY <1>2, <2>5, <3>1 DEF WhileConditionReturns
    <3>3. more \in BOOLEAN
      OBVIOUS
    <3> HIDE DEF more
    <3>4. f \in Kin(Top, "checked")
      BY <2>2, <3>3, StepNamed, StatusTyped, KinOf
    <3> HIDE DEF f
    <3> QED BY <2>1, <2>5, <3>2, <3>4, LoopGoto
  <2> QED BY <2>3, <2>4, <2>5
<1>3. CASE WhileBody
  <2> DEFINE f == [Top EXCEPT !.step = "body", !.more = FALSE, !.code = Success]
  <2>1. Running("while", "checked") /\ Call(Become(f), Block) /\ UNCHANGED <<flow, exiting>>
    BY <1>3 DEF WhileBody
  <2>2. f \in Kin(Top, "body")
    BY <2>1, AtTop, StepNamed, StatusTyped, KinOf
  <2> HIDE DEF f
  <2> QED BY <2>1, <2>2, LoopCall
<1>4. CASE ConditionFails
  <2> DEFINE f == [Top EXCEPT !.step = "done", !.code = Top.code]
  <2>1. Running("while", "checked") /\ Goto(f) /\ UNCHANGED <<flow, exiting>>
    BY <1>4 DEF ConditionFails, Leave
  <2>2. f \in Kin(Top, "done")
    BY <2>1, AtTop, StepNamed, StatusTyped, KinOf
  <2> HIDE DEF f
  <2> QED BY <2>1, <2>2, LoopGoto
<1>5. CASE WhileBodyReturns
  <2>1. Returned("while", "body") /\ exiting' = exiting
    BY <1>5 DEF WhileBodyReturns
  <2>2. ret.code \in Int /\ stack /= <<>> /\ IsOpen(Top)
    BY <2>1, AtTop, OpenLoop
  <2>3. ConsumeLoop /\ (Leave(LoopCode(ret.code)) \/ (Iterate(LoopCode(ret.code)) /\ ~LoopLeaves(ret.code)))
    BY <1>5 DEF WhileBodyReturns
  <2> QED BY <2>1, <2>2, <2>3, ConsumeShape
<1>6. CASE ForBody
  <2> DEFINE f == [Top EXCEPT !.step = "body", !.code = Success]
  <2>1. Running("for", "head") /\ Call(Become(f), Block) /\ UNCHANGED <<flow, exiting>>
    BY <1>6 DEF ForBody
  <2>2. f \in Kin(Top, "body")
    BY <2>1, AtTop, StepNamed, StatusTyped, KinOf
  <2> HIDE DEF f
  <2> QED BY <2>1, <2>2, LoopCall
<1>7. CASE ForEnds
  <2>1. PICK code \in {Top.code, Failure} : Leave(code)
    BY <1>7 DEF ForEnds
  <2> DEFINE f == [Top EXCEPT !.step = "done", !.code = code]
  <2>2. Running("for", "head") /\ Goto(f) /\ UNCHANGED <<flow, exiting>>
    BY <1>7, <2>1 DEF ForEnds, Leave
  <2>3. code \in Int /\ Top \in Frames
    BY <2>2, AtTop, StatusTyped
  <2>4. f \in Kin(Top, "done")
    BY <2>3, StepNamed, KinOf
  <2> HIDE DEF f
  <2> QED BY <2>2, <2>4, LoopGoto
<1>8. CASE ForBodyReturns
  <2>1. Returned("for", "body") /\ exiting' = exiting
    BY <1>8 DEF ForBodyReturns
  <2>2. Top \in Frames /\ ret.code \in Int /\ stack /= <<>> /\ IsOpen(Top)
    BY <2>1, AtTop, OpenLoop
  <2>3. CASE exiting
    <3> DEFINE f == [Top EXCEPT !.step = "done", !.code = ret.code]
    <3>1. Goto(f) /\ UNCHANGED <<flow, exiting>>
      BY <1>8, <2>3 DEF ForBodyReturns, Leave
    <3>2. f \in Kin(Top, "done")
      BY <2>2, StepNamed, StatusTyped, KinOf
    <3> HIDE DEF f
    <3> QED BY <2>1, <2>3, <3>1, <3>2, LoopGoto
  <2>4. CASE ~exiting
    <3>1. ConsumeLoop /\ (Leave(LoopCode(ret.code)) \/ (Iterate(LoopCode(ret.code)) /\ ~LoopLeaves(ret.code)))
      BY <1>8, <2>4 DEF ForBodyReturns
    <3> QED BY <2>1, <2>2, <3>1, ConsumeShape
  <2> QED BY <2>3, <2>4
<1>9. CASE LoopEnds
  <2>1. PICK kind \in {"while", "for"} : Running(kind, "done")
    BY <1>9 DEF LoopEnds, AtDone
  <2>2. stack /= <<>> /\ Top.kind = kind /\ Top.step = "done" /\ Top.code \in Int
    BY <2>1, AtTop
  <2>3. ~IsLoop(Top) /\ Top.kind /= "function"
    BY <2>2 DEF IsLoop
  <2>4. Return(Top.code, FALSE) /\ UNCHANGED <<flow, exiting>>
    BY <1>9 DEF LoopEnds
  <2> QED BY <1>0, <2>2, <2>3, <2>4, ReturnShape DEF StepShape
<1>10. CASE LoopTrailing
  <2> DEFINE f == [Top EXCEPT !.step = "trailing", !.code = Success]
  <2>1. PICK kind \in {"while", "for"} : Running(kind, "done")
    BY <1>10 DEF LoopTrailing, AtDone
  <2>2. stack /= <<>> /\ Top.kind = kind /\ Top \in Frames
    BY <2>1, AtTop
  <2>3. ~Pending /\ Invoke(Become(f))
    BY <1>10 DEF LoopTrailing
  <2>4. f \in Kin(Top, "trailing")
    BY <2>2, StepNamed, StatusTyped, KinOf
  <2> HIDE DEF f
  <2>5. Stepped(f)
    BY <2>2, <2>3, <2>4, SteppedInLoop
  <2> QED BY <2>2, <2>3, <2>5, InvokeShape DEF StepShape
<1> QED BY <1>1, <1>2, <1>3, <1>4, <1>5, <1>6, <1>7, <1>8, <1>9, <1>10 DEF LoopNext

LEMMA PollShape == ASSUME Typed, Interrupt \/ PollInterruptsBlock \/ PollInterruptsLoop PROVE StepShape
<1>0. exiting \in BOOLEAN
  BY DEF Typed
<1>1. CASE Interrupt
  <2>1. ret' \in Results
    BY <1>1, StatusTyped, ResultTyped DEF Interrupt
  <2> QED BY <1>0, <1>1, <2>1 DEF Interrupt, StepShape, Well, Calm
<1>2. CASE PollInterruptsBlock
  <2>1. PICK step \in {"line", "after"} : Returned("block", step)
    BY <1>2 DEF PollInterruptsBlock
  <2>2. PICK code \in IF exiting THEN Outcomes ELSE {Interrupted} : Return(code, FALSE)
    BY <1>2 DEF PollInterruptsBlock
  <2>3. code \in Int
    BY <2>2, StatusTyped
  <2>4. UNCHANGED <<flow, exiting>>
    BY <1>2 DEF PollInterruptsBlock
  <2> QED BY <1>0, <2>1, <2>2, <2>3, <2>4, Named, PlainReturn
<1>3. CASE PollInterruptsLoop
  <2> DEFINE f == [Top EXCEPT !.step = "done", !.code = Interrupted, !.more = FALSE]
  <2>1. PICK kind \in {"while", "for"}, step \in {"head", "checked"} : Returned(kind, step)
    BY <1>3 DEF PollInterruptsLoop
  <2>2. Goto(f) /\ UNCHANGED <<flow, exiting>>
    BY <1>3 DEF PollInterruptsLoop
  <2>3. f \in Kin(Top, "done")
    BY <2>1, AtTop, StepNamed, StatusTyped, KinOf
  <2> HIDE DEF f
  <2> QED BY <2>1, <2>2, <2>3, LoopGoto
<1> QED BY <1>1, <1>2, <1>3

-----------------------------------------------------------------------------
(* Steps of these shapes *)

LEMMA ConsumeTypes == ASSUME Typed, ConsumeLoop PROVE flow' \in Requests
<1>1. flow \in Requests /\ flow.levels \in Nat
  BY RequestFields DEF Typed
<1>2. CASE flow.kind \in {"break", "continue"} /\ flow.levels > 1
  <2>1. flow' = [flow EXCEPT !.levels = @ - 1]
    BY <1>1, <1>2 DEF ConsumeLoop
  <2>2. flow.levels - 1 \in Nat
    BY <1>1, <1>2
  <2> QED BY <1>1, <1>2, <2>1, <2>2 DEF Requests
<1>3. CASE flow.kind \in {"break", "continue"} /\ flow.levels <= 1
  BY <1>1, <1>3, NoRequestTyped DEF ConsumeLoop
<1>4. CASE flow.kind \notin {"break", "continue"}
  BY <1>1, <1>4 DEF ConsumeLoop
<1> QED BY <1>1, <1>2, <1>3, <1>4

\* The stack after a step of a shape.
LEMMA StackAfter ==
    ASSUME Typed, StepShape, stack' /= stack
    PROVE  /\ stack' \in Seq(Frames) /\ stack /= <<>>
           /\ \A i \in DOMAIN stack' : IF i < Len(stack) THEN stack'[i] = stack[i] ELSE stack'[i].kind /= "trap"
<1> DEFINE n == Len(stack)
           Holds == /\ stack' \in Seq(Frames)
                    /\ \A i \in DOMAIN stack' : IF i < n THEN stack'[i] = stack[i] ELSE stack'[i].kind /= "trap"
<1>0. stack /= <<>>
  BY DEF StepShape, Calm, Popped, Shifted, Requested, Consumed
<1>1. n \in Nat \ {0} /\ Top \in Frames /\ stack \in Seq(Frames)
  BY <1>0, TopOf DEF Typed
<1>2. ASSUME stack' = Pop PROVE Holds
  <2>1. stack' \in Seq(Frames) /\ Len(stack') = n - 1 /\ \A i \in 1 .. (n - 1) : stack'[i] = stack[i]
    BY <1>0, <1>1, <1>2, PopOf
  <2>2. DOMAIN stack' = 1 .. (n - 1)
    BY <2>1
  <2> HIDE DEF n
  <2>3. \A i \in DOMAIN stack' : i < n
    BY <1>1, <2>2
  <2> QED BY <2>1, <2>2, <2>3
<1>3. ASSUME NEW f \in Frames, stack' = Become(f), f.kind /= "trap" PROVE Holds
  <2>1. stack' \in Seq(Frames) /\ Len(stack') = n /\ stack'[n] = f /\ \A i \in 1 .. (n - 1) : stack'[i] = stack[i]
    BY <1>0, <1>1, <1>3, BecomeOf
  <2>2. DOMAIN stack' = 1 .. n
    BY <2>1
  <2> HIDE DEF n
  <2>3. \A i \in DOMAIN stack' : IF i < n THEN i \in 1 .. (n - 1) ELSE i = n
    BY <1>1, <2>2
  <2> QED BY <1>3, <2>1, <2>3
<1>4. ASSUME NEW f \in Frames, NEW frames, NewFrames(frames), stack' = Become(f) \o frames, f.kind /= "trap" PROVE Holds
  <2> DEFINE base == Become(f)
             m == Len(frames)
  <2>1. base \in Seq(Frames) /\ Len(base) = n /\ base[n] = f /\ \A i \in 1 .. (n - 1) : base[i] = stack[i]
    BY <1>0, <1>1, BecomeOf
  <2>2. frames \in Seq(Frames) /\ \A i \in DOMAIN frames : frames[i].kind /= "trap"
    BY <1>4 DEF NewFrames
  <2> HIDE DEF base
  <2>3. stack' = base \o frames
    BY <1>4 DEF base
  <2>4. /\ base \o frames \in Seq(Frames) /\ Len(base \o frames) = Len(base) + Len(frames)
        /\ \A i \in 1 .. Len(base) : (base \o frames)[i] = base[i]
        /\ \A i \in 1 .. Len(frames) : (base \o frames)[Len(base) + i] = frames[i]
    BY <2>1, <2>2, ConcatOf
  <2>5. /\ stack' \in Seq(Frames) /\ Len(stack') = n + m
        /\ \A i \in 1 .. n : stack'[i] = base[i]
        /\ \A i \in 1 .. m : stack'[n + i] = frames[i]
    BY <2>4, <2>1, <2>3, Zenon
  <2>6. DOMAIN stack' = 1 .. (n + m) /\ m \in Nat /\ DOMAIN frames = 1 .. m
    BY <2>2, <2>5
  <2> HIDE DEF n, m
  <2>7. \A i \in 1 .. (n + m) : \/ i < n /\ i \in 1 .. (n - 1) /\ i \in 1 .. n
                                \/ i = n /\ i \in 1 .. n
                                \/ ~(i < n) /\ (i - n) \in 1 .. m /\ i = n + (i - n)
    BY <1>1, <2>6
  <2>8. ASSUME NEW i \in DOMAIN stack'
        PROVE IF i < n THEN stack'[i] = stack[i] ELSE stack'[i].kind /= "trap"
    <3>1. CASE i < n
      BY <2>1, <2>5, <2>6, <2>7, <3>1
    <3>2. CASE i = n
      <4>1. stack'[n] = f /\ ~(n < n)
        BY <1>1, <2>1, <2>5, <2>6, <2>7, <3>2
      <4> QED BY <1>4, <3>2, <4>1
    <3>3. CASE ~(i < n) /\ i /= n
      <4>1. (i - n) \in 1 .. m /\ i = n + (i - n)
        BY <2>6, <2>7, <3>3
      <4>2. stack'[i] = frames[i - n]
        BY <2>5, <4>1
      <4> QED BY <2>2, <2>6, <3>3, <4>1, <4>2
    <3> QED BY <3>1, <3>2, <3>3
  <2> QED BY <2>5, <2>8
<1> HIDE DEF Holds
<1>5. ASSUME Calm PROVE Holds
  BY <1>2, <1>3, <1>4, <1>5 DEF Calm, Popped, Shifted, Stepped
<1>6. ASSUME Requested PROVE Holds
  BY <1>3, <1>6 DEF Requested, Stepped
<1>7. ASSUME Consumed PROVE Holds
  <2>1. Top.kind /= "trap"
    BY <1>7 DEF Consumed, IsOpen, IsLoop, LoopKinds
  <2> QED BY <1>3, <1>7, <2>1 DEF Consumed
<1>8. Holds
  BY <1>5, <1>6, <1>7 DEF StepShape
<1> QED BY <1>0, <1>8 DEF Holds, n

LEMMA TypedAfter == ASSUME Typed, StepShape PROVE Typed'
<1>1. stack' \in Seq(Frames)
  BY StackAfter DEF Typed
<1>2. flow' \in Requests
  BY ConsumeTypes DEF StepShape, Calm, Requested, Consumed, Typed
<1> QED BY <1>1, <1>2 DEF StepShape, Well, Typed

\* Traps in progress below the top keep what they put aside, and its frame.
LEMMA SavedAfter == ASSUME Typed, SavedDue, StepShape PROVE SavedDue'
<1>1. SUFFICES ASSUME ~exiting', NEW i \in DOMAIN stack', stack'[i].kind = "trap", stack'[i].saved.aim /= 0
               PROVE  Due(stack'[i].saved, stack', i - 1)
  BY DEF SavedDue
<1>2. ~exiting
  BY <1>1 DEF StepShape, Well
<1>3. CASE stack' = stack
  BY <1>1, <1>2, <1>3 DEF SavedDue
<1>4. CASE stack' /= stack
  <2> DEFINE n == Len(stack)
  <2>1. stack \in Seq(Frames) /\ stack' \in Seq(Frames)
    BY <1>4, StackAfter DEF Typed
  <2>2. n \in Nat /\ DOMAIN stack = 1 .. n /\ Len(stack') \in Nat /\ DOMAIN stack' = 1 .. Len(stack')
    BY <2>1
  <2>3. \A j \in DOMAIN stack' : IF j < n THEN stack'[j] = stack[j] ELSE stack'[j].kind /= "trap"
    BY <1>4, StackAfter
  <2>4. i < n /\ stack'[i] = stack[i]
    BY <1>1, <2>3
  <2> HIDE DEF n
  <2>5. i \in DOMAIN stack
    BY <2>2, <2>4
  <2>6. Due(stack[i].saved, stack, i - 1)
    BY <1>1, <1>2, <2>4, <2>5 DEF SavedDue
  <2>7. \A j \in 1 .. (i - 1) : j \in DOMAIN stack' /\ j < n
    BY <2>2, <2>4
  <2>8. \A j \in 1 .. (i - 1) : stack'[j] = stack[j]
    BY <2>3, <2>7
  <2>9. Due(stack[i].saved, stack', i - 1)
    BY <2>6, <2>8, DueBelow
  <2> QED BY <2>4, <2>9
<1> QED BY <1>3, <1>4

\* A loop that ends is no longer counted, and is no function.
LEMMA ScopesAfterLeaving ==
    ASSUME Typed, stack /= <<>>, IsOpen(Top), NEW f \in Frames, f.kind = Top.kind, f.step = "done"
    PROVE  LET n == Len(stack) IN
           /\ n \in Nat \ {0} /\ n \in LoopsTo(stack, n)
           /\ FunctionsTo(Become(f), n) = FunctionsTo(stack, n)
           /\ LoopsTo(Become(f), n) = LoopsTo(stack, n) \ {n}
           /\ OpenTo(Become(f), n) = OpenTo(stack, n) \ {n}
<1> DEFINE n == Len(stack)
           new == Become(f)
<1>1. n \in Nat \ {0} /\ new[n] = f /\ \A i \in 1 .. (n - 1) : new[i] = stack[i]
  BY TopOf, BecomeOf DEF Typed
<1>2. IsOpen(stack[n]) /\ f.kind = stack[n].kind
  BY DEF Top
<1> HIDE DEF n, new
<1>3. ~IsLoop(f) /\ ~IsOpen(f) /\ IsLoop(stack[n]) /\ f.kind /= "function" /\ stack[n].kind /= "function"
  BY <1>2 DEF IsLoop, IsOpen, LoopKinds
<1>4. \A i \in 1 .. n : i = n \/ (i \in 1 .. (n - 1) /\ i /= n)
  BY <1>1
<1>5. n \in 1 .. n
  BY <1>1
<1>6. n \in LoopsTo(stack, n)
  BY <1>3, <1>5 DEF LoopsTo
<1>7. FunctionsTo(new, n) = FunctionsTo(stack, n)
  BY <1>1, <1>3, <1>4 DEF FunctionsTo
<1>8. LoopsTo(new, n) = LoopsTo(stack, n) \ {n}
  BY <1>1, <1>3, <1>4 DEF LoopsTo
<1>9. OpenTo(new, n) = OpenTo(stack, n) \ {n}
  BY <1>1, <1>3, <1>4 DEF OpenTo
<1> QED BY <1>1, <1>6, <1>7, <1>8, <1>9 DEF n, new

\* The loop on top is the one the last level is for.
LEMMA LastLevel ==
    ASSUME Typed, stack /= <<>>, IsOpen(Top), flow.kind \in {"break", "continue"}, Due(flow, stack, Len(stack))
    PROVE  /\ flow.levels >= 1
           /\ flow.levels <= 1 <=> flow.aim = Len(stack)
<1> DEFINE n == Len(stack)
           loops == LoopsTo(stack, n)
           left == From(loops, flow.aim)
<1>1. n \in Nat \ {0} /\ stack[n] = Top
  BY TopOf DEF Typed
<1>2. flow.aim \in loops /\ Cardinality(left) = flow.levels
  BY DEF Due
<1>3. loops \subseteq 1 .. n
  BY DEF LoopsTo
<1>4. n \in loops
  <2>1. n \in 1 .. n
    BY <1>1
  <2> QED BY <1>1, <2>1 DEF LoopsTo, IsOpen
<1> HIDE DEF n, loops
<1>5. IsFiniteSet(left) /\ Cardinality(left) \in Nat
  BY <1>1, <1>3, FromFinite
<1>6. flow.aim \in Nat /\ flow.aim <= n
  <2>1. flow.aim \in 1 .. n
    BY <1>2, <1>3
  <2> QED BY <1>1, <2>1
<1>7. flow.aim \in left /\ n \in left
  BY <1>1, <1>2, <1>4, <1>6 DEF From
<1>8. left \subseteq loops /\ \A j \in left : j >= flow.aim /\ j \in Nat /\ j <= n
  BY <1>1, <1>3 DEF From
<1> HIDE DEF left
<1>9. flow.levels >= 1
  <2>1. Cardinality(left) /= 0
    BY <1>5, <1>7, FS_EmptySet
  <2> QED BY <1>2, <1>5, <2>1
<1>10. ASSUME flow.levels <= 1 PROVE flow.aim = n
  <2>1. Cardinality(left) = 1
    BY <1>2, <1>5, <1>9, <1>10
  <2>2. PICK only : left = {only}
    BY <1>5, <2>1, FS_Singleton
  <2> QED BY <1>7, <2>2
<1>11. ASSUME flow.aim = n PROVE flow.levels <= 1
  <2>1. \A j \in left : j = n
    BY <1>1, <1>8, <1>11
  <2>2. left = {n}
    BY <1>7, <2>1
  <2>3. Cardinality(left) = 1
    BY <2>2, FS_Singleton
  <2> QED BY <1>2, <2>3
<1> QED BY <1>9, <1>10, <1>11 DEF n

\* The request, less the level of the loop on top, is due below it.
LEMMA DueAfterConsume ==
    ASSUME Typed, stack /= <<>>, IsOpen(Top), ConsumeLoop, flow' /= NoRequest, Pending,
           NEW f \in Frames, f.kind = Top.kind, f.step = "done", Due(flow, stack, Len(stack))
    PROVE  Due(flow', Become(f), Len(stack))
<1> DEFINE n == Len(stack)
           new == Become(f)
           loops == LoopsTo(stack, n)
           open == OpenTo(stack, n)
<1>1. /\ n \in Nat \ {0} /\ n \in loops
      /\ FunctionsTo(new, n) = FunctionsTo(stack, n)
      /\ LoopsTo(new, n) = loops \ {n}
      /\ OpenTo(new, n) = open \ {n}
  BY ScopesAfterLeaving
<1>2. Due(flow, stack, n)
  OBVIOUS
<1>3. loops \subseteq 1 .. n
  BY DEF LoopsTo
<1>4. flow \in Requests /\ flow.kind \in {"break", "continue", "return"} /\ flow.levels \in Nat /\ flow.aim \in Nat
  BY RequestFields DEF Typed, Pending
<1>5. CASE flow.kind = "return"
  <2>1. flow' = flow
    BY <1>5 DEF ConsumeLoop
  <2> HIDE DEF n, new, loops, open
  <2>2. Due(flow', new, n)
    BY <1>1, <1>2, <1>5, <2>1, DueElsewhere
  <2> QED BY <2>2 DEF n, new
<1>6. CASE flow.kind \in {"break", "continue"}
  <2>1. flow.levels > 1 /\ flow' = [flow EXCEPT !.levels = @ - 1]
    <3>1. ~(flow.levels > 1) => flow.levels <= 1
      BY <1>4
    <3> QED BY <1>6, <3>1 DEF ConsumeLoop
  <2>2. flow'.kind = flow.kind /\ flow'.levels = flow.levels - 1 /\ flow'.aim = flow.aim
    BY <1>4, <2>1 DEF Requests
  <2>3. flow.aim /= n
    BY <1>4, <1>6, <2>1, LastLevel
  <2>4. flow.aim \in loops /\ Cardinality(From(loops, flow.aim)) = flow.levels /\ From(loops, flow.aim) \subseteq open
    BY <1>6 DEF Due
  <2> HIDE DEF n, new, loops, open
  <2>5. From(loops \ {n}, flow.aim) = From(loops, flow.aim) \ {n}
    BY DEF From
  <2>6. n \in From(loops, flow.aim)
    <3>1. flow.aim <= n
      BY <1>1, <1>3, <2>4
    <3> QED BY <1>1, <3>1, <1>4 DEF From
  <2>7. IsFiniteSet(From(loops, flow.aim))
    BY <1>1, <1>3, FromFinite
  <2>8. Cardinality(From(loops \ {n}, flow.aim)) = flow.levels - 1
    BY <2>4, <2>5, <2>6, <2>7, FS_RemoveElement
  <2>9. flow.aim \in loops \ {n}
    BY <2>3, <2>4
  <2>10. From(loops \ {n}, flow.aim) \subseteq open \ {n}
    BY <2>4, <2>5
  <2>11. Due(flow', new, n)
    BY <1>1, <1>6, <2>2, <2>8, <2>9, <2>10 DEF Due
  <2> QED BY <2>11 DEF n, new
<1> QED BY <1>4, <1>5, <1>6

LEMMA FlowAfter == ASSUME Typed, FlowDue, StepShape PROVE FlowDue'
<1>1. SUFFICES ASSUME ~exiting', Pending', flow'.aim /= 0 PROVE Due(flow', stack', Len(stack'))
  BY DEF FlowDue
<1>2. ~exiting
  BY <1>1 DEF StepShape, Well
<1>3. CASE Calm
  <2>1. Pending /\ flow' = flow /\ flow.aim /= 0
    BY <1>1, <1>3 DEF Calm, Pending
  <2>2. Due(flow, stack, Len(stack))
    BY <1>2, <2>1 DEF FlowDue
  <2>3. CASE stack' = stack
    BY <2>1, <2>2, <2>3
  <2>4. CASE Popped
    BY <2>1, <2>2, <2>4, DueAfterPop DEF Popped
  <2>5. ASSUME stack /= <<>>, NEW f, Stepped(f)
        PROVE  Due(flow, Become(f), Len(Become(f))) /\ Become(f) \in Seq(Frames)
    <3>1. f \in Frames /\ f.kind = Top.kind /\ Retains(f)
      BY <1>2, <2>1, <2>5 DEF Stepped
    <3>2. Due(flow, Become(f), Len(stack))
      BY <2>2, <2>5, <3>1, DueAfterBecome
    <3> QED BY <2>5, <3>1, <3>2, BecomeOf DEF Typed
  <2>6. ASSUME stack /= <<>>, NEW f, Stepped(f), NEW frames, NewFrames(frames)
        PROVE  Due(flow, Become(f) \o frames, Len(Become(f) \o frames))
    <3>1. frames \in Seq(Frames) /\ \A i \in DOMAIN frames : frames[i].kind \notin {"while", "for", "function"}
      BY <2>1, <2>6 DEF NewFrames
    <3>2. Due(flow, Become(f), Len(Become(f))) /\ Become(f) \in Seq(Frames)
      BY <2>5, <2>6
    <3> QED BY <3>1, <3>2, DueAfterCall
  <2>7. CASE Shifted
    <3>1. PICK f : Stepped(f) /\ (stack' = Become(f) \/ \E frames : NewFrames(frames) /\ stack' = Become(f) \o frames)
      BY <2>7 DEF Shifted
    <3>2. stack /= <<>>
      BY <2>7 DEF Shifted
    <3>3. Due(flow, stack', Len(stack'))
      BY <2>5, <2>6, <3>1, <3>2
    <3> QED BY <2>1, <3>3
  <2> QED BY <1>3, <2>3, <2>4, <2>7 DEF Calm
<1>4. CASE Requested
  BY <1>1, <1>4 DEF Requested
<1>5. CASE Consumed
  <2>1. PICK f \in Frames : f.kind = Top.kind /\ stack' = Become(f) /\ (flow' /= NoRequest => f.step = "done")
    BY <1>5 DEF Consumed
  <2>2. flow' /= NoRequest
    BY <1>1, NoRequestTyped
  <2>3. flow'.aim = flow.aim
    BY <2>2, <1>5 DEF Consumed, ConsumeLoop, Typed, Requests
  <2>4. Due(flow, stack, Len(stack))
    BY <1>1, <1>2, <1>5, <2>3 DEF FlowDue, Consumed
  <2>5. Due(flow', Become(f), Len(stack))
    BY <1>5, <2>1, <2>2, <2>4, DueAfterConsume DEF Consumed
  <2>6. Len(stack') = Len(stack)
    BY <1>5, <2>1, BecomeOf DEF Typed, Consumed
  <2> QED BY <2>1, <2>5, <2>6
<1> QED BY <1>3, <1>4, <1>5 DEF StepShape

-----------------------------------------------------------------------------
(* Traps and the boundaries of return *)

Inv == Typed /\ FlowDue /\ SavedDue

LEMMA InvAfterShape == ASSUME Inv, StepShape PROVE Inv'
BY TypedAfter, FlowAfter, SavedAfter DEF Inv

\* A frame goes and what is below it stays.
LEMMA SavedAfterPop == ASSUME Typed, stack /= <<>>, SavedDue, stack' = Pop, exiting' = exiting PROVE SavedDue'
<1> DEFINE n == Len(stack)
<1>1. n \in Nat \ {0} /\ DOMAIN stack = 1 .. n
  BY TopOf DEF Typed
<1>2. stack' \in Seq(Frames) /\ Len(stack') = n - 1 /\ \A i \in 1 .. (n - 1) : stack'[i] = stack[i]
  BY PopOf DEF Typed
<1>3. DOMAIN stack' = 1 .. (n - 1)
  BY <1>2
<1>4. SUFFICES ASSUME ~exiting, NEW i \in DOMAIN stack', stack'[i].kind = "trap", stack'[i].saved.aim /= 0
               PROVE  Due(stack'[i].saved, stack', i - 1)
  BY DEF SavedDue
<1> HIDE DEF n
<1>5. i \in DOMAIN stack /\ stack'[i] = stack[i] /\ \A j \in 1 .. (i - 1) : j \in 1 .. (n - 1)
  BY <1>1, <1>2, <1>3
<1>6. Due(stack[i].saved, stack, i - 1)
  BY <1>4, <1>5 DEF SavedDue
<1>7. \A j \in 1 .. (i - 1) : stack'[j] = stack[j]
  BY <1>2, <1>5
<1> QED BY <1>5, <1>6, <1>7, DueBelow

\* A trap puts the request aside: it is due in the frames below the trap.
LEMMA InvRunTrap == ASSUME Inv, RunTrap PROVE Inv'
<1>1. PICK reported \in {Success, Interrupted} :
         Call(stack, <<[Frame("trap", "body") EXCEPT !.saved = flow, !.code = reported]>> \o Block)
  BY DEF RunTrap
<1> DEFINE n == Len(stack)
           trap == [Frame("trap", "body") EXCEPT !.saved = flow, !.code = reported]
           line == Frame("block", "line")
<1>2. trap \in Frames /\ trap.kind = "trap" /\ trap.saved = flow
  <2>1. Frame("trap", "body") \in Frames /\ Frame("trap", "body").kind = "trap"
    BY NewFrame DEF Kinds, Steps
  <2> QED BY <2>1, StatusTyped DEF Frames, Inv, Typed
<1>3. line \in Frames /\ line.kind = "block"
  BY NewFrame DEF Kinds, Steps
<1>4. stack' = stack \o (<<trap>> \o <<line>>) /\ ret' = NoResult
  BY <1>1 DEF Call, Block
<1>5. n \in Nat /\ stack \in Seq(Frames) /\ DOMAIN stack = 1 .. n
  BY DEF Inv, Typed
<1>6. flow' = NoRequest /\ exiting' = exiting
  BY DEF RunTrap
<1> HIDE DEF trap, line
<1>7. /\ stack' \in Seq(Frames) /\ Len(stack') = n + 2 /\ stack'[n + 1] = trap /\ stack'[n + 2] = line
      /\ \A i \in 1 .. n : stack'[i] = stack[i]
  <2> DEFINE two == <<trap>> \o <<line>>
  <2>1. two \in Seq(Frames) /\ Len(two) = 2 /\ two[1] = trap /\ two[2] = line
    BY <1>2, <1>3
  <2> HIDE DEF two
  <2>2. /\ stack \o two \in Seq(Frames) /\ Len(stack \o two) = Len(stack) + Len(two)
        /\ \A i \in 1 .. Len(stack) : (stack \o two)[i] = stack[i]
        /\ \A i \in 1 .. Len(two) : (stack \o two)[Len(stack) + i] = two[i]
    BY <1>5, <2>1, ConcatOf
  <2>3. stack' = stack \o two
    BY <1>4 DEF two
  <2>4. 1 \in 1 .. Len(two) /\ 2 \in 1 .. Len(two)
    BY <2>1
  <2> QED BY <2>1, <2>2, <2>3, <2>4
<1>8. Typed'
  <2>1. NoResult \in Results
    BY DEF Results, NoResult
  <2> QED BY <1>4, <1>6, <1>7, <2>1, NoRequestTyped DEF Inv, Typed
<1>9. FlowDue'
  BY <1>6, NoRequestTyped DEF FlowDue
<1>10. SavedDue'
  <2>1. SUFFICES ASSUME ~exiting, NEW i \in DOMAIN stack', stack'[i].kind = "trap", stack'[i].saved.aim /= 0
                 PROVE  Due(stack'[i].saved, stack', i - 1)
    BY <1>6 DEF SavedDue
  <2>2. DOMAIN stack' = 1 .. (n + 2)
    BY <1>7
  <2> HIDE DEF n
  <2>3. i \in 1 .. n \/ i = n + 1 \/ i = n + 2
    BY <1>5, <2>2
  <2>4. CASE i \in 1 .. n
    <3>1. Due(stack[i].saved, stack, i - 1)
      BY <1>5, <1>7, <2>1, <2>4 DEF Inv, SavedDue
    <3>2. \A j \in 1 .. (i - 1) : j \in 1 .. n
      BY <1>5, <2>4
    <3>3. \A j \in 1 .. (i - 1) : stack'[j] = stack[j]
      BY <1>7, <3>2
    <3>4. Due(stack[i].saved, stack', i - 1)
      BY <3>1, <3>3, DueBelow
    <3> QED BY <1>7, <2>4, <3>4
  <2>5. CASE i = n + 1
    <3>1. stack'[i].saved = flow /\ i - 1 = n
      BY <1>2, <1>5, <1>7, <2>5
    <3>2. Pending
      <4>1. flow.kind = "none" => flow = NoRequest
        BY RequestFields DEF Inv, Typed
      <4> QED BY <2>1, <3>1, <4>1, NoRequestTyped DEF Pending
    <3>3. Due(flow, stack, n)
      BY <2>1, <3>1, <3>2 DEF Inv, FlowDue, n
    <3>4. Due(flow, stack', n)
      BY <1>7, <3>3, DueBelow
    <3> QED BY <3>1, <3>4
  <2>6. CASE i = n + 2
    BY <1>3, <1>7, <2>1, <2>6
  <2> QED BY <2>3, <2>4, <2>5, <2>6
<1> QED BY <1>8, <1>9, <1>10 DEF Inv

\* The request that a trap put aside is due again when the trap ends; what the trap itself asks
\* for is dropped then, unless there was nothing to put aside.
LEMMA InvTrapEnds == ASSUME Inv, TrapEnds PROVE Inv'
<1> DEFINE n == Len(stack)
<1>1. /\ stack /= <<>> /\ Top \in Frames /\ Top.kind = "trap" /\ Top.saved \in Requests /\ ret.code \in Int
      /\ flow \in Requests
  BY AtTop DEF TrapEnds, Inv
<1>2. stack' = Pop /\ exiting' = exiting
  BY DEF TrapEnds, Pop
<1>3. flow' = IF Top.saved /= NoRequest THEN Top.saved ELSE flow
  BY DEF TrapEnds, RestoreRequest
<1>4. ret' \in Results
  <2>1. ret' = [code |-> Interrupted, exempt |-> FALSE] \/ ret' = NoResult
    BY DEF TrapEnds
  <2> QED BY <2>1, ResultTyped, StatusTyped
<1>5. stack' \in Seq(Frames)
  BY <1>1, <1>2, PopOf DEF Inv, Typed
<1>6. Typed'
  BY <1>1, <1>2, <1>3, <1>4, <1>5 DEF Inv, Typed
<1>7. SavedDue'
  BY <1>1, <1>2, SavedAfterPop DEF Inv
<1>8. n \in Nat \ {0} /\ n \in DOMAIN stack /\ Top = stack[n] /\ Len(Pop) = n - 1
      /\ \A i \in 1 .. (n - 1) : Pop[i] = stack[i]
  BY <1>1, TopOf, PopOf DEF Inv, Typed
<1>9. ASSUME ~exiting, Pending', flow'.aim /= 0 PROVE Due(flow', stack', Len(stack'))
  <2>1. CASE Top.saved /= NoRequest
    <3>1. flow' = Top.saved
      BY <1>3, <2>1
    <3>2. Due(Top.saved, stack, n - 1)
      BY <1>1, <1>8, <1>9, <3>1 DEF Inv, SavedDue
    <3>3. Due(Top.saved, Pop, n - 1)
      BY <1>8, <3>2, DueBelow
    <3> QED BY <1>2, <1>8, <3>1, <3>3
  <2>2. CASE Top.saved = NoRequest
    <3>1. flow' = flow
      BY <1>3, <2>2
    <3>2. Due(flow, stack, n)
      BY <1>9, <3>1 DEF Inv, FlowDue, Pending
    <3>3. ~IsLoop(Top) /\ Top.kind /= "function"
      BY <1>1 DEF IsLoop, LoopKinds
    <3>4. Due(flow, Pop, Len(Pop))
      BY <1>1, <3>2, <3>3, DueAfterPop DEF Inv
    <3> QED BY <1>2, <3>1, <3>4
  <2> QED BY <2>1, <2>2
<1>10. FlowDue'
  BY <1>2, <1>9 DEF FlowDue
<1> QED BY <1>6, <1>7, <1>10 DEF Inv

\* A function takes a return; a request for a loop goes on through it.
LEMMA InvScopeReturns == ASSUME Inv, ScopeReturns PROVE Inv'
<1> DEFINE n == Len(stack)
<1>1. /\ stack /= <<>> /\ Top \in Frames /\ Top.kind = "function" /\ ret.code \in Int
      /\ flow \in Requests /\ flow.status \in Int
  BY AtTop DEF ScopeReturns, Inv
<1>2. stack' = Pop /\ exiting' = exiting
  BY DEF ScopeReturns, Return, Pop
<1>3. flow' = IF flow.kind = "return" THEN NoRequest ELSE flow
  BY DEF ScopeReturns, ConsumesReturn
<1>4. ret' \in Results
  <2> DEFINE code == IF ConsumesReturn THEN flow.status ELSE ret.code
  <2>1. code \in Int
    BY <1>1
  <2>2. ret' = [code |-> code, exempt |-> FALSE]
    BY DEF ScopeReturns, Return
  <2> HIDE DEF code
  <2> QED BY <2>1, <2>2, ResultTyped
<1>5. stack' \in Seq(Frames)
  BY <1>1, <1>2, PopOf DEF Inv, Typed
<1>6. Typed'
  BY <1>1, <1>2, <1>3, <1>4, <1>5, NoRequestTyped DEF Inv, Typed
<1>7. SavedDue'
  BY <1>1, <1>2, SavedAfterPop DEF Inv
<1>8. ASSUME ~exiting, Pending', flow'.aim /= 0 PROVE Due(flow', stack', Len(stack'))
  <2>1. flow.kind /= "return" /\ flow' = flow
    BY <1>3, <1>8, NoRequestTyped
  <2>2. Due(flow, stack, n)
    BY <1>8, <2>1 DEF Inv, FlowDue, Pending
  <2>3. n \in Nat \ {0} /\ stack[n] = Top /\ Len(Pop) = n - 1 /\ \A i \in 1 .. (n - 1) : Pop[i] = stack[i]
    BY <1>1, TopOf, PopOf DEF Inv, Typed
  <2>4. ~IsLoop(stack[n]) /\ ~IsOpen(stack[n])
    BY <1>1, <2>3 DEF IsLoop, IsOpen, LoopKinds
  <2> HIDE DEF n
  <2>5. \A i \in 1 .. n : i = n \/ i \in 1 .. (n - 1)
    BY <2>3
  <2>6. \A i \in 1 .. (n - 1) : i \in 1 .. n
    BY <2>3
  <2>7. LoopsTo(Pop, n - 1) = LoopsTo(stack, n)
    BY <2>3, <2>4, <2>5, <2>6 DEF LoopsTo
  <2>8. OpenTo(Pop, n - 1) = OpenTo(stack, n)
    BY <2>3, <2>4, <2>5, <2>6 DEF OpenTo
  <2>9. Due(flow, Pop, n - 1)
    BY <2>1, <2>2, <2>7, <2>8, DueElsewhere
  <2> QED BY <1>2, <2>1, <2>3, <2>9
<1>9. FlowDue'
  BY <1>2, <1>8 DEF FlowDue
<1> QED BY <1>6, <1>7, <1>9 DEF Inv

-----------------------------------------------------------------------------
(* What is proved *)

LEMMA InvInit == Init => Inv
<1> SUFFICES ASSUME Init PROVE Inv
  OBVIOUS
<1>1. stack \in Seq(Frames) /\ DOMAIN stack = 1 .. 1 /\ \A i \in DOMAIN stack : stack[i].kind = "block"
  BY NewBlock DEF Init
<1>2. Typed
  <2>1. NoResult \in Results
    BY DEF Results, NoResult
  <2>2. ret \in Results /\ flow \in Requests
    BY <2>1, NoRequestTyped DEF Init
  <2>3. exiting \in BOOLEAN
    BY DEF Init
  <2> QED BY <1>1, <2>2, <2>3 DEF Typed
<1>3. FlowDue
  BY NoRequestTyped DEF Init, FlowDue
<1>4. SavedDue
  BY <1>1 DEF SavedDue
<1> QED BY <1>2, <1>3, <1>4 DEF Inv

\* Every step but those of traps and of functions has a shape.
LEMMA Shapes ==
    ASSUME Inv, Next PROVE StepShape \/ RunTrap \/ TrapEnds \/ ScopeReturns \/ UNCHANGED vars
<1>1. Typed
  BY DEF Inv
<1> QED BY <1>1, BlockShape, ListShape, LoopShape, BranchShape, PollShape DEF Next, SignalNext, Finished

LEMMA InvNext == Inv /\ [Next]_vars => Inv'
<1> SUFFICES ASSUME Inv, [Next]_vars PROVE Inv'
  OBVIOUS
<1>1. CASE UNCHANGED vars
  BY <1>1 DEF vars, Inv, Typed, FlowDue, SavedDue, Pending
<1>2. CASE Next
  BY <1>1, <1>2, Shapes, InvAfterShape, InvRunTrap, InvTrapEnds, InvScopeReturns
<1> QED BY <1>1, <1>2

LEMMA Invariant == Spec => []Inv
BY InvInit, InvNext, PTL DEF Spec

\* What is due is awaited.
LEMMA DueIsAwaited ==
    ASSUME NEW frames \in Seq(Frames), NEW r \in Requests, r.kind /= "none", Due(r, frames, Len(frames))
    PROVE  Awaited(r, frames)
<1> DEFINE n == Len(frames)
<1>1. Loops(frames) = LoopsTo(frames, n) /\ ReturnScopes(frames) = FunctionsTo(frames, n) /\ DOMAIN frames = 1 .. n
  BY ScopesOf
<1>2. LoopsTo(frames, n) \subseteq 1 .. n /\ FunctionsTo(frames, n) \subseteq 1 .. n
  BY DEF LoopsTo, FunctionsTo
<1>3. r.kind \in {"break", "continue", "return"}
  BY RequestFields
<1>4. r.aim \in DOMAIN frames
  BY <1>1, <1>2, <1>3 DEF Due
<1> QED BY <1>1, <1>4 DEF Due, Awaited, From

\* Whatever is nested around a break, continue or return, however deep, and whatever traps run on
\* the way, the frame it is for still waits for it, with a level for each loop that is left to
\* leave (ControlFlowState, LoopScope, TrapManager::execute_trap_body).
THEOREM RequestsAlwaysAwaited == Spec => []RequestsAreAwaited
<1>1. Inv => RequestsAreAwaited
  <2> SUFFICES ASSUME Inv, ~exiting PROVE
         /\ Pending /\ flow.aim /= 0 => Awaited(flow, stack)
         /\ \A i \in DOMAIN stack :
               stack[i].kind = "trap" /\ stack[i].saved.aim /= 0 => Awaited(stack[i].saved, SubSeq(stack, 1, i - 1))
    BY DEF RequestsAreAwaited
  <2>1. ASSUME Pending, flow.aim /= 0 PROVE Awaited(flow, stack)
    BY <2>1, DueIsAwaited DEF Inv, Typed, FlowDue, Pending
  <2>2. ASSUME NEW i \in DOMAIN stack, stack[i].kind = "trap", stack[i].saved.aim /= 0
        PROVE  Awaited(stack[i].saved, SubSeq(stack, 1, i - 1))
    <3> DEFINE r == stack[i].saved
               below == SubSeq(stack, 1, i - 1)
    <3>1. stack \in Seq(Frames) /\ i \in 1 .. Len(stack) /\ stack[i] \in Frames
      BY <2>2 DEF Inv, Typed
    <3>2. below \in Seq(Frames) /\ Len(below) = i - 1 /\ \A j \in 1 .. (i - 1) : below[j] = stack[j]
      BY <3>1
    <3>3. r \in Requests /\ r.kind /= "none"
      <4>1. r \in Requests
        BY <3>1 DEF Frames
      <4>2. r.kind = "none" => r = NoRequest
        BY <4>1, RequestFields
      <4> QED BY <2>2, <4>1, <4>2, NoRequestTyped
    <3>4. Due(r, stack, i - 1)
      BY <2>2 DEF Inv, SavedDue
    <3> HIDE DEF r, below
    <3>5. Due(r, below, Len(below))
      BY <3>2, <3>4, DueBelow
    <3>6. Awaited(r, below)
      BY <3>2, <3>3, <3>5, DueIsAwaited
    <3> QED BY <3>6 DEF r, below
  <2> QED BY <2>1, <2>2
<1> QED BY <1>1, Invariant, PTL

\* Only the loop that the last level counts to, or the innermost function or sourced file, takes
\* a request, or a trap that puts it aside (control_flow.h).
THEOREM OnlyBoundariesConsume == Spec => OnlyItsBoundaryConsumes
<1>1. Inv /\ [Next]_vars =>
         [Pending /\ ~exiting /\ flow.aim /= 0 /\ flow' = NoRequest =>
             \/ Len(stack) = flow.aim
             \/ \E i \in DOMAIN stack' : i > Len(stack) /\ stack'[i].saved = flow]_vars
  <2> SUFFICES ASSUME Inv, Next, Pending, ~exiting, flow.aim /= 0, flow' = NoRequest
               PROVE  \/ Len(stack) = flow.aim
                      \/ \E i \in DOMAIN stack' : i > Len(stack) /\ stack'[i].saved = flow
    OBVIOUS
  <2>1. Due(flow, stack, Len(stack))
    BY DEF Inv, FlowDue
  <2>2. flow' /= flow
    BY NoRequestTyped DEF Pending
  <2>3. CASE StepShape
    <3>1. Consumed
      BY <2>2, <2>3 DEF StepShape, Calm, Requested
    <3>2. flow.kind \in {"break", "continue"} /\ flow.levels <= 1
      <4>1. flow \in Requests /\ flow.levels \in Nat
        BY RequestFields DEF Inv, Typed
      <4>2. flow.kind \in {"break", "continue"}
        BY <2>2, <3>1 DEF Consumed, ConsumeLoop
      <4>3. ASSUME flow.levels > 1 PROVE FALSE
        <5>1. flow' = [flow EXCEPT !.levels = @ - 1]
          BY <3>1, <4>1, <4>2, <4>3 DEF Consumed, ConsumeLoop
        <5>2. flow'.kind = flow.kind
          BY <4>1, <5>1 DEF Requests
        <5> QED BY <4>2, <5>2, NoRequestTyped
      <4> QED BY <4>1, <4>2, <4>3
    <3>3. flow.aim = Len(stack)
      BY <2>1, <3>1, <3>2, LastLevel DEF Consumed, Inv
    <3> QED BY <3>3
  <2>4. CASE RunTrap
    <3> DEFINE n == Len(stack)
    <3>1. PICK reported \in {Success, Interrupted} :
             stack' = stack \o (<<[Frame("trap", "body") EXCEPT !.saved = flow, !.code = reported]>> \o Block)
      BY <2>4 DEF RunTrap, Call
    <3> DEFINE trap == [Frame("trap", "body") EXCEPT !.saved = flow, !.code = reported]
    <3>2. trap.saved = flow
      BY DEF Frame
    <3>3. stack \in Seq(Frames) /\ n \in Nat
      BY DEF Inv, Typed
    <3> HIDE DEF trap
    <3>4. Block \in Seq(Frames)
      BY NewBlock
    <3>5. stack' = stack \o (<<trap>> \o Block)
      BY <3>1 DEF trap
    <3>6. n + 1 \in DOMAIN stack' /\ stack'[n + 1] = trap
      <4>1. <<trap>> \o Block \in Seq({trap} \cup Frames) /\ (<<trap>> \o Block)[1] = trap /\ Len(<<trap>> \o Block) \in Nat \ {0}
        BY <3>4
      <4> DEFINE more == <<trap>> \o Block
      <4>2. more \in Seq({trap} \cup Frames) /\ more[1] = trap /\ Len(more) \in Nat \ {0}
        BY <4>1
      <4> HIDE DEF more
      <4>3. Len(stack \o more) = n + Len(more) /\ DOMAIN (stack \o more) = 1 .. (n + Len(more))
            /\ (stack \o more)[n + 1] = more[1]
        BY <3>3, <4>2
      <4>4. n + 1 \in 1 .. (n + Len(more))
        BY <3>3, <4>2
      <4> QED BY <3>5, <4>2, <4>3, <4>4 DEF more
    <3>7. n + 1 > n
      BY <3>3
    <3> QED BY <3>2, <3>6, <3>7
  <2>5. CASE TrapEnds
    BY <2>2, <2>5 DEF TrapEnds, RestoreRequest
  <2>6. CASE ScopeReturns
    <3>1. flow.kind = "return" /\ stack /= <<>> /\ Top.kind = "function"
      BY <2>2, <2>6 DEF ScopeReturns, ConsumesReturn, Returned
    <3>2. Len(stack) \in Nat \ {0} /\ stack[Len(stack)] = Top
      BY <3>1, TopOf DEF Inv, Typed
    <3>3. Len(stack) \in 1 .. Len(stack)
      BY <3>2
    <3>4. Len(stack) \in FunctionsTo(stack, Len(stack))
      BY <3>1, <3>2, <3>3 DEF FunctionsTo
    <3>5. flow.aim \in 1 .. Len(stack) /\ Len(stack) <= flow.aim
      BY <2>1, <3>1, <3>4 DEF Due, FunctionsTo
    <3> QED BY <3>2, <3>5
  <2>7. CASE UNCHANGED vars
    BY <2>2, <2>7 DEF vars
  <2> QED BY <2>3, <2>4, <2>5, <2>6, <2>7, Shapes
<1> QED BY <1>1, Invariant, PTL DEF Spec, OnlyItsBoundaryConsumes
=============================================================================
