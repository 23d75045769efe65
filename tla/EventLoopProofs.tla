--------------------------- MODULE EventLoopProofs ---------------------------
(***************************************************************************)
(* What survives every interleaving of handlers, callbacks and nested      *)
(* loops, for any number of people, animations and waiting handlers.       *)
(***************************************************************************)
EXTENDS EventLoop, FiniteSetTheorems, TLAPS

RunType == [order : Seq(NodeId), shown : Nat, state : {"running", "done", "dead"}]
FrameType == [kind : {"adjacency", "performance", "sample"},
              opened : SUBSET NodeId, answer : {None, "go", "cancel"}]

\* Every animation stands at some position of its order.
Standing == \A r \in DOMAIN runs : runs[r].shown \in 1..Len(runs[r].order)

\* At most one of the people the handler was opened on is missing, and if one
\* is, the Delete key has nobody left to delete.
AllOrNobodySelected(opened) ==
  /\ people \subseteq opened
  /\ opened \subseteq people \/ (selected_node = None /\ \E n \in opened : opened \ people = {n})

\* The grab is held by the innermost handler, which still waits, or by nobody
\* who waits.
GrabIsInnermost ==
  grab \in DOMAIN frames =>
    /\ grab = Len(frames)
    /\ frames[grab].answer = None
    /\ AllOrNobodySelected(frames[grab].opened)

Animated == Standing /\ OneCallbackEach /\ GlowIsExplained

Inv == TypeOK /\ Animated /\ GrabIsInnermost

-----------------------------------------------------------------------------
\* The elements of a sequence decide its type.
LEMMA SeqOfElements ==
  ASSUME NEW S, NEW T, NEW s \in Seq(S), \A k \in 1..Len(s) : s[k] \in T
  PROVE  s \in Seq(T)
  OBVIOUS

\* A function on 1..n is a sequence.
LEMMA FunctionIsSeq ==
  ASSUME NEW T, NEW n \in Nat, NEW f \in [1..n -> T]
  PROVE  f \in Seq(T) /\ Len(f) = n
  OBVIOUS

\* The order a search gives an animation has a first person.
LEMMA OrderTyped ==
  ASSUME NEW S \in SUBSET NodeId, NEW o \in Orders(S)
  PROVE  o \in Seq(NodeId) /\ Len(o) >= 1 /\ o[1] \in S
<1>1. PICK k \in 1..Cardinality(S) : o \in [1..k -> S]
  BY DEF Orders
<1>2. k \in Nat /\ 1 <= k
  BY <1>1
<1>3. o \in Seq(S) /\ Len(o) = k
  BY <1>1, <1>2
<1> QED BY <1>1, <1>2, <1>3

-----------------------------------------------------------------------------
(***************************************************************************)
(* Animations.                                                             *)
(***************************************************************************)
LEMMA AnimatePreserves ==
  ASSUME Inv, NEW o \in Orders(people), AnimateTraversal(o)
  PROVE  TypeOK' /\ Animated'
<1>0. o \in Seq(NodeId) /\ Len(o) >= 1 /\ o[1] \in people
  BY OrderTyped DEF Inv, TypeOK
<1>1. /\ runs \in Seq(RunType) /\ queue \in Seq(DOMAIN runs)
      /\ runs' = Append(runs, Run(o)) /\ queue' = Append(queue, Len(runs) + 1)
      /\ glow' = {o[1]} /\ UNCHANGED <<people, selected_node, frames, grab>>
  BY DEF Inv, TypeOK, RunType, AnimateTraversal, canvas, waiting
<1>2. Run(o) \in RunType
  BY <1>0 DEF Run, RunType
<1>3. /\ runs' \in Seq(RunType) /\ Len(runs') = Len(runs) + 1
      /\ DOMAIN runs' = 1..(Len(runs) + 1) /\ DOMAIN runs = 1..Len(runs)
      /\ \A r \in DOMAIN runs : runs'[r] = runs[r]
      /\ runs'[Len(runs) + 1] = Run(o)
  BY <1>1, <1>2
<1>4. /\ Len(queue') = Len(queue) + 1 /\ DOMAIN queue = 1..Len(queue)
      /\ DOMAIN queue' = 1..(Len(queue) + 1)
      /\ \A k \in DOMAIN queue : queue'[k] = queue[k] /\ queue[k] \in DOMAIN runs
      /\ queue'[Len(queue) + 1] = Len(runs) + 1
  BY <1>1, <1>3
<1>5. queue' \in Seq(DOMAIN runs')
  <2>1. queue' \in Seq(Int)
    BY <1>1, <1>3
  <2> QED BY <1>3, <1>4, <2>1, SeqOfElements
<1>6. TypeOK'
  BY <1>0, <1>1, <1>3, <1>5 DEF Inv, TypeOK, RunType
<1>7. Standing'
  BY <1>0, <1>3 DEF Inv, Animated, Standing, Run
<1>8. OneCallbackEach'
  <2>1. IsInjective(queue')
    BY <1>3, <1>4 DEF Inv, Animated, OneCallbackEach, IsInjective
  <2>2. ASSUME NEW r \in DOMAIN runs'
        PROVE  Running(r)' <=> \E k \in DOMAIN queue' : queue'[k] = r
    <3>1. CASE r = Len(runs) + 1
      BY <1>3, <1>4, <3>1 DEF Running, Run
    <3>2. CASE r \in DOMAIN runs
      <4>1. Running(r) <=> \E k \in DOMAIN queue : queue[k] = r
        BY <3>2 DEF Inv, Animated, OneCallbackEach
      <4>2. Running(r)' <=> Running(r)
        BY <1>3, <3>2 DEF Running
      <4>3. r # Len(runs) + 1
        BY <1>3, <3>2
      <4> QED BY <1>4, <4>1, <4>2, <4>3
    <3> QED BY <1>3, <3>1, <3>2
  <2> QED BY <2>1, <2>2 DEF OneCallbackEach
<1>9. GlowIsExplained'
  BY <1>1, <1>3 DEF GlowIsExplained, At, Run
<1> QED BY <1>6, <1>7, <1>8, <1>9 DEF Animated

\* The step of a callback: the run it serves stands one further on, where the
\* outline is.
LEMMA StepPreserves ==
  ASSUME Inv, Step
  PROVE  TypeOK' /\ Animated'
<1> DEFINE r == Head(queue)
           i == runs[r].shown
           o == runs[r].order
<1>1. /\ runs \in Seq(RunType) /\ queue \in Seq(DOMAIN runs) /\ queue # <<>>
      /\ i < Len(o) /\ o[i + 1] \in people
      /\ glow' = (glow \cup {o[i + 1]}) \ {o[i]}
      /\ runs' = [runs EXCEPT ![r].shown = i + 1]
      /\ queue' = Append(Tail(queue), r)
      /\ UNCHANGED <<people, selected_node, frames, grab>>
  BY DEF Inv, TypeOK, RunType, Step, GlowAfter, canvas, waiting
<1>2. r \in DOMAIN runs /\ r = queue[1] /\ DOMAIN runs = 1..Len(runs)
  BY <1>1
<1>3. runs[r] \in RunType /\ i \in Nat /\ o \in Seq(NodeId)
  <2>1. runs[r] \in RunType
    BY <1>1, <1>2
  <2> QED BY <2>1 DEF RunType
<1> HIDE DEF r, i, o
<1>4. /\ runs' \in Seq(RunType) /\ DOMAIN runs' = DOMAIN runs
      /\ \A q \in DOMAIN runs :
           /\ runs'[q].order = runs[q].order /\ runs'[q].state = runs[q].state
           /\ runs'[q].shown = IF q = r THEN i + 1 ELSE runs[q].shown
  <2>1. \A q \in DOMAIN runs : runs[q] \in RunType
    BY <1>1
  <2>2. \A q \in DOMAIN runs :
          runs'[q] = IF q = r THEN [runs[q] EXCEPT !.shown = i + 1] ELSE runs[q]
    BY <1>1, <1>2
  <2>a. i + 1 \in Nat
    BY <1>3
  <2>3. DOMAIN runs' = DOMAIN runs
    BY <1>1
  <2>4. \A q \in DOMAIN runs :
           /\ runs'[q] \in RunType
           /\ runs'[q].order = runs[q].order /\ runs'[q].state = runs[q].state
           /\ runs'[q].shown = IF q = r THEN i + 1 ELSE runs[q].shown
    BY <2>a, <2>1, <2>2 DEF RunType
  <2>5. runs' \in [1..Len(runs) -> RunType] /\ Len(runs) \in Nat
    BY <1>1, <1>2, <2>3, <2>4
  <2>6. runs' \in Seq(RunType)
    BY <2>5, FunctionIsSeq
  <2> QED BY <2>3, <2>4, <2>6
<1>5. /\ queue' \in Seq(DOMAIN runs) /\ Len(queue') = Len(queue) /\ Len(queue) \in Nat \ {0}
      /\ DOMAIN queue = 1..Len(queue) /\ DOMAIN queue' = DOMAIN queue
      /\ \A k \in 1..(Len(queue) - 1) : queue'[k] = queue[k + 1]
      /\ queue'[Len(queue)] = queue[1]
  BY <1>1, <1>2
<1>6. TypeOK'
  <2>1. glow' \subseteq people'
    BY <1>1 DEF Inv, TypeOK
  <2> QED BY <1>1, <1>4, <1>5, <2>1 DEF Inv, TypeOK, RunType
<1>7. Standing'
  BY <1>1, <1>3, <1>4 DEF Inv, Animated, Standing, o, i
<1>8. OneCallbackEach'
  <2>1. IsInjective(queue')
    <3> SUFFICES ASSUME NEW j \in DOMAIN queue', NEW k \in DOMAIN queue', queue'[j] = queue'[k]
                 PROVE  j = k
      BY DEF IsInjective
    <3>1. IsInjective(queue)
      BY DEF Inv, Animated, OneCallbackEach
    <3> DEFINE from(x) == IF x = Len(queue) THEN 1 ELSE x + 1
    <3>2. \A x \in DOMAIN queue' : queue'[x] = queue[from(x)] /\ from(x) \in DOMAIN queue
      BY <1>5
    <3>3. from(j) = from(k)
      BY <3>1, <3>2 DEF IsInjective
    <3> QED BY <1>5, <3>3
  <2>2. ASSUME NEW q \in DOMAIN runs'
        PROVE  Running(q)' <=> \E k \in DOMAIN queue' : queue'[k] = q
    <3>1. Running(q)' <=> Running(q)
      BY <1>4 DEF Running
    <3>2. Running(q) <=> \E k \in DOMAIN queue : queue[k] = q
      BY <1>4 DEF Inv, Animated, OneCallbackEach
    <3>3. ASSUME NEW k \in DOMAIN queue, queue[k] = q
          PROVE  \E j \in DOMAIN queue' : queue'[j] = q
      <4>1. CASE k = 1
        BY <1>5, <3>3, <4>1
      <4>2. CASE k > 1
        <5>1. k - 1 \in 1..(Len(queue) - 1) /\ k - 1 \in DOMAIN queue'
          BY <1>1, <1>5, <4>2
        <5>2. queue'[k - 1] = queue[k]
          BY <1>5, <5>1
        <5> QED BY <3>3, <5>1, <5>2
      <4> QED BY <1>5, <4>1, <4>2
    <3>4. ASSUME NEW j \in DOMAIN queue', queue'[j] = q
          PROVE  \E k \in DOMAIN queue : queue[k] = q
      <4>1. CASE j = Len(queue)
        BY <1>5, <3>4, <4>1
      <4>2. CASE j # Len(queue)
        BY <1>5, <3>4, <4>2
      <4> QED BY <4>1, <4>2
    <3> QED BY <3>1, <3>2, <3>3, <3>4
  <2> QED BY <2>1, <2>2 DEF OneCallbackEach
<1>9. GlowIsExplained'
  <2> SUFFICES ASSUME NEW n \in glow' PROVE \E q \in DOMAIN runs' : At(q)' = n
    BY DEF GlowIsExplained
  <2>1. CASE n = o[i + 1]
    BY <1>2, <1>4, <2>1 DEF At, o
  <2>2. CASE n \in glow /\ n # o[i]
    <3>1. PICK q \in DOMAIN runs : At(q) = n
      BY <2>2 DEF Inv, Animated, GlowIsExplained
    <3>2. q # r
      BY <2>2, <3>1 DEF At, o, i
    <3> QED BY <1>4, <3>1, <3>2 DEF At
  <2> QED BY <1>1, <2>1, <2>2
<1> QED BY <1>6, <1>7, <1>8, <1>9 DEF Animated

\* The last callback of a run: it stands where it stood.
LEMMA FinishPreserves ==
  ASSUME Inv, Finish
  PROVE  TypeOK' /\ Animated'
<1> DEFINE r == Head(queue)
<1>1. PICK state \in {"done", "dead"} : runs' = [runs EXCEPT ![r].state = state]
  BY DEF Finish
<1>2. /\ runs \in Seq(RunType) /\ queue \in Seq(DOMAIN runs) /\ queue # <<>>
      /\ queue' = Tail(queue)
      /\ UNCHANGED <<people, selected_node, glow, frames, grab>>
  BY DEF Inv, TypeOK, RunType, Finish, canvas, waiting
<1>3. r \in DOMAIN runs /\ r = queue[1] /\ DOMAIN runs = 1..Len(runs)
  BY <1>2
<1> HIDE DEF r
<1>4. /\ runs' \in Seq(RunType) /\ DOMAIN runs' = DOMAIN runs
      /\ \A q \in DOMAIN runs :
           /\ runs'[q].order = runs[q].order /\ runs'[q].shown = runs[q].shown
           /\ runs'[q].state = IF q = r THEN state ELSE runs[q].state
  <2>1. \A q \in DOMAIN runs : runs[q] \in RunType
    BY <1>2
  <2>2. \A q \in DOMAIN runs :
          runs'[q] = IF q = r THEN [runs[q] EXCEPT !.state = state] ELSE runs[q]
    BY <1>1, <1>2, <1>3
  <2>3. DOMAIN runs' = DOMAIN runs
    BY <1>1
  <2>4. \A q \in DOMAIN runs :
           /\ runs'[q] \in RunType
           /\ runs'[q].order = runs[q].order /\ runs'[q].shown = runs[q].shown
           /\ runs'[q].state = IF q = r THEN state ELSE runs[q].state
    BY <2>1, <2>2 DEF RunType
  <2>5. runs' \in [1..Len(runs) -> RunType] /\ Len(runs) \in Nat
    BY <1>1, <1>2, <1>3, <2>3, <2>4
  <2>6. runs' \in Seq(RunType)
    BY <2>5, FunctionIsSeq
  <2> QED BY <2>3, <2>4, <2>6
<1>5. /\ queue' \in Seq(DOMAIN runs) /\ Len(queue) \in Nat \ {0} /\ DOMAIN queue = 1..Len(queue)
      /\ DOMAIN queue' = 1..(Len(queue) - 1)
      /\ \A k \in 1..(Len(queue) - 1) : queue'[k] = queue[k + 1]
  BY <1>2, <1>3
<1>6. TypeOK'
  BY <1>2, <1>4, <1>5 DEF Inv, TypeOK, RunType
<1>7. Standing'
  BY <1>4 DEF Inv, Animated, Standing
<1>8. OneCallbackEach'
  <2>0. IsInjective(queue)
    BY DEF Inv, Animated, OneCallbackEach
  <2>1. IsInjective(queue')
    <3> SUFFICES ASSUME NEW j \in DOMAIN queue', NEW k \in DOMAIN queue', queue'[j] = queue'[k]
                 PROVE  j = k
      BY DEF IsInjective
    <3>1. /\ queue'[j] = queue[j + 1] /\ queue'[k] = queue[k + 1]
          /\ j + 1 \in DOMAIN queue /\ k + 1 \in DOMAIN queue
      BY <1>5
    <3>2. j + 1 = k + 1
      BY <2>0, <3>1 DEF IsInjective
    <3> QED BY <1>5, <3>2
  <2>2. ASSUME NEW q \in DOMAIN runs'
        PROVE  Running(q)' <=> \E k \in DOMAIN queue' : queue'[k] = q
    <3>1. Running(q) <=> \E k \in DOMAIN queue : queue[k] = q
      BY <1>4 DEF Inv, Animated, OneCallbackEach
    <3>2. CASE q = r
      <4>1. ~Running(q)'
        BY <1>4, <3>2 DEF Running
      <4>2. ASSUME NEW k \in DOMAIN queue', queue'[k] = q PROVE FALSE
        <5>1. queue[k + 1] = queue[1] /\ k + 1 \in DOMAIN queue /\ 1 \in DOMAIN queue
          BY <1>2, <1>3, <1>5, <3>2, <4>2
        <5>2. k + 1 = 1
          BY <2>0, <5>1 DEF IsInjective
        <5> QED BY <1>5, <5>2
      <4> QED BY <4>1, <4>2
    <3>3. CASE q # r
      <4>1. Running(q)' <=> Running(q)
        BY <1>4, <3>3 DEF Running
      <4>2. ASSUME NEW k \in DOMAIN queue, queue[k] = q
            PROVE  \E j \in DOMAIN queue' : queue'[j] = q
        <5>1. k # 1 /\ k - 1 \in 1..(Len(queue) - 1)
          BY <1>2, <1>3, <1>5, <3>3, <4>2
        <5>2. queue'[k - 1] = queue[k]
          BY <1>5, <5>1
        <5> QED BY <1>5, <4>2, <5>1, <5>2
      <4>3. ASSUME NEW j \in DOMAIN queue', queue'[j] = q
            PROVE  \E k \in DOMAIN queue : queue[k] = q
        BY <1>2, <1>5, <4>3
      <4> QED BY <3>1, <4>1, <4>2, <4>3
    <3> QED BY <3>2, <3>3
  <2> QED BY <2>1, <2>2 DEF OneCallbackEach
<1>9. GlowIsExplained'
  BY <1>2, <1>4 DEF Inv, Animated, GlowIsExplained, At
<1> QED BY <1>6, <1>7, <1>8, <1>9 DEF Animated

-----------------------------------------------------------------------------
(***************************************************************************)
(* The other handlers start and serve no animation.                        *)
(***************************************************************************)
\* Who is drawn and outlined may change; the callbacks stay as they are.
LEMMA NoCallbackServed ==
  ASSUME Inv, UNCHANGED <<runs, queue>>, glow' \subseteq glow
  PROVE  Animated'
<1>1. \A r \in DOMAIN runs : (Running(r) <=> Running(r)') /\ At(r)' = At(r)
  BY DEF Running, At
<1> QED BY <1>1 DEF Inv, Animated, Standing, OneCallbackEach, GlowIsExplained

LEMMA AnimatedUnchanged ==
  ASSUME Inv, UNCHANGED <<canvas, glow, runs, queue>>,
         frames' \in Seq(FrameType), grab' \in {Free, Popup} \cup DOMAIN frames'
  PROVE  TypeOK' /\ Animated'
<1>1. TypeOK'
  BY DEF Inv, TypeOK, canvas, FrameType
<1> QED BY <1>1, NoCallbackServed

LEMMA NobodyWaits == ASSUME Inv, PointerFree PROVE grab \notin DOMAIN frames
  BY DEF Inv, TypeOK, PointerFree, Free

\* The handlers of the pointer: nobody who waits has the grab.
LEMMA PointingPreserves ==
  ASSUME Inv, Pointing
  PROVE  Inv'
<1>1. /\ runs \in Seq(RunType) /\ queue \in Seq(DOMAIN runs)
      /\ frames \in Seq(FrameType) /\ grab \in {Free, Popup} \cup DOMAIN frames
      /\ people \subseteq NodeId /\ glow \subseteq people
      /\ selected_node \in people \cup {None}
  BY DEF Inv, TypeOK, RunType, FrameType
<1>2. CASE \E n \in people : OnRightClick(n)
  <2> PICK n \in people : OnRightClick(n)
    BY <1>2
  <2>1. /\ people' = people \ {n} /\ glow' = glow \ {n}
        /\ selected_node' = (IF selected_node = n THEN None ELSE selected_node)
        /\ UNCHANGED <<runs, queue, frames, grab>> /\ PointerFree
    BY DEF OnRightClick, Without, waiting
  <2>2. TypeOK'
    BY <1>1, <2>1 DEF TypeOK, RunType, FrameType
  <2> QED BY <2>1, <2>2, NobodyWaits, NoCallbackServed DEF Inv, GrabIsInnermost
<1>3. CASE \E n \in people : OnCanvasClick(n)
  <2> PICK n \in people : OnCanvasClick(n)
    BY <1>3
  <2>1. /\ UNCHANGED <<people, runs, queue, frames, grab>> /\ PointerFree
        /\ selected_node' \in people \cup {None} /\ glow' \subseteq glow
    BY DEF OnCanvasClick, waiting
  <2>2. TypeOK'
    BY <1>1, <2>1 DEF TypeOK, RunType, FrameType
  <2> QED BY <2>1, <2>2, NobodyWaits, NoCallbackServed DEF Inv, GrabIsInnermost
<1>4. CASE \E n \in NodeId \ people : CreateNode(n)
  <2>1. /\ people' \subseteq NodeId /\ people \subseteq people'
        /\ UNCHANGED <<selected_node, glow, runs, queue, frames, grab>> /\ PointerFree
    BY <1>1, <1>4 DEF CreateNode, waiting
  <2>2. TypeOK'
    BY <1>1, <2>1 DEF TypeOK, RunType, FrameType
  <2> QED BY <2>1, <2>2, NobodyWaits, NoCallbackServed DEF Inv, GrabIsInnermost
<1>5. CASE \E o \in Orders(people) : AnimateTraversal(o)
  <2>1. PointerFree /\ UNCHANGED <<frames, grab>>
    BY <1>5 DEF AnimateTraversal, waiting
  <2> QED BY <1>5, <2>1, NobodyWaits, AnimatePreserves DEF Inv, GrabIsInnermost
<1>6. CASE \E S \in SUBSET people : Restyle(S)
  <2>1. /\ UNCHANGED <<people, selected_node, runs, queue, frames, grab>> /\ PointerFree
        /\ glow' \subseteq glow
    BY <1>6 DEF Restyle, canvas, waiting
  <2>2. TypeOK'
    BY <1>1, <2>1 DEF TypeOK, RunType, FrameType
  <2> QED BY <2>1, <2>2, NobodyWaits, NoCallbackServed DEF Inv, GrabIsInnermost
<1>7. CASE \E S \in SUBSET NodeId : ClearOrLoad(S)
  <2>1. /\ people' \subseteq NodeId /\ glow' = {} /\ selected_node' = None
        /\ UNCHANGED <<runs, queue, frames, grab>> /\ PointerFree
    BY <1>7 DEF ClearOrLoad, StartAfresh, waiting
  <2>2. TypeOK'
    BY <1>1, <2>1 DEF TypeOK, RunType, FrameType
  <2> QED BY <2>1, <2>2, NobodyWaits, NoCallbackServed DEF Inv, GrabIsInnermost
<1> QED BY <1>2, <1>3, <1>4, <1>5, <1>6, <1>7 DEF Pointing

\* The Delete key, whoever waits: of the people a handler with the grab was
\* opened on it takes one, and then nobody is selected.
LEMMA DeleteKeyPreserves ==
  ASSUME Inv, OnDeleteKey
  PROVE  Inv'
<1>1. /\ people' = people \ {selected_node} /\ glow' = glow \ {selected_node}
      /\ selected_node \in people /\ selected_node' = None
      /\ UNCHANGED <<runs, queue, frames, grab>>
  BY DEF OnDeleteKey, Without, Inv, TypeOK, waiting
<1>2. TypeOK'
  BY <1>1 DEF Inv, TypeOK
<1>3. GrabIsInnermost'
  <2> SUFFICES ASSUME grab \in DOMAIN frames
               PROVE  AllOrNobodySelected(frames[grab].opened)'
    BY <1>1 DEF Inv, GrabIsInnermost
  <2> DEFINE opened == frames[grab].opened
  <2>1. people \subseteq opened /\ opened \subseteq people
    BY <1>1, NoneAssumption DEF Inv, TypeOK, GrabIsInnermost, AllOrNobodySelected
  <2>2. opened \ people' = {selected_node} /\ selected_node \in opened
    BY <1>1, <2>1
  <2> QED BY <1>1, <2>1, <2>2 DEF AllOrNobodySelected
<1> QED BY <1>1, <1>2, <1>3, NoCallbackServed DEF Inv

\* Popups that open, are answered and close.
LEMMA AskingPreserves ==
  ASSUME Inv, Asking
  PROVE  Inv'
<1>1. /\ frames \in Seq(FrameType) /\ grab \in {Free, Popup} \cup DOMAIN frames
      /\ people \subseteq NodeId /\ selected_node \in people \cup {None}
      /\ DOMAIN frames = 1..Len(frames) /\ Len(frames) \in Nat
  BY DEF Inv, TypeOK, FrameType
<1>2. CASE \E kind \in {"adjacency", "performance", "sample"} : AskExportAction(kind)
  <2> PICK kind \in {"adjacency", "performance", "sample"} : AskExportAction(kind)
    BY <1>2
  <2>1. /\ frames' = Append(frames, Frame(kind)) /\ grab' = Len(frames) + 1
        /\ UNCHANGED <<people, selected_node, canvas, glow, runs, queue>>
    BY DEF AskExportAction, canvas
  <2>2. Frame(kind) \in FrameType
    BY <1>1 DEF Frame, FrameType
  <2>3. /\ frames' \in Seq(FrameType) /\ Len(frames') = Len(frames) + 1
        /\ DOMAIN frames' = 1..(Len(frames) + 1) /\ frames'[Len(frames) + 1] = Frame(kind)
    BY <1>1, <2>1, <2>2
  <2>4. TypeOK' /\ Animated'
    BY <1>1, <2>1, <2>3, AnimatedUnchanged
  <2>5. GrabIsInnermost'
    BY <2>1, <2>3 DEF GrabIsInnermost, AllOrNobodySelected, Frame
  <2> QED BY <2>4, <2>5 DEF Inv
<1>3. CASE \E f \in DOMAIN frames, choice \in {"go", "cancel"} : Answer(f, choice)
  <2> PICK f \in DOMAIN frames, choice \in {"go", "cancel"} : Answer(f, choice)
    BY <1>3
  <2>1. /\ frames' = [frames EXCEPT ![f].answer = choice] /\ grab' = Free
        /\ UNCHANGED <<canvas, glow, runs, queue>>
    BY DEF Answer
  <2>2. frames[f] \in FrameType
    BY <1>1
  <2>3. [frames[f] EXCEPT !.answer = choice] \in FrameType
    BY <2>2 DEF FrameType
  <2>4. frames' \in [1..Len(frames) -> FrameType]
    BY <1>1, <2>1, <2>3
  <2>5. frames' \in Seq(FrameType)
    BY <1>1, <2>4, FunctionIsSeq
  <2>6. grab' \notin DOMAIN frames'
    BY <1>1, <2>1, <2>4 DEF Free
  <2> QED BY <2>1, <2>5, <2>6, AnimatedUnchanged DEF Inv, GrabIsInnermost
<1>4. CASE ShowSearchDialog
  BY <1>1, <1>4, AnimatedUnchanged DEF ShowSearchDialog, Inv, GrabIsInnermost, Popup
<1>5. CASE ClosePopup
  <2>1. grab' = Free /\ UNCHANGED <<canvas, glow, runs, queue, frames>>
    BY <1>5 DEF ClosePopup
  <2>2. grab' \notin DOMAIN frames'
    BY <1>1, <2>1 DEF Free
  <2> QED BY <1>1, <2>1, <2>2, AnimatedUnchanged DEF Inv, GrabIsInnermost
<1> QED BY <1>2, <1>3, <1>4, <1>5 DEF Asking

\* A handler that goes on has been answered, so it does not have the grab.
LEMMA GoingOnPreserves ==
  ASSUME Inv, GoingOn
  PROVE  Inv'
<1> PICK S \in SUBSET NodeId : Resume(S)
  BY DEF GoingOn
<1>1. /\ frames \in Seq(FrameType) /\ frames # <<>>
      /\ frames[Len(frames)].answer # None
      /\ frames' = SubSeq(frames, 1, Len(frames) - 1)
  BY DEF Inv, TypeOK, FrameType, Resume, Settled, Last, Front
<1>2. /\ frames' \in Seq(FrameType) /\ DOMAIN frames' = 1..(Len(frames) - 1)
      /\ DOMAIN frames = 1..Len(frames) /\ Len(frames) \in Nat
  BY <1>1
<1>3. grab \in {Free, Popup}
  BY <1>1 DEF Inv, TypeOK, GrabIsInnermost
<1>4. grab' \in {Free, Popup}
  BY <1>3 DEF Resume, ExportAdjacency, RunPerformanceTest, ShowSampleDialog
<1>5. GrabIsInnermost'
  BY <1>2, <1>4 DEF GrabIsInnermost, Free, Popup
<1>6. CASE UNCHANGED <<canvas, glow, runs, queue>>
  BY <1>2, <1>4, <1>5, <1>6, AnimatedUnchanged DEF Inv
<1>7. CASE StartAfresh(S)
  <2>1. TypeOK'
    BY <1>2, <1>4, <1>7 DEF Inv, TypeOK, StartAfresh, FrameType
  <2> QED BY <1>5, <1>7, <2>1, NoCallbackServed DEF StartAfresh, Inv
<1> QED BY <1>6, <1>7 DEF Resume, ExportAdjacency, RunPerformanceTest, ShowSampleDialog

-----------------------------------------------------------------------------
LEMMA InitHolds == Init => Inv
  BY DEF Init, Inv, TypeOK, Animated, Standing, OneCallbackEach, GlowIsExplained,
         GrabIsInnermost, IsInjective, Running, Free

LEMMA Invariance == Spec => []Inv
<1>1. Inv /\ [Next]_vars => Inv'
  <2> SUFFICES ASSUME Inv, [Next]_vars PROVE Inv'
    OBVIOUS
  <2>1. CASE Callback
    <3>1. UNCHANGED <<canvas, waiting>>
      BY <2>1 DEF Callback, Step, Finish
    <3>2. GrabIsInnermost'
      BY <3>1 DEF Inv, GrabIsInnermost, AllOrNobodySelected, canvas, waiting
    <3> QED BY <2>1, <3>2, StepPreserves, FinishPreserves DEF Callback, Inv
  <2>2. CASE Pointing
    BY <2>2, PointingPreserves
  <2>3. CASE OnDeleteKey
    BY <2>3, DeleteKeyPreserves
  <2>4. CASE Asking
    BY <2>4, AskingPreserves
  <2>5. CASE GoingOn
    BY <2>5, GoingOnPreserves
  <2>6. CASE UNCHANGED vars
    <3>1. frames \in Seq(FrameType) /\ grab \in {Free, Popup} \cup DOMAIN frames
      BY DEF Inv, TypeOK, FrameType
    <3> QED BY <2>6, <3>1, AnimatedUnchanged
            DEF vars, canvas, waiting, Inv, GrabIsInnermost, AllOrNobodySelected
  <2> QED BY <2>1, <2>2, <2>3, <2>4, <2>5, <2>6 DEF Next
<1> QED BY <1>1, InitHolds, PTL DEF Spec

\* The attributes of the window, the pending callbacks and the stack of nested
\* loops keep their types.
THEOREM EventLoopTyped == Spec => []TypeOK
<1>1. Inv => TypeOK
  BY DEF Inv
<1> QED BY <1>1, Invariance, PTL

\* Each running animation has exactly one callback pending: no interleaving
\* loses one or queues it twice.
THEOREM CallbacksAreKept == Spec => []OneCallbackEach
<1>1. Inv => OneCallbackEach
  BY DEF Inv, Animated
<1> QED BY <1>1, Invariance, PTL

\* What its callback does to an animation: one more person, the end with the
\* whole order shown, or the end because somebody is missing.
Served(r) ==
  \/ /\ runs[r].shown < Len(runs[r].order)
     /\ runs'[r] = [runs[r] EXCEPT !.shown = @ + 1]
  \/ /\ runs[r].shown = Len(runs[r].order)
     /\ runs'[r] = [runs[r] EXCEPT !.state = "done"]
  \/ LostSomeone(r) /\ runs'[r] = [runs[r] EXCEPT !.state = "dead"]

\* Whatever the step is, an animation that waits keeps what it has shown and is
\* not overtaken, and comes closer to its turn with every callback of another.
EachInTurn ==
  \A k \in DOMAIN queue :
    IF Callback /\ k = 1 THEN Served(queue[1])
    ELSE \E l \in DOMAIN queue' :
           /\ queue'[l] = queue[k] /\ runs'[queue[k]] = runs[queue[k]]
           /\ l <= k /\ (Callback => l < k)

LEMMA CallbackServes ==
  ASSUME Inv, Callback
  PROVE  /\ EachInTurn
         /\ runs' # runs /\ DOMAIN runs' = DOMAIN runs
<1> DEFINE r == Head(queue)
           n == Len(queue)
<1>1. /\ queue # <<>> /\ queue \in Seq(DOMAIN runs) /\ runs \in Seq(RunType)
      /\ queue' \in {Tail(queue), Append(Tail(queue), r)}
  BY DEF Inv, TypeOK, RunType, Callback, Step, Finish
<1>2. n \in Nat \ {0} /\ DOMAIN queue = 1..n /\ r = queue[1] /\ r \in DOMAIN runs
  BY <1>1
<1>3. /\ DOMAIN queue' \in {1..n, 1..(n - 1)}
      /\ \A k \in 1..(n - 1) : queue'[k] = queue[k + 1]
  <2>1. /\ Tail(queue) \in Seq(DOMAIN runs) /\ Len(Tail(queue)) = n - 1
        /\ \A k \in 1..(n - 1) : Tail(queue)[k] = queue[k + 1]
    BY <1>1
  <2>2. CASE queue' = Tail(queue)
    BY <2>1, <2>2
  <2>3. CASE queue' = Append(Tail(queue), r)
    BY <1>2, <2>1, <2>3
  <2> QED BY <1>1, <2>2, <2>3
<1>4. \A k \in 2..n : queue[k] # r
  BY <1>2 DEF Inv, Animated, OneCallbackEach, IsInjective
<1>5. runs[r] \in RunType /\ runs[r].state = "running" /\ runs[r].shown \in 1..Len(runs[r].order)
  <2>1. runs[r] \in RunType
    BY <1>1, <1>2
  <2>2. runs[r].state = "running"
    BY <1>2 DEF Inv, Animated, OneCallbackEach, Running
  <2>3. runs[r].shown \in 1..Len(runs[r].order)
    BY <1>2 DEF Inv, Animated, Standing
  <2> QED BY <2>1, <2>2, <2>3
<1>6. PICK new : /\ runs' = [runs EXCEPT ![r] = new]
                 /\ \/ /\ runs[r].shown < Len(runs[r].order)
                       /\ new = [runs[r] EXCEPT !.shown = runs[r].shown + 1]
                    \/ /\ runs[r].shown >= Len(runs[r].order)
                       /\ new = [runs[r] EXCEPT !.state = "done"]
                    \/ /\ runs[r].shown < Len(runs[r].order)
                       /\ runs[r].order[runs[r].shown + 1] \notin people
                       /\ new = [runs[r] EXCEPT !.state = "dead"]
  <2>1. CASE Step
    <3>1. runs' = [runs EXCEPT ![r] = [runs[r] EXCEPT !.shown = runs[r].shown + 1]]
      BY <2>1, <1>2 DEF Step
    <3> QED BY <2>1, <3>1 DEF Step
  <2>2. CASE Finish
    <3>1. \A s : [runs EXCEPT ![r].state = s] = [runs EXCEPT ![r] = [runs[r] EXCEPT !.state = s]]
      OBVIOUS
    <3> QED BY <2>2, <3>1 DEF Finish
  <2> QED BY <2>1, <2>2 DEF Callback
<1> HIDE DEF r, n
<1>7. /\ DOMAIN runs' = DOMAIN runs /\ runs'[r] = new
      /\ \A q \in DOMAIN runs : q # r => runs'[q] = runs[q]
  BY <1>2, <1>6
<1>8. Served(r)
  <2>1. runs[r].shown \in Nat /\ Len(runs[r].order) \in Nat /\ DOMAIN runs[r].order = 1..Len(runs[r].order)
    BY <1>5 DEF RunType
  <2>2. CASE runs[r].shown < Len(runs[r].order) /\ new = [runs[r] EXCEPT !.shown = runs[r].shown + 1]
    BY <1>7, <2>2 DEF Served
  <2>3. CASE runs[r].shown >= Len(runs[r].order) /\ new = [runs[r] EXCEPT !.state = "done"]
    <3>1. runs[r].shown = Len(runs[r].order)
      BY <1>5, <2>1, <2>3
    <3> QED BY <1>7, <2>3, <3>1 DEF Served
  <2>4. CASE /\ runs[r].shown < Len(runs[r].order)
             /\ runs[r].order[runs[r].shown + 1] \notin people
             /\ new = [runs[r] EXCEPT !.state = "dead"]
    <3>1. runs[r].shown + 1 \in DOMAIN runs[r].order
      BY <2>1, <2>4
    <3>2. LostSomeone(r)
      BY <1>2, <2>4, <3>1 DEF LostSomeone
    <3> QED BY <1>7, <2>4, <3>2 DEF Served
  <2> QED BY <1>6, <2>2, <2>3, <2>4
<1>9. ASSUME NEW k \in 2..n
      PROVE  \E l \in DOMAIN queue' : /\ queue'[l] = queue[k] /\ runs'[queue[k]] = runs[queue[k]]
                                      /\ l <= k /\ l < k
  <2>1. k - 1 \in 1..(n - 1) /\ k - 1 \in DOMAIN queue' /\ k \in 1..n /\ k - 1 < k
    BY <1>2, <1>3
  <2>2. queue'[k - 1] = queue[k]
    BY <1>3, <2>1
  <2>3. queue[k] \in DOMAIN runs
    BY <1>1, <1>2, <2>1
  <2> QED BY <1>4, <1>7, <2>1, <2>2, <2>3
<1>10. EachInTurn
  <2>1. \A k \in DOMAIN queue : k = 1 \/ k \in 2..n
    BY <1>2
  <2>2. queue[1] = r
    BY <1>2
  <2> QED BY <1>8, <1>9, <2>1, <2>2 DEF EachInTurn
<1>11. new # runs[r]
  <2>1. runs[r].shown + 1 # runs[r].shown
    BY <1>5
  <2> QED BY <1>5, <1>6, <2>1 DEF RunType
<1> QED BY <1>2, <1>7, <1>10, <1>11

\* No interleaving starves an animation or takes back what it has shown: in
\* every step it keeps its place or moves up, and on its turn it goes on or
\* ends.  So what is missing is finite, and it has to wait for fewer callbacks
\* each time: the safety half of RunsToTheEnd.
THEOREM AnimationsTakeTurns == Spec => [][EachInTurn]_vars
<1>1. Inv /\ [Next]_vars => [EachInTurn]_vars
  <2> SUFFICES ASSUME Inv, Next PROVE EachInTurn
    BY DEF vars
  <2>1. queue \in Seq(DOMAIN runs) /\ runs \in Seq(RunType)
    BY DEF Inv, TypeOK, RunType
  <2>2. CASE Callback
    BY <2>2, CallbackServes
  <2>3. ASSUME ~Callback, UNCHANGED <<runs, queue>> PROVE EachInTurn
    <3>1. \A k \in DOMAIN queue : k \in DOMAIN queue' /\ k <= k
      BY <2>1, <2>3
    <3> QED BY <2>3, <3>1 DEF EachInTurn
  <2>4. ASSUME NEW o \in Orders(people), AnimateTraversal(o), ~Callback PROVE EachInTurn
    <3>1. runs' = Append(runs, Run(o)) /\ queue' = Append(queue, Len(runs) + 1)
      BY <2>4 DEF AnimateTraversal
    <3>2. \A k \in DOMAIN queue : /\ k \in DOMAIN queue' /\ k <= k
                                  /\ queue'[k] = queue[k] /\ queue[k] \in DOMAIN runs
      BY <2>1, <3>1
    <3>3. \A q \in DOMAIN runs : runs'[q] = runs[q]
      BY <2>1, <3>1
    <3> QED BY <2>4, <3>2, <3>3 DEF EachInTurn
  <2>5. CASE Pointing
    BY <2>2, <2>3, <2>4, <2>5
       DEF Pointing, OnRightClick, OnCanvasClick, CreateNode, Restyle, ClearOrLoad, Without,
           StartAfresh, canvas
  <2>6. CASE OnDeleteKey \/ Asking \/ GoingOn
    BY <2>2, <2>3, <2>6
       DEF OnDeleteKey, Asking, GoingOn, Without, AskExportAction, Answer, ShowSearchDialog,
           ClosePopup, Resume, ExportAdjacency, RunPerformanceTest, ShowSampleDialog, StartAfresh
  <2> QED BY <2>2, <2>5, <2>6 DEF Next
<1> QED BY <1>1, Invariance, PTL DEF Spec

\* However many animations interleave, with deletions and loads between their
\* steps, no step leaves a glow where no animation stands.
THEOREM GlowsAreExplained == Spec => []GlowIsExplained
<1>1. Inv => GlowIsExplained
  BY DEF Inv, Animated
<1> QED BY <1>1, Invariance, PTL

\* A handler whose popup has the grab is at most one deletion behind, however
\* many handlers wait in loops around it.
THEOREM OneDeletionBehind == Spec => []MissesAtMostOne
<1>1. Inv => MissesAtMostOne
  <2> SUFFICES ASSUME Inv, NEW f \in DOMAIN frames, grab = f
               PROVE  /\ people \subseteq frames[f].opened
                      /\ Cardinality(frames[f].opened \ people) <= 1
    BY DEF MissesAtMostOne
  <2> DEFINE opened == frames[f].opened
  <2>1. AllOrNobodySelected(opened)
    BY DEF Inv, GrabIsInnermost
  <2>2. CASE opened \subseteq people
    <3>1. opened \ people = {}
      BY <2>2
    <3> QED BY <2>1, <3>1, FS_EmptySet DEF AllOrNobodySelected
  <2>3. CASE \E n \in opened : opened \ people = {n}
    BY <2>1, <2>3, FS_Singleton DEF AllOrNobodySelected
  <2> QED BY <2>1, <2>2, <2>3 DEF AllOrNobodySelected
<1> QED BY <1>1, Invariance, PTL
=============================================================================
