-------------------------- MODULE LocalFeedProofs --------------------------
(***************************************************************************)
(* Proofs about the path of a local build's events, for any number of      *)
(* steps and lines and any capacity of the ring and of the channel.        *)
(***************************************************************************)
EXTENDS LocalFeed, SequenceTheorems, FiniteSetTheorems, WellFoundedInduction, TLAPS

AnyEvent ==
  [kind : {"buildstart", "queued", "started", "cachehit", "log", "ended", "chainfailed", "buildend"},
   step : Steps \cup {NoStep}, code : {0, 1, 124, 130}]

LastGot == IF got = <<>> THEN 0 ELSE got[Len(got)]

\* What of the path is typed as it stands.
Shape ==
  /\ emitted \in Seq(AnyEvent)
  /\ stage \in {"setup", "running", "draining", "returned"}
  /\ failed \in BOOLEAN /\ lagged \in BOOLEAN
  /\ cursor \in 1..(Len(emitted) + 1)
  /\ holding \in 0..Len(emitted) /\ holding < cursor
  /\ fwd \in {"on", "done"}
  /\ queue \in Seq(Nat) /\ got \in Seq(Nat)
  /\ renderer \in {"on", "done", "dead", "stuck"}

\* The path in order: what was shown, what waits, what is being sent, what is
\* read next.
InOrder ==
  /\ \A i, j \in 1..Len(queue) : i < j => queue[i] < queue[j]
  /\ \A i \in 1..Len(queue) : LastGot < queue[i] /\ queue[i] < cursor
                              /\ (holding # 0 => queue[i] < holding)
  /\ \A i \in 1..Len(got) : 0 < got[i] /\ got[i] < cursor
  /\ LastGot < cursor /\ (holding # 0 => LastGot < holding)

Inv == Shape /\ InOrder

\* A step of the forwarder or the renderer as the abstract queue sees it.
Shows == \E i \in (LastGot + 1)..Len(emitted) : got' = Append(got, i)

-----------------------------------------------------------------------------
\* What the path carries are numbers of events.
LEMMA Numbers ==
  ASSUME Shape
  PROVE  /\ \A i \in 1..Len(queue) : queue[i] \in Nat
         /\ \A i \in 1..Len(got) : got[i] \in Nat
         /\ LastGot \in Nat
<1>1. queue \in Seq(Nat) /\ got \in Seq(Nat)
  BY DEF Shape
<1>2. \A i \in 1..Len(queue) : queue[i] \in Nat
  BY <1>1, ElementOfSeq
<1>3. \A i \in 1..Len(got) : got[i] \in Nat
  BY <1>1, ElementOfSeq
<1>4. got # <<>> => Len(got) \in 1..Len(got)
  BY <1>1, LenProperties, EmptySeq
<1>5. LastGot \in Nat
  BY <1>3, <1>4 DEF LastGot
<1>6. QED
  BY <1>2, <1>3, <1>5

-----------------------------------------------------------------------------
(* The steps that emit.                                                     *)

LEMMA EmitsTyped ==
  ASSUME Inv, NEW es \in Seq(AnyEvent), es # <<>>, Emit(es)
  PROVE  /\ emitted' \in Seq(AnyEvent)
         /\ Len(emitted') = Len(emitted) + Len(es) /\ Len(es) \in Nat \ {0}
         /\ \A i \in 1..Len(emitted) : emitted'[i] = emitted[i]
         /\ \A i \in 1..Len(es) : emitted'[Len(emitted) + i] = es[i]
BY DEF Emit, Inv, Shape

\* What a step emits begins with its announcement.
LEMMA StepsEvents ==
  ASSUME NEW s \in Steps, NEW es \in NextEvents(s)
  PROVE  /\ es \in Seq(AnyEvent) /\ es # <<>>
         /\ \/ Len(es) = 2 /\ es[1].kind = "queued" /\ es[1].step = s /\ ~Begun(s)
                           /\ es[2].kind = "started" /\ es[2].step = s
            \/ Len(es) = 1 /\ es[1].kind \in {"cachehit", "log", "ended"} /\ es[1].step = s /\ Begun(s)
            \/ Len(es) = 2 /\ es[1].kind = "ended" /\ es[1].step = s /\ Begun(s)
                           /\ es[2].kind = "chainfailed" /\ es[2].step = s
<1>1. \A kind \in {"queued", "started", "cachehit", "log", "ended", "chainfailed"}, code \in {0, 1, 130} :
        Event(kind, s, code) \in AnyEvent /\ Event(kind, s, code).kind = kind
        /\ Event(kind, s, code).step = s
  BY DEF Event, AnyEvent
<1>2. \/ ~Begun(s) /\ es = <<Event("queued", s, 0), Event("started", s, 0)>>
      \/ /\ Begun(s)
         /\ \E kind \in {"cachehit", "log", "ended"}, code \in {0, 1} : es = <<Event(kind, s, code)>>
      \/ /\ Begun(s)
         /\ \E code \in {1, 130} : es = <<Event("ended", s, code), Event("chainfailed", s, code)>>
  <2>1. CASE ~Begun(s)
    BY <2>1 DEF NextEvents, Announced
  <2>2. CASE Begun(s)
    <3>1. \/ \E x \in {"cachehit", "log", "ended"} \X {0, 1} : es = <<Event(x[1], s, x[2])>>
          \/ \E code \in {1, 130} : es = <<Event("ended", s, code), Event("chainfailed", s, code)>>
      BY <2>2 DEF NextEvents
    <3>2. ASSUME NEW x \in {"cachehit", "log", "ended"} \X {0, 1}
          PROVE  x[1] \in {"cachehit", "log", "ended"} /\ x[2] \in {0, 1}
      OBVIOUS
    <3>3. QED
      BY <2>2, <3>1, <3>2
  <2>3. QED
    BY <2>1, <2>2
<1>3. CASE ~Begun(s) /\ es = <<Event("queued", s, 0), Event("started", s, 0)>>
  <2> DEFINE a == Event("queued", s, 0)
             b == Event("started", s, 0)
  <2>1. a \in AnyEvent /\ a.kind = "queued" /\ b \in AnyEvent /\ b.kind = "started"
        /\ a.step = s /\ b.step = s
    BY <1>1
  <2> HIDE DEF a, b
  <2>2. es = <<a, b>>
    BY <1>3 DEF a, b
  <2>3. QED
    BY <1>3, <2>1, <2>2
<1>4. ASSUME NEW kind \in {"cachehit", "log", "ended"}, NEW code \in {0, 1},
             es = <<Event(kind, s, code)>>, Begun(s)
      PROVE  /\ es \in Seq(AnyEvent) /\ es # <<>>
             /\ Len(es) = 1 /\ es[1].kind \in {"cachehit", "log", "ended"} /\ es[1].step = s
  <2> DEFINE a == Event(kind, s, code)
  <2>1. a \in AnyEvent /\ a.kind = kind /\ a.step = s
    BY <1>1
  <2> HIDE DEF a
  <2>2. es = <<a>>
    BY <1>4 DEF a
  <2>3. QED
    BY <2>1, <2>2
<1>5. ASSUME NEW code \in {1, 130}, Begun(s),
             es = <<Event("ended", s, code), Event("chainfailed", s, code)>>
      PROVE  /\ es \in Seq(AnyEvent) /\ es # <<>>
             /\ Len(es) = 2 /\ es[1].kind = "ended" /\ es[1].step = s
                            /\ es[2].kind = "chainfailed" /\ es[2].step = s
  <2> DEFINE a == Event("ended", s, code)
             b == Event("chainfailed", s, code)
  <2>1. a \in AnyEvent /\ a.kind = "ended" /\ b \in AnyEvent /\ b.kind = "chainfailed"
        /\ a.step = s /\ b.step = s
    BY <1>1
  <2> HIDE DEF a, b
  <2>2. es = <<a, b>>
    BY <1>5 DEF a, b
  <2>3. QED
    BY <2>1, <2>2
<1>6. QED
  BY <1>2, <1>3, <1>4, <1>5

LEMMA EmitsOne ==
  ASSUME Inv, NEW a \in AnyEvent, Emit(<<a>>)
  PROVE  /\ Len(emitted') = Len(emitted) + 1 /\ emitted'[Len(emitted) + 1] = a
         /\ \A i \in 1..Len(emitted) : emitted'[i] = emitted[i]
<1> DEFINE es == <<a>>
<1>1. es \in Seq(AnyEvent) /\ es # <<>> /\ Len(es) = 1 /\ es[1] = a
  OBVIOUS
<1>2. Emit(es)
  OBVIOUS
<1> HIDE DEF es
<1>3. QED
  BY <1>1, <1>2, EmitsTyped

LEMMA EmitKeeps ==
  ASSUME Inv, NEW es \in Seq(AnyEvent), es # <<>>, Emit(es), UNCHANGED <<fwdVars, queue, got, renderer>>,
         stage' \in {"setup", "running", "draining", "returned"}, failed' \in BOOLEAN
  PROVE  Inv' /\ Len(emitted') \in Nat /\ Len(emitted') > Len(emitted)
<1>1. /\ emitted' \in Seq(AnyEvent) /\ Len(emitted') \in Nat /\ Len(emitted') > Len(emitted)
      /\ Len(emitted) \in Nat
  BY EmitsTyped DEF Inv, Shape
<1>2. Shape'
  BY <1>1 DEF Inv, Shape, fwdVars
<1>3. InOrder'
  BY DEF Inv, InOrder, fwdVars, LastGot
<1>4. QED
  BY <1>1, <1>2, <1>3 DEF Inv

LEMMA BuildKeeps ==
  ASSUME Inv, Build
  PROVE  /\ Inv' /\ UNCHANGED <<fwdVars, queue, got, renderer>>
         /\ UNCHANGED emitted \/ (Len(emitted') \in Nat /\ Len(emitted') > Len(emitted))
<1>1. CASE SetupFails \/ TearDown
  BY <1>1 DEF SetupFails, TearDown, Inv, Shape, InOrder, fwdVars, LastGot
<1>2. CASE BuildStarts
  <2>1. <<Event("buildstart", NoStep, 0)>> \in Seq(AnyEvent)
    BY DEF Event, AnyEvent
  <2>2. QED
    BY <1>2, <2>1, EmitKeeps DEF BuildStarts, Inv, Shape
<1>3. ASSUME NEW s \in Steps, StepEmits(s)
      PROVE  /\ Inv' /\ UNCHANGED <<fwdVars, queue, got, renderer>>
             /\ Len(emitted') \in Nat /\ Len(emitted') > Len(emitted)
  <2>1. PICK es \in NextEvents(s) : Emit(es)
    BY <1>3 DEF StepEmits
  <2>2. es \in Seq(AnyEvent) /\ es # <<>>
    BY StepsEvents
  <2>3. QED
    BY <1>3, <2>1, <2>2, EmitKeeps DEF StepEmits, Inv, Shape
<1>4. CASE BuildEnds
  <2>1. PICK code \in {0, 1, 124, 130} : Emit(<<Event("buildend", NoStep, code)>>)
    BY <1>4 DEF BuildEnds, Verdicts
  <2>2. <<Event("buildend", NoStep, code)>> \in Seq(AnyEvent)
    BY DEF Event, AnyEvent
  <2>3. QED
    BY <1>4, <2>1, <2>2, EmitKeeps DEF BuildEnds, Inv, Shape
<1>5. QED
  BY <1>1, <1>2, <1>3, <1>4 DEF Build

-----------------------------------------------------------------------------
(* The forwarder and the renderer.                                          *)

LEMMA ForwarderKeeps ==
  ASSUME Inv, Forwarder
  PROVE  Inv' /\ UNCHANGED <<buildVars, got, renderer>>
<1>1. /\ Len(emitted) \in Nat /\ cursor \in Nat /\ holding \in Nat /\ Ring \in Nat \ {0}
      /\ Oldest \in Nat \ {0} /\ (Oldest > 1 => Oldest <= Len(emitted))
  BY BoundsAssumption DEF Inv, Shape, Oldest
<1>2. CASE Take \/ Lag \/ ForwardEnds
  <2> USE DEF InOrder, LastGot
  <2>1. CASE Take
    <3>1. holding' = cursor /\ cursor' = cursor + 1 /\ cursor <= Len(emitted)
          /\ UNCHANGED <<emitted, stage, failed, fwd, lagged, queue, got, renderer>>
      BY <2>1 DEF Take, buildVars
    <3>2. Shape'
      BY <1>1, <3>1 DEF Inv, Shape
    <3>3. /\ \A i \in 1..Len(queue) : queue[i] \in Nat
          /\ \A i \in 1..Len(got) : got[i] \in Nat
      BY Numbers DEF Inv
    <3>4. queue' = queue /\ got' = got /\ holding' = cursor /\ cursor' = cursor + 1
      BY <3>1
    <3>5. InOrder'
      <4> HIDE DEF InOrder, LastGot
      <4>1. LastGot' = LastGot /\ LastGot \in Nat /\ LastGot < cursor
        BY <3>4, Numbers DEF Inv, InOrder, LastGot
      <4>2. \A i, j \in 1..Len(queue') : i < j => queue'[i] < queue'[j]
        BY <3>4 DEF Inv, InOrder
      <4>3. \A i \in 1..Len(queue) : queue[i] \in Nat /\ LastGot < queue[i] /\ queue[i] < cursor
        BY <3>3 DEF Inv, InOrder
      <4>4. \A i \in 1..Len(queue') : LastGot' < queue'[i] /\ queue'[i] < cursor' /\ queue'[i] < holding'
        BY <1>1, <3>4, <4>1, <4>3
      <4>5. \A i \in 1..Len(got) : got[i] \in Nat /\ 0 < got[i] /\ got[i] < cursor
        BY <3>3 DEF Inv, InOrder
      <4>6. \A i \in 1..Len(got') : 0 < got'[i] /\ got'[i] < cursor'
        BY <1>1, <3>4, <4>5
      <4>7. LastGot' < cursor' /\ LastGot' < holding'
        BY <1>1, <3>4, <4>1
      <4>8. QED
        BY <4>2, <4>4, <4>6, <4>7 DEF InOrder
    <3>6. QED
      BY <3>1, <3>2, <3>5 DEF Inv, buildVars
  <2>2. CASE Lag
    <3>1. cursor' = Oldest /\ cursor < Oldest /\ holding = 0 /\ lagged' = TRUE
          /\ UNCHANGED <<emitted, stage, failed, holding, fwd, queue, got, renderer>>
      BY <2>2 DEF Lag, buildVars
    <3>2. Oldest <= Len(emitted) /\ holding < Oldest
      BY <1>1, <3>1 DEF Inv, Shape
    <3>3. Shape'
      BY <1>1, <3>1, <3>2 DEF Inv, Shape
    <3>4. /\ \A i \in 1..Len(queue) : queue[i] \in Nat
          /\ \A i \in 1..Len(got) : got[i] \in Nat
          /\ LastGot \in Nat
      BY Numbers DEF Inv
    <3>5. InOrder'
      BY <1>1, <3>1, <3>4 DEF Inv
    <3>6. QED
      BY <3>1, <3>3, <3>5 DEF Inv, buildVars
  <2>3. CASE ForwardEnds
    BY <2>3 DEF ForwardEnds, Inv, Shape, buildVars
  <2>4. QED
    BY <1>2, <2>1, <2>2, <2>3
<1>3. CASE Forward
  <2>1. queue' = Append(queue, holding) /\ holding' = 0 /\ holding # 0 /\ queue \in Seq(Nat)
        /\ UNCHANGED <<buildVars, cursor, fwd, lagged, got, renderer>>
    BY <1>3 DEF Forward, Inv, Shape
  <2>2. queue' \in Seq(Nat) /\ Len(queue') = Len(queue) + 1 /\ queue'[Len(queue) + 1] = holding
        /\ Len(queue) \in Nat /\ \A i \in 1..Len(queue) : queue'[i] = queue[i]
    BY <1>1, <2>1
  <2>3. Shape'
    BY <1>1, <2>1, <2>2 DEF Inv, Shape, buildVars
  <2>4. InOrder'
    <3>1. \A i \in 1..Len(queue') : i \in 1..Len(queue) \/ i = Len(queue) + 1
      BY <2>2
    <3>2. \A i \in 1..Len(queue') : queue'[i] \in Nat
      BY <2>2
    <3>3. \A i, j \in 1..Len(queue') : i < j => queue'[i] < queue'[j]
      BY <2>1, <2>2, <3>1 DEF Inv, InOrder
    <3>4. \A i \in 1..Len(queue') : LastGot < queue'[i] /\ queue'[i] < cursor
      BY <2>1, <2>2, <3>1 DEF Inv, InOrder, Shape
    <3>5. QED
      BY <2>1, <3>3, <3>4 DEF Inv, InOrder, LastGot
  <2>5. QED
    BY <2>1, <2>3, <2>4 DEF Inv
<1>4. QED
  BY <1>2, <1>3 DEF Forwarder

LEMMA TailIs ==
  ASSUME NEW q \in Seq(Nat), q # <<>>
  PROVE  /\ Head(q) = q[1] /\ Head(q) \in Nat /\ 1 \in 1..Len(q)
         /\ Tail(q) \in Seq(Nat) /\ Len(Tail(q)) = Len(q) - 1
         /\ \A i \in 1..(Len(q) - 1) : Tail(q)[i] = q[i + 1] /\ i + 1 \in 1..Len(q)
BY HeadTailProperties

\* What is read of the channel, whether it is shown or lost.
LEMMA PopKeeps ==
  ASSUME Inv, queue # <<>>, queue' = Tail(queue) \/ queue' = <<>>,
         got' = got \/ got' = Append(got, Head(queue)),
         renderer' \in {"on", "done", "dead", "stuck"}, UNCHANGED <<buildVars, fwdVars>>
  PROVE  Inv'
<1>1. queue \in Seq(Nat) /\ got \in Seq(Nat) /\ cursor \in Nat /\ holding \in Nat
      /\ Len(emitted) \in Nat /\ cursor <= Len(emitted) + 1
  BY DEF Inv, Shape
<1>2. queue' \in Seq(Nat)
      /\ \A i \in 1..Len(queue') : \E k \in 1..Len(queue) : 1 < k /\ queue'[i] = queue[k]
  <2>1. CASE queue' = Tail(queue)
    BY <1>1, <2>1, TailIs
  <2>2. CASE queue' = <<>>
    BY <2>2
  <2>3. QED
    BY <2>1, <2>2
<1>3. \A i, j \in 1..Len(queue') : i < j => queue'[i] < queue'[j]
  <2>1. CASE queue' = Tail(queue)
    <3>1. Len(queue') = Len(queue) - 1 /\ \A i \in 1..Len(queue') : queue'[i] = queue[i + 1] /\ i + 1 \in 1..Len(queue)
      BY <1>1, <2>1, TailIs
    <3>2. QED
      <4> SUFFICES ASSUME NEW i \in 1..Len(queue'), NEW j \in 1..Len(queue'), i < j
                   PROVE  queue'[i] < queue'[j]
        OBVIOUS
      <4>1. /\ queue'[i] = queue[i + 1] /\ i + 1 \in 1..Len(queue)
            /\ queue'[j] = queue[j + 1] /\ j + 1 \in 1..Len(queue)
        BY <3>1
      <4>2. i + 1 < j + 1
        BY <1>1, <3>1
      <4>3. QED
        BY <4>1, <4>2 DEF Inv, InOrder
  <2>2. CASE queue' = <<>>
    BY <2>2
  <2>3. QED
    BY <2>1, <2>2
<1>4. Head(queue) = queue[1] /\ 1 \in 1..Len(queue) /\ Head(queue) \in Nat
  BY <1>1, TailIs
<1>5. \A k \in 1..Len(queue) : 1 < k => Head(queue) < queue[k]
  BY <1>4 DEF Inv, InOrder
<1>6. LastGot < Head(queue) /\ Head(queue) < cursor /\ (holding # 0 => Head(queue) < holding)
  BY <1>4 DEF Inv, InOrder
<1>7. got' \in Seq(Nat) /\ LastGot \in Nat /\ LastGot' \in {LastGot, Head(queue)}
      /\ \A i \in 1..Len(got') : 0 < got'[i] /\ got'[i] < cursor
  <2>1. CASE got' = got
    BY <1>1, <2>1 DEF LastGot, Inv, InOrder
  <2>2. CASE got' = Append(got, Head(queue))
    <3>1. got' \in Seq(Nat) /\ Len(got') = Len(got) + 1 /\ got'[Len(got) + 1] = Head(queue)
          /\ Len(got) \in Nat /\ \A i \in 1..Len(got) : got'[i] = got[i]
      BY <1>1, <1>4, <2>2
    <3>2. LastGot \in Nat
      BY <1>1 DEF LastGot
    <3>3. got' # <<>>
      BY <3>1
    <3>4. LastGot' = Head(queue)
      BY <3>1, <3>3 DEF LastGot
    <3>5. \A i \in 1..Len(got') : i \in 1..Len(got) \/ i = Len(got) + 1
      BY <3>1
    <3>6. \A i \in 1..Len(got) : 0 < got'[i] /\ got'[i] < cursor
      BY <3>1 DEF Inv, InOrder
    <3>7. 0 < got'[Len(got) + 1] /\ got'[Len(got) + 1] < cursor
      BY <1>4, <1>6, <3>1, <3>2
    <3>8. \A i \in 1..Len(got') : 0 < got'[i] /\ got'[i] < cursor
      BY <3>5, <3>6, <3>7
    <3>9. QED
      BY <3>1, <3>2, <3>4, <3>8
  <2>3. QED
    BY <2>1, <2>2
<1>8. LastGot' \in Nat /\ LastGot' <= Head(queue)
  BY <1>4, <1>6, <1>7
<1>9. InOrder'
  <2>1. \A i \in 1..Len(queue') : LastGot' < queue'[i] /\ queue'[i] < cursor
                                  /\ (holding # 0 => queue'[i] < holding)
    <3> SUFFICES ASSUME NEW i \in 1..Len(queue')
                 PROVE  LastGot' < queue'[i] /\ queue'[i] < cursor /\ (holding # 0 => queue'[i] < holding)
      OBVIOUS
    <3>1. PICK k \in 1..Len(queue) : 1 < k /\ queue'[i] = queue[k]
      BY <1>2
    <3>2. queue[k] \in Nat
      BY Numbers DEF Inv
    <3>3. Head(queue) < queue[k]
      BY <1>5, <3>1
    <3>4. QED
      BY <1>4, <1>8, <3>1, <3>2, <3>3 DEF Inv, InOrder
  <2>2. LastGot' < cursor /\ (holding # 0 => LastGot' < holding)
    BY <1>1, <1>4, <1>6, <1>8
  <2>3. QED
    BY <1>3, <1>7, <2>1, <2>2 DEF InOrder, fwdVars
<1>10. QED
  BY <1>2, <1>7, <1>9 DEF Inv, Shape, buildVars, fwdVars

LEMMA RendererKeeps ==
  ASSUME Inv, Renderer
  PROVE  Inv' /\ UNCHANGED <<buildVars, fwdVars>> /\ (UNCHANGED got \/ Shows)
<1>1. CASE Receive
  <2>1. Inv'
    BY <1>1, PopKeeps DEF Receive, Inv, Shape
  <2>2. LastGot < Head(queue) /\ Head(queue) < cursor /\ Head(queue) \in Nat
    BY <1>1, TailIs DEF Receive, Inv, Shape, InOrder
  <2>3. LastGot \in Nat /\ cursor \in 1..(Len(emitted) + 1) /\ Len(emitted) \in Nat
    BY DEF Inv, Shape, LastGot
  <2>4. Head(queue) \in (LastGot + 1)..Len(emitted)
    BY <2>2, <2>3
  <2>5. QED
    BY <1>1, <2>1, <2>4 DEF Receive, Shows
<1>2. CASE FeedCloses
  BY <1>2 DEF FeedCloses, Inv, Shape, InOrder, LastGot, buildVars, fwdVars
<1>3. CASE RendererFails
  BY <1>3, PopKeeps DEF RendererFails
<1>4. QED
  BY <1>1, <1>2, <1>3 DEF Renderer

-----------------------------------------------------------------------------
(* The theorems.                                                            *)

LEMMA InitInv == Init => Inv
<1> SUFFICES ASSUME Init PROVE Inv
  OBVIOUS
<1>1. emitted \in Seq(AnyEvent) /\ queue \in Seq(Nat) /\ got \in Seq(Nat)
      /\ Len(emitted) = 0 /\ Len(queue) = 0 /\ Len(got) = 0
  BY DEF Init
<1>2. cursor = 1 /\ holding = 0 /\ stage = "setup" /\ ~failed /\ failed \in BOOLEAN /\ ~lagged
      /\ lagged \in BOOLEAN /\ fwd = "on" /\ renderer = "on"
  BY DEF Init
<1>3. cursor \in 1..(Len(emitted) + 1) /\ holding \in 0..Len(emitted) /\ holding < cursor
  BY <1>1, <1>2
<1>4. Shape
  BY <1>1, <1>2, <1>3 DEF Shape
<1>5. InOrder
  BY <1>1 DEF Init, InOrder, LastGot
<1>6. QED
  BY <1>4, <1>5 DEF Inv

LEMMA NextInv == Inv /\ [Next]_vars => Inv'
<1> SUFFICES ASSUME Inv, [Next]_vars PROVE Inv'
  OBVIOUS
<1>1. CASE Next
  BY <1>1, BuildKeeps, ForwarderKeeps, RendererKeeps DEF Next
<1>2. CASE UNCHANGED vars
  BY <1>2 DEF vars, buildVars, fwdVars, Inv, Shape, InOrder, LastGot
<1>3. QED
  BY <1>1, <1>2

\* Whatever lags, blocks or dies, what was shown, what waits and what is still
\* to be read stay in the order the build emitted it: the inductive invariant.
THEOREM PathInOrder == Spec => []Inv
<1>1. Init => Inv
  BY InitInv
<1>2. Inv /\ [Next]_vars => Inv'
  BY NextInv
<1>3. QED
  BY <1>1, <1>2, PTL DEF Spec

\* A step puts items into the abstract queue, takes one of it, or neither.
LEMMA StepRefines ==
  ASSUME Inv, [Next]_vars
  PROVE  [Fifo!Put \/ Fifo!Get]_(Fifo!vars)
<1>1. CASE Build
  <2>1. UNCHANGED got /\ (UNCHANGED emitted \/ (Len(emitted') \in Nat /\ Len(emitted') > Len(emitted)))
    BY <1>1, BuildKeeps
  <2>2. QED
    BY <2>1 DEF Fifo!Put, Fifo!vars
<1>2. CASE Forwarder
  BY <1>2, ForwarderKeeps DEF Fifo!vars, buildVars
<1>3. CASE Renderer
  <2>1. UNCHANGED emitted /\ (UNCHANGED got \/ Shows)
    BY <1>3, RendererKeeps DEF buildVars
  <2>2. QED
    BY <2>1 DEF Shows, LastGot, Fifo!Get, Fifo!LastGot, Fifo!vars
<1>4. CASE UNCHANGED vars
  BY <1>4 DEF vars, buildVars, Fifo!vars
<1>5. QED
  BY <1>1, <1>2, <1>3, <1>4 DEF Next

\* Bus, forwarder and channel implement the lossy queue, for every capacity of
\* both: nothing is shown twice, out of order or before it was emitted.
THEOREM PathIsFifo == Spec => FeedIsFifo
<1>1. Init => Fifo!Init
  BY DEF Init, Fifo!Init
<1>2. Inv /\ [Next]_vars => [Fifo!Put \/ Fifo!Get]_(Fifo!vars)
  BY StepRefines
<1>3. QED
  BY <1>1, <1>2, PathInOrder, PTL DEF Spec, FeedIsFifo, Fifo!Spec

-----------------------------------------------------------------------------
(* What is lost, and that the end is not.                                   *)

Ended == stage = "draining" \/ (stage = "returned" /\ ~failed)

\* The build's side: its end is the last event, and a step's first event is
\* StepQueued.
BuildOK ==
  /\ failed => stage = "returned" /\ emitted = <<>>
  /\ stage = "setup" => emitted = <<>>
  /\ \A i \in 1..Len(emitted) : IsBuildEnd(emitted[i]) => i = Len(emitted) /\ Ended
  /\ Ended => emitted # <<>> /\ IsBuildEnd(emitted[Len(emitted)])
  /\ \A i \in 1..Len(emitted) :
       emitted[i].kind \notin {"buildstart", "queued", "buildend"} =>
         \E k \in 1..(i - 1) : emitted[k].kind = "queued" /\ emitted[k].step = emitted[i].step
  /\ \A i \in 1..Len(emitted) :
       emitted[i].kind \in {"buildstart", "buildend"} => emitted[i].step = NoStep

\* A renderer that goes on has not seen the end, the newest event is the last
\* on its way, and the forwarder has left it only after the end.
PathOK ==
  /\ Len(queue) <= Capacity
  /\ renderer = "on" => got = <<>> \/ ~IsBuildEnd(emitted[LastGot])
  /\ renderer = "on" /\ cursor = Len(emitted) + 1 /\ emitted # <<>> =>
       /\ holding # 0 => holding = Len(emitted)
       /\ holding = 0 /\ queue # <<>> => queue[Len(queue)] = Len(emitted)
       /\ holding = 0 /\ queue = <<>> => LastGot = Len(emitted)
  /\ fwd = "done" /\ renderer = "on" =>
       stage \in {"draining", "returned"} /\ holding = 0 /\ cursor = Len(emitted) + 1
  /\ renderer = "done" => failed \/ (got # <<>> /\ IsBuildEnd(emitted[LastGot]))

\* Without a lag the events are where they were emitted.
Exact ==
  ~lagged =>
    /\ \A i \in 1..Len(got) : got[i] = i
    /\ renderer = "on" =>
         /\ \A i \in 1..Len(queue) : queue[i] = Len(got) + i
         /\ holding # 0 => holding = Len(got) + Len(queue) + 1 /\ cursor = holding + 1
         /\ holding = 0 => cursor = Len(got) + Len(queue) + 1

IInv == Inv /\ BuildOK /\ PathOK /\ Exact

LEMMA InitIInv == Init => IInv
<1> SUFFICES ASSUME Init PROVE IInv
  OBVIOUS
<1>1. Inv /\ Len(emitted) = 0 /\ Len(queue) = 0 /\ Len(got) = 0 /\ Len(queue) <= Capacity
  BY InitInv, BoundsAssumption DEF Init
<1>2. BuildOK
  BY <1>1 DEF Init, BuildOK, Ended
<1>3. PathOK /\ Exact
  BY <1>1 DEF Init, PathOK, Exact
<1>4. QED
  BY <1>1, <1>2, <1>3 DEF IInv

\* Emitting: what is on its way is older.
LEMMA EmitPath ==
  ASSUME IInv, Len(emitted') \in Nat, Len(emitted') > Len(emitted),
         \A i \in 1..Len(emitted) : emitted'[i] = emitted[i],
         UNCHANGED <<fwdVars, queue, got, renderer, failed>>, stage \in {"setup", "running"}
  PROVE  PathOK' /\ Exact'
<1>1. Len(emitted) \in Nat /\ cursor \in 1..(Len(emitted) + 1) /\ LastGot \in Nat
      /\ LastGot' = LastGot /\ got \in Seq(Nat) /\ LastGot < cursor
  BY DEF IInv, Inv, Shape, InOrder, LastGot
<1>2. got # <<>> => LastGot \in 1..Len(emitted)
  <2>1. got # <<>> => Len(got) \in 1..Len(got)
    BY <1>1
  <2>2. got # <<>> => 0 < LastGot
    BY <2>1 DEF IInv, Inv, InOrder, LastGot
  <2>3. QED
    BY <1>1, <2>2
<1>3. got # <<>> => (IsBuildEnd(emitted[LastGot])' <=> IsBuildEnd(emitted[LastGot]))
  BY <1>1, <1>2 DEF IsBuildEnd
<1>4. cursor' # Len(emitted') + 1
  BY <1>1 DEF fwdVars
<1>5. PathOK'
  BY <1>1, <1>3, <1>4 DEF IInv, PathOK, fwdVars
<1>6. Exact'
  BY DEF IInv, Exact, fwdVars
<1>7. QED
  BY <1>5, <1>6

LEMMA BuildKeepsAll == ASSUME IInv, Build PROVE IInv'
<1>1. Inv' /\ UNCHANGED <<fwdVars, queue, got, renderer>> /\ Len(emitted) \in Nat
  BY BuildKeeps DEF IInv, Inv, Shape
<1>2. CASE SetupFails \/ TearDown
  <2>1. UNCHANGED emitted /\ stage' = "returned"
    BY <1>2 DEF SetupFails, TearDown
  <2>2. BuildOK'
    BY <1>2, <2>1 DEF SetupFails, TearDown, IInv, BuildOK, Ended
  <2>3. PathOK' /\ Exact'
    BY <1>1, <1>2, <2>1 DEF SetupFails, TearDown, IInv, PathOK, Exact, fwdVars, LastGot
  <2>4. QED
    BY <1>1, <2>2, <2>3 DEF IInv
<1>3. CASE BuildStarts
  <2> DEFINE a == Event("buildstart", NoStep, 0)
  <2>1. a \in AnyEvent /\ a.kind = "buildstart" /\ a.step = NoStep
    BY DEF Event, AnyEvent
  <2>2. Emit(<<a>>)
    BY <1>3 DEF BuildStarts
  <2> HIDE DEF a
  <2>3. Len(emitted') = Len(emitted) + 1 /\ emitted'[Len(emitted) + 1] = a
        /\ \A i \in 1..Len(emitted) : emitted'[i] = emitted[i]
    BY <2>1, <2>2, EmitsOne DEF IInv
  <2>5. Len(emitted) = 0 /\ ~Ended' /\ stage = "setup" /\ ~failed /\ stage' = "running" /\ UNCHANGED failed
    BY <1>3 DEF BuildStarts, IInv, BuildOK, Ended
  <2>6. BuildOK'
    <3>1. \A i \in 1..Len(emitted') : emitted'[i] = a
      BY <2>3, <2>5
    <3>2. QED
      BY <2>1, <2>5, <3>1 DEF BuildOK, IsBuildEnd
  <2>7. PathOK' /\ Exact'
    BY <1>1, <2>3, <2>5, EmitPath
  <2>8. QED
    BY <1>1, <2>6, <2>7 DEF IInv
<1>4. ASSUME NEW s \in Steps, StepEmits(s) PROVE IInv'
  <2>1. PICK es \in NextEvents(s) : Emit(es)
    BY <1>4 DEF StepEmits
  <2>2. /\ es \in Seq(AnyEvent) /\ es # <<>>
        /\ \/ Len(es) = 2 /\ es[1].kind = "queued" /\ es[1].step = s
                          /\ es[2].kind = "started" /\ es[2].step = s
           \/ Len(es) = 1 /\ es[1].kind \in {"cachehit", "log", "ended"} /\ es[1].step = s /\ Begun(s)
           \/ Len(es) = 2 /\ es[1].kind = "ended" /\ es[1].step = s /\ Begun(s)
                          /\ es[2].kind = "chainfailed" /\ es[2].step = s
    BY StepsEvents
  <2>3. /\ Len(emitted') = Len(emitted) + Len(es) /\ Len(es) \in {1, 2}
        /\ \A i \in 1..Len(emitted) : emitted'[i] = emitted[i]
        /\ \A i \in 1..Len(es) : emitted'[Len(emitted) + i] = es[i]
    BY <2>1, <2>2, EmitsTyped DEF IInv
  <2>4. stage = "running" /\ UNCHANGED <<stage, failed>> /\ ~Ended /\ ~Ended' /\ ~failed
    BY <1>4 DEF StepEmits, IInv, BuildOK, Ended
  <2>5. Begun(s) => \E k \in 1..Len(emitted) : emitted[k].kind = "queued" /\ emitted[k].step = s
    <3> SUFFICES ASSUME Begun(s)
                 PROVE  \E k \in 1..Len(emitted) : emitted[k].kind = "queued" /\ emitted[k].step = s
      OBVIOUS
    <3>1. PICK i \in 1..Len(emitted) : emitted[i].step = s
      BY <1>1 DEF Begun, ToSet, IInv, Inv, Shape
    <3>2. s # NoStep
      BY StepsAssumption
    <3>3. CASE emitted[i].kind = "queued"
      BY <3>1, <3>3
    <3>4. CASE emitted[i].kind # "queued"
      BY <1>1, <3>1, <3>2, <3>4 DEF IInv, BuildOK
    <3>5. QED
      BY <3>3, <3>4
  <2>6. ASSUME NEW i \in 1..Len(emitted')
        PROVE  \/ i \in 1..Len(emitted) /\ emitted'[i] = emitted[i]
               \/ i = Len(emitted) + 1
               \/ i = Len(emitted) + 2 /\ Len(es) = 2
    <3>1. Len(emitted) \in Nat /\ Len(es) \in {1, 2} /\ i \in 1..(Len(emitted) + Len(es))
      BY <1>1, <2>3
    <3>2. CASE Len(es) = 1
      <4>1. i \in 1..(Len(emitted) + 1)
        BY <3>1, <3>2
      <4>2. i \in 1..Len(emitted) \/ i = Len(emitted) + 1
        BY <3>1, <4>1
      <4>3. QED
        BY <2>3, <4>2
    <3>3. CASE Len(es) = 2
      <4>1. i \in 1..(Len(emitted) + 2)
        BY <3>1, <3>3
      <4>2. i \in 1..Len(emitted) \/ i = Len(emitted) + 1 \/ i = Len(emitted) + 2
        BY <3>1, <4>1
      <4>3. QED
        BY <2>3, <3>3, <4>2
    <3>4. QED
      BY <3>1, <3>2, <3>3
  <2>7. \A i \in 1..Len(emitted') :
          \/ i \in 1..Len(emitted) /\ emitted'[i] = emitted[i]
          \/ emitted'[i].kind \in {"queued", "started", "cachehit", "log", "ended", "chainfailed"}
    <3>1. emitted'[Len(emitted) + 1] = es[1] /\ (Len(es) = 2 => emitted'[Len(emitted) + 2] = es[2])
      BY <2>3
    <3>2. QED
      BY <2>2, <2>6, <3>1
  <2>12. \A i \in 1..Len(emitted') : ~IsBuildEnd(emitted'[i])
    BY <2>4, <2>7 DEF IInv, BuildOK, IsBuildEnd
  <2>8. ASSUME NEW i \in 1..Len(emitted'), emitted'[i].kind \notin {"buildstart", "queued", "buildend"}
        PROVE  \E k \in 1..(i - 1) : emitted'[k].kind = "queued" /\ emitted'[k].step = emitted'[i].step
    <3>1. CASE i \in 1..Len(emitted)
      <4>1. PICK k \in 1..(i - 1) : emitted[k].kind = "queued" /\ emitted[k].step = emitted[i].step
        BY <2>3, <2>8, <3>1 DEF IInv, BuildOK
      <4>2. k \in 1..Len(emitted)
        BY <1>1, <3>1
      <4>3. QED
        BY <2>3, <3>1, <4>1, <4>2
    <3>2. CASE i = Len(emitted) + 2 /\ Len(es) = 2
      <4>1. Len(emitted) + 1 \in 1..(i - 1)
        BY <1>1, <3>2
      <4>2. emitted'[Len(emitted) + 1] = es[1] /\ emitted'[i] = es[2]
        BY <2>3, <3>2
      <4>3. CASE es[1].kind = "queued"
        BY <2>2, <3>2, <4>1, <4>2, <4>3
      <4>4. CASE es[1].kind = "ended"
        <5>1. es[2].step = s /\ Begun(s)
          BY <2>2, <3>2, <4>4
        <5>2. PICK k \in 1..Len(emitted) : emitted[k].kind = "queued" /\ emitted[k].step = s
          BY <2>5, <5>1
        <5>3. k \in 1..(i - 1) /\ emitted'[k] = emitted[k]
          BY <1>1, <2>3, <3>2
        <5>4. QED
          BY <4>2, <5>1, <5>2, <5>3
      <4>5. QED
        BY <2>2, <3>2, <4>3, <4>4
    <3>3. CASE i = Len(emitted) + 1
      <4>1. emitted'[i] = es[1]
        BY <2>3, <3>3
      <4>2. Begun(s) /\ es[1].step = s
        BY <2>2, <2>8, <4>1
      <4>3. QED
        BY <1>1, <2>3, <2>5, <3>3, <4>1, <4>2
    <3>4. QED
      BY <2>6, <3>1, <3>2, <3>3
  <2>9. \A i \in 1..Len(emitted') : emitted'[i].kind \in {"buildstart", "buildend"} => emitted'[i].step = NoStep
    BY <2>7 DEF IInv, BuildOK
  <2>10. BuildOK'
    BY <2>4, <2>12, <2>8, <2>9 DEF BuildOK
  <2>11. PathOK' /\ Exact'
    <3>1. Len(emitted') \in Nat /\ Len(emitted') > Len(emitted)
      BY <1>1, <2>3
    <3>2. QED
      BY <1>1, <2>3, <2>4, <3>1, EmitPath
  <2>13. QED
    BY <1>1, <2>10, <2>11 DEF IInv
<1>5. CASE BuildEnds
  <2>1. PICK code \in {0, 1, 124, 130} : Emit(<<Event("buildend", NoStep, code)>>)
    BY <1>5 DEF BuildEnds, Verdicts
  <2> DEFINE a == Event("buildend", NoStep, code)
  <2>2. a \in AnyEvent /\ a.kind = "buildend" /\ a.step = NoStep
    BY DEF Event, AnyEvent
  <2>3. Emit(<<a>>)
    BY <2>1
  <2> HIDE DEF a
  <2>5. Len(emitted') = Len(emitted) + 1 /\ emitted'[Len(emitted) + 1] = a
        /\ \A i \in 1..Len(emitted) : emitted'[i] = emitted[i]
    BY <2>2, <2>3, EmitsOne DEF IInv
  <2>6. ~Ended /\ Ended' /\ stage = "running" /\ ~failed /\ stage' = "draining" /\ UNCHANGED failed
    BY <1>5 DEF BuildEnds, IInv, BuildOK, Ended
  <2>7. \A i \in 1..Len(emitted') : i \in 1..Len(emitted) \/ i = Len(emitted')
    BY <1>1, <2>5
  <2>8. BuildOK'
    <3>1. emitted' # <<>> /\ emitted'[Len(emitted')] = a
      BY <1>1, <2>5
    <3>2. ASSUME NEW i \in 1..Len(emitted'), emitted'[i].kind \notin {"buildstart", "queued", "buildend"}
          PROVE  \E k \in 1..(i - 1) : emitted'[k].kind = "queued" /\ emitted'[k].step = emitted'[i].step
      <4>1. i \in 1..Len(emitted)
        BY <2>2, <2>7, <3>1, <3>2
      <4>2. PICK k \in 1..(i - 1) : emitted[k].kind = "queued" /\ emitted[k].step = emitted[i].step
        BY <2>5, <3>2, <4>1 DEF IInv, BuildOK
      <4>3. k \in 1..Len(emitted)
        BY <1>1, <4>1
      <4>4. QED
        BY <2>5, <4>1, <4>2, <4>3
    <3>3. \A i \in 1..Len(emitted') : IsBuildEnd(emitted'[i]) => i = Len(emitted')
      BY <2>5, <2>6, <2>7 DEF IInv, BuildOK
    <3>4. \A i \in 1..Len(emitted') : emitted'[i].kind \in {"buildstart", "buildend"} => emitted'[i].step = NoStep
      BY <2>2, <2>5, <2>7, <3>1 DEF IInv, BuildOK
    <3>5. IsBuildEnd(a)
      BY <2>2 DEF IsBuildEnd
    <3>6. QED
      BY <2>6, <3>1, <3>2, <3>3, <3>4, <3>5 DEF BuildOK, IsBuildEnd
  <2>9. PathOK' /\ Exact'
    BY <1>1, <2>5, <2>6, EmitPath
  <2>10. QED
    BY <1>1, <2>8, <2>9 DEF IInv
<1>6. QED
  BY <1>2, <1>3, <1>4, <1>5 DEF Build

LEMMA ForwarderKeepsAll == ASSUME IInv, Forwarder PROVE IInv'
<1>1. /\ Inv' /\ UNCHANGED <<buildVars, got, renderer>> /\ Inv
      /\ Len(emitted) \in Nat /\ cursor \in Nat /\ holding \in Nat /\ holding < cursor
      /\ Len(queue) \in Nat /\ Len(got) \in Nat /\ LastGot' = LastGot
  BY ForwarderKeeps DEF IInv, Inv, Shape, LastGot
<1>2. BuildOK'
  BY <1>1 DEF IInv, BuildOK, Ended, buildVars
<1>3. CASE Take
  BY <1>1, <1>2, <1>3 DEF Take, IInv, PathOK, Exact, buildVars
<1>4. CASE Lag
  <2>1. Oldest <= Len(emitted)
    BY <1>1, <1>4, BoundsAssumption DEF Lag, Oldest
  <2>2. cursor' = Oldest /\ lagged' = TRUE /\ UNCHANGED <<emitted, stage, failed, holding, fwd, queue, got, renderer>>
        /\ fwd = "on"
    BY <1>4 DEF Lag, buildVars
  <2>3. cursor' # Len(emitted) + 1
    BY <1>1, <2>1, <2>2 DEF Inv, Shape
  <2>4. PathOK' /\ Exact'
    BY <1>1, <2>2, <2>3 DEF IInv, PathOK, Exact
  <2>5. QED
    BY <1>1, <1>2, <2>4 DEF IInv
<1>5. CASE Forward
  <2>1. /\ queue' = Append(queue, holding) /\ holding' = 0 /\ holding # 0 /\ Len(queue) < Capacity
        /\ UNCHANGED <<emitted, stage, failed, cursor, fwd, lagged, got, renderer>> /\ queue \in Seq(Nat)
    BY <1>1, <1>5 DEF Forward, Inv, Shape, buildVars
  <2>2. /\ Len(queue') = Len(queue) + 1 /\ queue'[Len(queue')] = holding /\ queue' # <<>>
        /\ \A i \in 1..Len(queue) : queue'[i] = queue[i]
    BY <1>1, <2>1
  <2>3. PathOK'
    <3>1. Len(queue') <= Capacity
      BY <1>1, <2>1, <2>2, BoundsAssumption
    <3>2. QED
      BY <1>1, <2>1, <2>2, <3>1 DEF IInv, PathOK
  <2>4. Exact'
    <3> SUFFICES ASSUME ~lagged PROVE Exact'
      BY <2>1 DEF Exact
    <3>1. renderer = "on" => holding = Len(got) + Len(queue) + 1 /\ cursor = holding + 1
                             /\ \A i \in 1..Len(queue) : queue[i] = Len(got) + i
      BY <2>1 DEF IInv, Exact
    <3>2. \A i \in 1..Len(queue') : i \in 1..Len(queue) \/ i = Len(queue) + 1
      BY <1>1, <2>2
    <3>3. renderer = "on" => \A i \in 1..Len(queue') : queue'[i] = Len(got) + i
      <4> SUFFICES ASSUME renderer = "on", NEW i \in 1..Len(queue') PROVE queue'[i] = Len(got) + i
        OBVIOUS
      <4>1. CASE i \in 1..Len(queue)
        BY <2>2, <3>1, <4>1
      <4>2. CASE i = Len(queue) + 1
        BY <1>1, <2>2, <3>1, <4>2
      <4>3. QED
        BY <3>2, <4>1, <4>2
    <3>4. renderer = "on" => cursor = Len(got) + Len(queue') + 1
      BY <1>1, <2>2, <3>1
    <3>5. QED
      BY <1>1, <2>1, <3>3, <3>4 DEF IInv, Exact
  <2>5. QED
    BY <1>1, <1>2, <2>3, <2>4 DEF IInv
<1>6. CASE ForwardEnds
  <2>1. /\ fwd' = "done" /\ UNCHANGED <<emitted, stage, failed, cursor, holding, lagged, queue, got, renderer>>
        /\ \/ ~Receiving
           \/ holding = 0 /\ cursor > Len(emitted) /\ stage \in {"draining", "returned"}
    BY <1>6 DEF ForwardEnds, buildVars
  <2>2. cursor > Len(emitted) => cursor = Len(emitted) + 1
    BY <1>1 DEF Inv, Shape
  <2>3. PathOK' /\ Exact'
    BY <1>1, <2>1, <2>2 DEF IInv, PathOK, Exact, Receiving
  <2>4. QED
    BY <1>1, <1>2, <2>3 DEF IInv
<1>7. QED
  BY <1>3, <1>4, <1>5, <1>6 DEF Forwarder

LEMMA RendererKeepsAll == ASSUME IInv, Renderer PROVE IInv'
<1>1. /\ Inv' /\ UNCHANGED <<buildVars, fwdVars>> /\ Inv
      /\ Len(emitted) \in Nat /\ cursor \in Nat /\ holding \in Nat /\ LastGot \in Nat
      /\ queue \in Seq(Nat) /\ got \in Seq(Nat) /\ Len(queue) \in Nat /\ Len(got) \in Nat
  <2>1. Inv' /\ UNCHANGED <<buildVars, fwdVars>> /\ Inv
    BY RendererKeeps DEF IInv
  <2>2. LastGot \in Nat
    BY <2>1, Numbers DEF Inv
  <2>3. QED
    BY <2>1, <2>2 DEF Inv, Shape
<1>2. BuildOK'
  BY <1>1 DEF IInv, BuildOK, Ended, buildVars
<1>3. CASE Receive
  <2> DEFINE h == Head(queue)
  <2>1. /\ renderer = "on" /\ queue # <<>> /\ got' = Append(got, h)
        /\ \/ IsBuildEnd(emitted[h]) /\ renderer' = "done" /\ queue' = <<>>
           \/ ~IsBuildEnd(emitted[h]) /\ renderer' = "on" /\ queue' = Tail(queue)
    BY <1>3 DEF Receive
  <2>2. /\ h = queue[1] /\ h \in Nat /\ 1 \in 1..Len(queue)
        /\ Tail(queue) \in Seq(Nat) /\ Len(Tail(queue)) = Len(queue) - 1
        /\ \A i \in 1..(Len(queue) - 1) : Tail(queue)[i] = queue[i + 1] /\ i + 1 \in 1..Len(queue)
    BY <1>1, <2>1, TailIs
  <2> HIDE DEF h
  <2>3. /\ got' # <<>> /\ Len(got') = Len(got) + 1 /\ got'[Len(got')] = h
        /\ \A i \in 1..Len(got) : got'[i] = got[i]
    BY <1>1, <2>1, <2>2
  <2>4. LastGot' = h
    BY <2>3 DEF LastGot
  <2>5. PathOK'
    <3>1. Len(queue') <= Capacity
      BY <1>1, <2>1, <2>2, BoundsAssumption DEF IInv, PathOK
    <3>2. renderer' = "on" => ~IsBuildEnd(emitted'[LastGot'])
      BY <1>1, <2>1, <2>4 DEF buildVars
    <3>3. renderer' = "done" => got' # <<>> /\ IsBuildEnd(emitted'[LastGot'])
      BY <1>1, <2>1, <2>3, <2>4 DEF buildVars
    <3>4. ASSUME renderer' = "on", cursor = Len(emitted) + 1, emitted # <<>>
          PROVE  /\ holding # 0 => holding = Len(emitted)
                 /\ holding = 0 /\ queue' # <<>> => queue'[Len(queue')] = Len(emitted)
                 /\ holding = 0 /\ queue' = <<>> => LastGot' = Len(emitted)
      <4>1. /\ holding # 0 => holding = Len(emitted)
            /\ holding = 0 => queue[Len(queue)] = Len(emitted)
        BY <2>1, <3>4 DEF IInv, PathOK
      <4>2. queue' = Tail(queue)
        BY <2>1, <3>4
      <4>3. queue' # <<>> => Len(queue') \in 1..(Len(queue) - 1) /\ Len(queue') + 1 = Len(queue)
        BY <1>1, <2>2, <4>2
      <4>4. queue' # <<>> => queue'[Len(queue')] = queue[Len(queue)]
        BY <2>2, <4>2, <4>3
      <4>5. queue' = <<>> => Len(queue) = 1
        <5>1. queue' = <<>> => Len(queue') = 0
          OBVIOUS
        <5>2. Len(queue') = Len(queue) - 1
          BY <2>2, <4>2
        <5>3. QED
          BY <1>1, <5>1, <5>2
      <4>6. QED
        BY <2>2, <2>4, <4>1, <4>4, <4>5
    <3>5. QED
      BY <1>1, <2>1, <3>1, <3>2, <3>3, <3>4 DEF IInv, PathOK, buildVars, fwdVars
  <2>6. Exact'
    <3> SUFFICES ASSUME ~lagged PROVE Exact'
      BY <1>1 DEF Exact, fwdVars
    <3>1. /\ \A i \in 1..Len(got) : got[i] = i
          /\ \A i \in 1..Len(queue) : queue[i] = Len(got) + i
          /\ holding # 0 => holding = Len(got) + Len(queue) + 1 /\ cursor = holding + 1
          /\ holding = 0 => cursor = Len(got) + Len(queue) + 1
      BY <2>1 DEF IInv, Exact
    <3>2. h = Len(got) + 1
      BY <2>2, <3>1
    <3>3. \A i \in 1..Len(got') : i \in 1..Len(got) \/ i = Len(got')
      BY <1>1, <2>3
    <3>4. \A i \in 1..Len(got') : got'[i] = i
      BY <2>3, <3>1, <3>2, <3>3
    <3>5. CASE renderer' = "on"
      <4>1. Len(queue') = Len(queue) - 1
            /\ \A i \in 1..Len(queue') : queue'[i] = queue[i + 1] /\ i + 1 \in 1..Len(queue)
        BY <2>1, <2>2, <3>5
      <4>2. \A i \in 1..Len(queue') : queue'[i] = Len(got') + i
        <5> SUFFICES ASSUME NEW i \in 1..Len(queue') PROVE queue'[i] = Len(got') + i
          OBVIOUS
        <5>1. queue'[i] = queue[i + 1] /\ i + 1 \in 1..Len(queue)
          BY <4>1
        <5>2. queue'[i] = Len(got) + (i + 1)
          BY <3>1, <5>1
        <5>3. QED
          BY <1>1, <2>3, <4>1, <5>2
      <4>3. Len(got') + Len(queue') = Len(got) + Len(queue)
        BY <1>1, <2>3, <4>1
      <4>4. QED
        BY <1>1, <3>1, <3>4, <4>2, <4>3 DEF Exact, fwdVars
    <3>6. CASE renderer' # "on"
      BY <3>4, <3>6 DEF Exact
    <3>7. QED
      BY <3>5, <3>6
  <2>7. QED
    BY <1>1, <1>2, <2>5, <2>6 DEF IInv
<1>4. CASE FeedCloses
  <2>1. /\ renderer = "on" /\ queue = <<>> /\ renderer' = "done" /\ stage = "returned" /\ fwd # "on"
        /\ UNCHANGED <<queue, got>>
    BY <1>4 DEF FeedCloses, Senders
  <2>2. fwd = "done"
    BY <1>1, <2>1 DEF Inv, Shape
  <2>3. failed
    <3> SUFFICES ASSUME ~failed PROVE FALSE
      OBVIOUS
    <3>1. holding = 0 /\ cursor = Len(emitted) + 1
      BY <2>1, <2>2 DEF IInv, PathOK
    <3>2. emitted # <<>> /\ IsBuildEnd(emitted[Len(emitted)])
      BY <2>1 DEF IInv, BuildOK, Ended
    <3>3. LastGot = Len(emitted)
      BY <2>1, <3>1, <3>2 DEF IInv, PathOK
    <3>4. got = <<>>
      BY <2>1, <3>2, <3>3 DEF IInv, PathOK
    <3>5. Len(emitted) # 0
      BY <1>1, <3>2 DEF Inv, Shape
    <3>6. QED
      BY <3>3, <3>4, <3>5 DEF LastGot
  <2>4. PathOK' /\ Exact'
    BY <1>1, <2>1, <2>3 DEF IInv, PathOK, Exact, buildVars, fwdVars
  <2>5. QED
    BY <1>1, <1>2, <2>4 DEF IInv
<1>5. CASE RendererFails
  <2>1. /\ renderer' \in {"dead", "stuck"} /\ UNCHANGED got /\ queue # <<>>
        /\ queue' = <<>> \/ queue' = Tail(queue)
    BY <1>5 DEF RendererFails
  <2>2. Len(queue') <= Capacity
    <3>1. Len(Tail(queue)) = Len(queue) - 1
      BY <1>1, <2>1, TailIs
    <3>2. CASE queue' = <<>>
      BY <3>2, BoundsAssumption
    <3>3. CASE queue' = Tail(queue)
      BY <1>1, <3>1, <3>3, BoundsAssumption DEF IInv, PathOK
    <3>4. QED
      BY <2>1, <3>2, <3>3
  <2>3. PathOK' /\ Exact'
    BY <1>1, <2>1, <2>2 DEF IInv, PathOK, Exact, buildVars, fwdVars
  <2>4. QED
    BY <1>1, <1>2, <2>3 DEF IInv
<1>6. QED
  BY <1>3, <1>4, <1>5 DEF Renderer

\* Every step keeps the end the newest event on its way, and, until a lag, every
\* event where it was emitted.
LEMMA NextIInv == IInv /\ [Next]_vars => IInv'
<1> SUFFICES ASSUME IInv, [Next]_vars PROVE IInv'
  OBVIOUS
<1>1. CASE Next
  BY <1>1, BuildKeepsAll, ForwarderKeepsAll, RendererKeepsAll DEF Next
<1>2. CASE UNCHANGED vars
  <2>1. Inv'
    BY <1>2, NextInv DEF IInv
  <2>2. BuildOK'
    BY <1>2 DEF vars, buildVars, IInv, BuildOK, Ended
  <2>3. PathOK' /\ Exact'
    BY <1>2 DEF vars, buildVars, fwdVars, IInv, PathOK, Exact, LastGot
  <2>4. QED
    BY <2>1, <2>2, <2>3 DEF IInv
<1>3. QED
  BY <1>1, <1>2

LEMMA FunctionIsSeq ==
  ASSUME NEW S, NEW n \in Nat, NEW f \in [1..n -> S]
  PROVE  f \in Seq(S)
<1>1. f = [i \in 1..n |-> f[i]]
  OBVIOUS
<1>2. [i \in 1..n |-> f[i]] \in Seq(S)
  OBVIOUS
<1>3. QED
  BY <1>1, <1>2

LEMMA IInvSuffices == IInv => OnlyLagLoses
<1> SUFFICES ASSUME IInv PROVE OnlyLagLoses
  OBVIOUS
<1>1. /\ Len(emitted) \in Nat /\ emitted \in Seq(AnyEvent) /\ cursor \in 1..(Len(emitted) + 1)
      /\ got \in Seq(Nat) /\ queue \in Seq(Nat) /\ Len(got) \in Nat /\ Len(queue) \in Nat
      /\ LastGot \in Nat
  BY DEF IInv, Inv, Shape, LastGot
<1>2. \A i \in 1..Len(got) : got[i] \in 1..Len(emitted)
  BY <1>1 DEF IInv, Inv, InOrder
<1>3. \A i \in 1..Len(queue) : queue[i] \in 1..Len(emitted)
  BY <1>1 DEF IInv, Inv, InOrder
<1>4. got # <<>> => Len(got) \in 1..Len(got) /\ LastGot = got[Len(got)]
  BY <1>1 DEF LastGot
<1>5. TypeOK
  <2>1. got \in Seq(1..Len(emitted)) /\ queue \in Seq(1..Len(emitted))
    <3>1. got \in [1..Len(got) -> 1..Len(emitted)] /\ queue \in [1..Len(queue) -> 1..Len(emitted)]
      BY <1>1, <1>2, <1>3, LenProperties
    <3>2. QED
      BY <1>1, <3>1, FunctionIsSeq
  <2>2. QED
    BY <2>1 DEF TypeOK, IInv, Inv, Shape, PathOK
<1>6. EndIsShown
  BY <1>4 DEF IInv, PathOK, EndIsShown
<1>7. LossNeedsLag
  <2> SUFFICES ASSUME renderer = "done", ~failed, ~lagged PROVE Len(got) = Len(emitted)
    BY DEF LossNeedsLag
  <2>1. got # <<>> /\ IsBuildEnd(emitted[LastGot])
    BY DEF IInv, PathOK
  <2>2. LastGot \in 1..Len(emitted) /\ LastGot = Len(got)
    BY <1>2, <1>4, <2>1 DEF IInv, Exact
  <2>3. QED
    BY <2>1, <2>2 DEF IInv, BuildOK
<1>8. NamedUnlessLagged
  <2> SUFFICES ASSUME ~lagged, NEW i \in 1..Len(got),
                      Given[i].kind \notin {"buildstart", "queued", "buildend"}
               PROVE  Prefix(i) = Given[i].step
    BY <1>1 DEF NamedUnlessLagged
  <2>1. \A k \in 1..Len(got) : Given[k] = emitted[k] /\ k \in 1..Len(emitted)
    BY <1>1, <1>2 DEF IInv, Exact, Given
  <2>2. PICK k \in 1..(i - 1) : emitted[k].kind = "queued" /\ emitted[k].step = emitted[i].step
    BY <2>1 DEF IInv, BuildOK
  <2>3. k \in 1..Len(got)
    BY <1>1
  <2>4. \E k2 \in 1..(i - 1) : Given[k2].kind = "queued" /\ Given[k2].step = Given[i].step
    BY <2>1, <2>2, <2>3
  <2>5. QED
    BY <2>4 DEF Prefix
<1>9. QED
  BY <1>5, <1>6, <1>7, <1>8 DEF OnlyLagLoses

\* For every pipeline, ring and channel: only lag loses events, a renderer that
\* ends has been given the build's end, and a line loses its step's name only to
\* a lag.
THEOREM OnlyLag == Spec => []OnlyLagLoses
<1>1. Init => IInv
  BY InitIInv
<1>2. IInv /\ [Next]_vars => IInv'
  BY NextIInv
<1>3. QED
  BY <1>1, <1>2, IInvSuffices, PTL DEF Spec

-----------------------------------------------------------------------------
(* The books: what the renderer has written down after each event, by      *)
(* induction over the events it was given.                                 *)

Less == {ss \in Nat \X Nat : ss[1] < ss[2]}

\* Every set of numbers has a least one.
LEMMA Least ==
  ASSUME NEW T \in SUBSET Nat, T # {}
  PROVE  \E n \in T : \A m \in T : n <= m
<1>1. IsWellFoundedOn(Less, Nat)
  BY NatLessThanWellFounded DEF OpToRel, Less
<1>2. PICK n \in T : \A m \in T : ~(<<m, n>> \in Less)
  BY <1>1, WFMin
<1>3. ASSUME NEW m \in T PROVE n <= m
  <2>1. m \in Nat /\ n \in Nat /\ ~(<<m, n>> \in Less)
    BY <1>2
  <2>2. ~(m < n)
    BY <2>1 DEF Less
  <2>3. QED
    BY <2>1, <2>2
<1>4. QED
  BY <1>2, <1>3

-----------------------------------------------------------------------------
(* What the steps emit.                                                     *)

\* The build's end is 0 only if all steps ended with 0, and 1 only if not all did.
VerdictOK(code) ==
  /\ code = 0 => \A s \in Steps : Ended0(s)
  /\ (\A s \in Steps : Ended0(s)) => code \in {0, 124, 130}

\* Of a step one announcement and one end at most, and nothing after it but that
\* its chain failed.
StreamOK ==
  /\ \A i \in 1..Len(emitted) : emitted[i].kind \notin {"buildstart", "buildend"} => emitted[i].step \in Steps
  /\ \A i, j \in 1..Len(emitted) :
       emitted[i].kind = "queued" /\ emitted[j].kind = "queued" /\ emitted[i].step = emitted[j].step => i = j
  /\ \A i, j \in 1..Len(emitted) :
       emitted[i].kind = "ended" /\ emitted[j].step = emitted[i].step
         => j <= i \/ emitted[j].kind = "chainfailed"
  /\ \A i \in 1..Len(emitted) :
       IsBuildEnd(emitted[i]) =>
         VerdictOK(emitted[i].code)

LEMMA StepEvents ==
  ASSUME NEW s \in Steps, NEW es \in NextEvents(s), Begun(s)
  PROVE  ~Emitted(s, "ended")
<1>1. \E kind \in {"cachehit", "log", "ended"}, code \in {0, 1, 130} : Follows(s, kind, code)
  <2>1. CASE \E x \in {"cachehit", "log", "ended"} \X {0, 1} : Follows(s, x[1], x[2])
    BY <2>1
  <2>2. CASE \E code \in {1, 130} : Follows(s, "ended", code)
    BY <2>2
  <2>3. QED
    BY <2>1, <2>2 DEF NextEvents
<1>2. QED
  BY <1>1 DEF Follows

LEMMA StreamKept == ASSUME IInv, StreamOK, [Next]_vars PROVE StreamOK'
<1>1. Inv /\ Len(emitted) \in Nat /\ emitted \in Seq(AnyEvent)
  BY DEF IInv, Inv, Shape
<1>2. ASSUME UNCHANGED emitted PROVE StreamOK'
  BY <1>2 DEF StreamOK, VerdictOK, Ended0
<1>3. CASE BuildStarts
  <2> DEFINE a == Event("buildstart", NoStep, 0)
  <2>1. a \in AnyEvent /\ a.kind = "buildstart" /\ a.step = NoStep /\ ~IsBuildEnd(a)
    BY DEF Event, AnyEvent, IsBuildEnd
  <2>2. Emit(<<a>>)
    BY <1>3 DEF BuildStarts
  <2> HIDE DEF a
  <2>3. Len(emitted') = Len(emitted) + 1 /\ emitted'[Len(emitted) + 1] = a
        /\ \A i \in 1..Len(emitted) : emitted'[i] = emitted[i]
    BY <1>1, <2>1, <2>2, EmitsOne
  <2>4. \A i \in 1..Len(emitted') : i \in 1..Len(emitted) \/ i = Len(emitted) + 1
    BY <1>1, <2>3
  <2>5. \A i \in 1..Len(emitted) : ~IsBuildEnd(emitted[i])
    BY <1>3 DEF BuildStarts, IInv, BuildOK, Ended
  <2>6. \A i \in 1..Len(emitted) : emitted[i].kind = "ended" => emitted[i].step # NoStep
    BY StepsAssumption DEF StreamOK
  <2>7. QED
    BY <2>1, <2>3, <2>4, <2>5, <2>6 DEF StreamOK
<1>4. ASSUME NEW s \in Steps, StepEmits(s) PROVE StreamOK'
  <2>1. PICK es \in NextEvents(s) : Emit(es)
    BY <1>4 DEF StepEmits
  <2>2. /\ es \in Seq(AnyEvent) /\ es # <<>>
        /\ \/ /\ ~Begun(s) /\ Len(es) = 2 /\ es[1].kind = "queued" /\ es[1].step = s
              /\ es[2].kind = "started" /\ es[2].step = s
           \/ /\ ~Emitted(s, "ended") /\ Len(es) = 1
              /\ es[1].kind \in {"cachehit", "log", "ended"} /\ es[1].step = s
           \/ /\ ~Emitted(s, "ended") /\ Len(es) = 2
              /\ es[1].kind = "ended" /\ es[1].step = s
              /\ es[2].kind = "chainfailed" /\ es[2].step = s
    BY StepsEvents, StepEvents
  <2>3. /\ Len(emitted') = Len(emitted) + Len(es) /\ Len(es) \in Nat \ {0}
        /\ \A i \in 1..Len(emitted) : emitted'[i] = emitted[i]
        /\ \A i \in 1..Len(es) : emitted'[Len(emitted) + i] = es[i]
    BY <1>1, <2>1, <2>2, EmitsTyped
  <2>4. \A i \in 1..Len(emitted) : ~IsBuildEnd(emitted[i])
    BY <1>4 DEF StepEmits, IInv, BuildOK, Ended
  <2>5. CASE /\ ~Begun(s) /\ Len(es) = 2 /\ es[1].kind = "queued" /\ es[1].step = s
             /\ es[2].kind = "started" /\ es[2].step = s
    <3>1. \A i \in 1..Len(emitted') : i \in 1..Len(emitted) \/ i = Len(emitted) + 1 \/ i = Len(emitted) + 2
      BY <1>1, <2>3, <2>5
    <3>2. /\ Len(emitted') = Len(emitted) + 2
          /\ emitted'[Len(emitted) + 1].kind = "queued" /\ emitted'[Len(emitted) + 1].step = s
          /\ emitted'[Len(emitted) + 2].kind = "started" /\ emitted'[Len(emitted) + 2].step = s
      BY <1>1, <2>3, <2>5
    <3>3. \A i \in 1..Len(emitted) : emitted[i].step # s
      BY <1>1, <2>5 DEF Begun, ToSet
    <3>4. \A i \in 1..Len(emitted') : ~IsBuildEnd(emitted'[i])
      BY <2>3, <2>4, <3>1, <3>2 DEF IsBuildEnd
    <3>5. \A i \in 1..Len(emitted') :
            emitted'[i].kind \notin {"buildstart", "buildend"} => emitted'[i].step \in Steps
      BY <2>3, <3>1, <3>2 DEF StreamOK
    <3>6. ASSUME NEW i \in 1..Len(emitted'), NEW j \in 1..Len(emitted'),
                 emitted'[i].kind = "queued", emitted'[j].kind = "queued", emitted'[i].step = emitted'[j].step
          PROVE  i = j
      BY <1>1, <2>3, <3>1, <3>2, <3>3, <3>6 DEF StreamOK
    <3>7. ASSUME NEW i \in 1..Len(emitted'), NEW j \in 1..Len(emitted'),
                 emitted'[i].kind = "ended", emitted'[j].step = emitted'[i].step
          PROVE  j <= i \/ emitted'[j].kind = "chainfailed"
      <4>1. i \in 1..Len(emitted) /\ emitted'[i] = emitted[i]
        BY <2>3, <3>1, <3>2, <3>7
      <4>2. j \in 1..Len(emitted) /\ emitted'[j] = emitted[j]
        BY <2>3, <3>1, <3>2, <3>3, <3>7, <4>1
      <4>3. QED
        BY <3>7, <4>1, <4>2 DEF StreamOK
    <3>8. QED
      BY <3>4, <3>5, <3>6, <3>7 DEF StreamOK
  <2>6. CASE /\ ~Emitted(s, "ended") /\ Len(es) = 1
             /\ es[1].kind \in {"cachehit", "log", "ended"} /\ es[1].step = s
    <3>1. \A i \in 1..Len(emitted') : i \in 1..Len(emitted) \/ i = Len(emitted) + 1
      BY <1>1, <2>3, <2>6
    <3>2. /\ Len(emitted') = Len(emitted) + 1
          /\ emitted'[Len(emitted) + 1].kind \in {"cachehit", "log", "ended"} /\ emitted'[Len(emitted) + 1].step = s
      BY <1>1, <2>3, <2>6
    <3>3. \A i \in 1..Len(emitted) : emitted[i].kind = "ended" => emitted[i].step # s
      BY <1>1, <2>6 DEF Emitted
    <3>4. \A i \in 1..Len(emitted') : ~IsBuildEnd(emitted'[i])
      BY <2>3, <2>4, <3>1, <3>2 DEF IsBuildEnd
    <3>5. \A i \in 1..Len(emitted') :
            emitted'[i].kind \notin {"buildstart", "buildend"} => emitted'[i].step \in Steps
      BY <2>3, <3>1, <3>2 DEF StreamOK
    <3>6. ASSUME NEW i \in 1..Len(emitted'), NEW j \in 1..Len(emitted'),
                 emitted'[i].kind = "queued", emitted'[j].kind = "queued", emitted'[i].step = emitted'[j].step
          PROVE  i = j
      BY <2>3, <3>1, <3>2, <3>6 DEF StreamOK
    <3>7. ASSUME NEW i \in 1..Len(emitted'), NEW j \in 1..Len(emitted'),
                 emitted'[i].kind = "ended", emitted'[j].step = emitted'[i].step
          PROVE  j <= i \/ emitted'[j].kind = "chainfailed"
      <4>1. CASE i = Len(emitted) + 1
        BY <1>1, <3>2, <4>1
      <4>2. CASE i \in 1..Len(emitted)
        <5>1. j \in 1..Len(emitted)
          BY <2>3, <3>1, <3>2, <3>3, <3>7, <4>2
        <5>2. QED
          BY <2>3, <3>7, <4>2, <5>1 DEF StreamOK
      <4>3. QED
        BY <3>1, <4>1, <4>2
    <3>8. QED
      BY <3>4, <3>5, <3>6, <3>7 DEF StreamOK
  <2>7. CASE /\ ~Emitted(s, "ended") /\ Len(es) = 2 /\ es[1].kind = "ended" /\ es[1].step = s
             /\ es[2].kind = "chainfailed" /\ es[2].step = s
    <3>1. \A i \in 1..Len(emitted') : i \in 1..Len(emitted) \/ i = Len(emitted) + 1 \/ i = Len(emitted) + 2
      BY <1>1, <2>3, <2>7
    <3>2. /\ Len(emitted') = Len(emitted) + 2
          /\ emitted'[Len(emitted) + 1].kind = "ended" /\ emitted'[Len(emitted) + 1].step = s
          /\ emitted'[Len(emitted) + 2].kind = "chainfailed" /\ emitted'[Len(emitted) + 2].step = s
      BY <1>1, <2>3, <2>7
    <3>3. \A i \in 1..Len(emitted) : emitted[i].kind = "ended" => emitted[i].step # s
      BY <1>1, <2>7 DEF Emitted
    <3>4. \A i \in 1..Len(emitted') : ~IsBuildEnd(emitted'[i])
      BY <2>3, <2>4, <3>1, <3>2 DEF IsBuildEnd
    <3>5. \A i \in 1..Len(emitted') :
            emitted'[i].kind \notin {"buildstart", "buildend"} => emitted'[i].step \in Steps
      BY <2>3, <3>1, <3>2 DEF StreamOK
    <3>6. ASSUME NEW i \in 1..Len(emitted'), NEW j \in 1..Len(emitted'),
                 emitted'[i].kind = "queued", emitted'[j].kind = "queued", emitted'[i].step = emitted'[j].step
          PROVE  i = j
      BY <2>3, <3>1, <3>2, <3>6 DEF StreamOK
    <3>7. ASSUME NEW i \in 1..Len(emitted'), NEW j \in 1..Len(emitted'),
                 emitted'[i].kind = "ended", emitted'[j].step = emitted'[i].step
          PROVE  j <= i \/ emitted'[j].kind = "chainfailed"
      <4>1. CASE i = Len(emitted) + 1
        BY <1>1, <3>1, <3>2, <4>1
      <4>2. CASE i \in 1..Len(emitted)
        <5>1. j \in 1..Len(emitted)
          BY <2>3, <3>1, <3>2, <3>3, <3>7, <4>2
        <5>2. QED
          BY <2>3, <3>7, <4>2, <5>1 DEF StreamOK
      <4>3. QED
        BY <3>1, <3>2, <3>7, <4>1, <4>2
    <3>8. QED
      BY <3>4, <3>5, <3>6, <3>7 DEF StreamOK
  <2>8. QED
    BY <2>2, <2>5, <2>6, <2>7
<1>5. CASE BuildEnds
  <2>1. PICK code \in Verdicts : Emit(<<Event("buildend", NoStep, code)>>)
    BY <1>5 DEF BuildEnds
  <2> DEFINE a == Event("buildend", NoStep, code)
  <2>2. code \in {0, 1, 124, 130} /\ VerdictOK(code)
    BY DEF Verdicts, VerdictOK
  <2>3. a \in AnyEvent /\ a.kind = "buildend" /\ a.step = NoStep /\ IsBuildEnd(a) /\ a.code = code
    BY <2>2 DEF Event, AnyEvent, IsBuildEnd
  <2>4. Emit(<<a>>)
    BY <2>1
  <2> HIDE DEF a
  <2>5. Len(emitted') = Len(emitted) + 1 /\ emitted'[Len(emitted) + 1] = a
        /\ \A i \in 1..Len(emitted) : emitted'[i] = emitted[i]
    BY <1>1, <2>3, <2>4, EmitsOne
  <2>6. \A i \in 1..Len(emitted') : i \in 1..Len(emitted) \/ i = Len(emitted) + 1
    BY <1>1, <2>5
  <2>7. \A i \in 1..Len(emitted) : ~IsBuildEnd(emitted[i])
    BY <1>5 DEF BuildEnds, IInv, BuildOK, Ended
  <2>8. \A i \in 1..Len(emitted) : emitted[i].kind = "ended" => emitted[i].step # NoStep
    BY StepsAssumption DEF StreamOK
  <2>9. \A s \in Steps : Ended0(s) <=> Ended0(s)'
    <3> SUFFICES ASSUME NEW s \in Steps
                 PROVE  Event("ended", s, 0) \in ToSet(emitted) <=> Event("ended", s, 0) \in ToSet(emitted')
      BY DEF Ended0
    <3>1. Event("ended", s, 0) # a
      BY <2>3 DEF Event
    <3>2. ToSet(emitted) = {emitted[i] : i \in 1..Len(emitted)} /\ ToSet(emitted') = {emitted'[i] : i \in 1..Len(emitted')}
      <4>1. emitted' \in Seq(AnyEvent)
        BY <1>1, <2>3, <2>4 DEF Emit
      <4>2. QED
        BY <1>1, <4>1 DEF ToSet
    <3>3. QED
      BY <1>1, <2>5, <2>6, <3>1, <3>2
  <2>10. VerdictOK(code)'
    BY <2>2, <2>9 DEF VerdictOK
  <2>11. \A i \in 1..Len(emitted') : IsBuildEnd(emitted'[i]) => VerdictOK(emitted[i].code)'
    <3> SUFFICES ASSUME NEW i \in 1..Len(emitted'), IsBuildEnd(emitted'[i])
                 PROVE  VerdictOK(emitted[i].code)'
      OBVIOUS
    <3>1. i = Len(emitted) + 1
      BY <2>5, <2>6, <2>7
    <3>2. emitted'[i].code = code
      BY <2>3, <2>5, <3>1
    <3>3. QED
      BY <2>10, <3>2 DEF VerdictOK
  <2>12. QED
    BY <2>3, <2>5, <2>6, <2>8, <2>11 DEF StreamOK
<1>6. CASE SetupFails \/ TearDown \/ Forwarder \/ Renderer \/ UNCHANGED vars
  BY <1>1, <1>2, <1>6, ForwarderKeeps, RendererKeeps DEF SetupFails, TearDown, vars, buildVars
<1>7. QED
  BY <1>3, <1>4, <1>5, <1>6 DEF Next, Build

-----------------------------------------------------------------------------
(* The books.                                                               *)

BooksSet ==
  [pos : Nat, order : Seq(Steps), outcome : [Steps -> {"none", "cached", "succeeded", "cancelled", "failed"}],
   failed : Seq(Steps), buffer : [Steps -> Nat], report : Seq(Steps \X Nat),
   banner : {"none", "succeeded", "failed"}]

\* The report of the failed steps in v.
Replay(v) == [i \in DOMAIN v.failed |-> <<v.failed[i], v.buffer[v.failed[i]]>>]

\* An event of a step, or of the build.
LEMMA EventKinds ==
  ASSUME NEW e \in AnyEvent, e.kind \notin {"buildstart", "buildend"} => e.step \in Steps
  PROVE  /\ e.kind \in {"buildstart", "queued", "started", "cachehit", "log", "ended", "chainfailed", "buildend"}
         /\ e.code \in {0, 1, 124, 130}
         /\ Outcome(e.code) \in {"succeeded", "cancelled", "failed"}
         /\ Outcome(e.code) = "failed" <=> e.code \notin {0, 130}
BY DEF AnyEvent, Outcome

\* Of the books, setting one part leaves the others.
LEMMA SetBuffer ==
  ASSUME NEW v \in BooksSet, NEW b \in [Steps -> Nat]
  PROVE  LET w == [v EXCEPT !.buffer = b] IN
         /\ w \in BooksSet /\ w.buffer = b /\ w.order = v.order /\ w.outcome = v.outcome /\ w.failed = v.failed
         /\ w.banner = v.banner /\ w.report = v.report /\ w.pos = v.pos
BY DEF BooksSet

LEMMA SetFailed ==
  ASSUME NEW v \in BooksSet, NEW q \in Seq(Steps)
  PROVE  LET w == [v EXCEPT !.failed = q] IN
         /\ w \in BooksSet /\ w.buffer = v.buffer /\ w.order = v.order /\ w.outcome = v.outcome /\ w.failed = q
         /\ w.banner = v.banner /\ w.report = v.report /\ w.pos = v.pos
BY DEF BooksSet

\* What each event does to the books.
LEMMA OnEventIs ==
  ASSUME NEW v \in BooksSet, NEW e \in AnyEvent, e.kind \notin {"buildstart", "buildend"} => e.step \in Steps
  PROVE  LET w == OnEvent(e, v) IN
         /\ w \in BooksSet
         /\ w.order = IF e.kind = "queued" THEN Append(v.order, e.step) ELSE v.order
         /\ w.buffer = IF e.kind = "log" THEN [v.buffer EXCEPT ![e.step] = @ + 1] ELSE v.buffer
         /\ w.outcome = CASE e.kind = "cachehit" -> [v.outcome EXCEPT ![e.step] = "cached"]
                          [] e.kind = "ended" -> [v.outcome EXCEPT ![e.step] = Outcome(e.code)]
                          [] OTHER -> v.outcome
         /\ w.failed = IF e.kind = "ended" /\ e.code \notin {0, 130} THEN Append(v.failed, e.step) ELSE v.failed
         /\ w.banner = IF e.kind # "buildend" THEN v.banner ELSE IF e.code = 0 THEN "succeeded" ELSE "failed"
         /\ w.report = IF e.kind # "buildend" THEN v.report ELSE IF e.code = 0 THEN <<>> ELSE Replay(v)
<1>1. CASE e.kind = "queued"
  <2>1. OnEvent(e, v) = [v EXCEPT !.order = Append(@, e.step)]
    BY <1>1 DEF OnEvent, Ordered, Advanced, Buffered, Marked, Collected, Closed, IsBuildEnd
  <2>2. e.step \in Steps /\ Append(v.order, e.step) \in Seq(Steps)
    BY <1>1 DEF BooksSet
  <2>3. QED
    BY <1>1, <2>1, <2>2 DEF BooksSet
<1>2. CASE e.kind \in {"started", "buildstart", "chainfailed"}
  <2>1. OnEvent(e, v) = v
    BY <1>2 DEF OnEvent, Ordered, Advanced, Buffered, Marked, Collected, Closed, IsBuildEnd
  <2>2. QED
    BY <1>2, <2>1
<1>3. CASE e.kind = "log"
  <2> DEFINE b == [v.buffer EXCEPT ![e.step] = @ + 1]
  <2>1. OnEvent(e, v) = [v EXCEPT !.buffer = b]
    BY <1>3 DEF OnEvent, Ordered, Advanced, Buffered, Marked, Collected, Closed, IsBuildEnd, BooksSet
  <2>2. b \in [Steps -> Nat]
    BY <1>3 DEF BooksSet
  <2> HIDE DEF b
  <2>3. /\ OnEvent(e, v) \in BooksSet /\ OnEvent(e, v).buffer = b
        /\ OnEvent(e, v).order = v.order /\ OnEvent(e, v).outcome = v.outcome /\ OnEvent(e, v).failed = v.failed
        /\ OnEvent(e, v).banner = v.banner /\ OnEvent(e, v).report = v.report
    BY <2>1, <2>2, SetBuffer
  <2>4. QED
    BY <1>3, <2>3 DEF b
<1>4. CASE e.kind = "cachehit"
  <2> DEFINE o == [v.outcome EXCEPT ![e.step] = "cached"]
             p == v.pos + 1
  <2>1. OnEvent(e, v) = [v EXCEPT !.pos = p, !.outcome = o]
    BY <1>4 DEF OnEvent, Ordered, Advanced, Buffered, Marked, Collected, Closed, IsBuildEnd, BooksSet
  <2>2. o \in [Steps -> {"none", "cached", "succeeded", "cancelled", "failed"}] /\ p \in Nat
    BY <1>4 DEF BooksSet
  <2> HIDE DEF o, p
  <2>3. /\ OnEvent(e, v) \in BooksSet /\ OnEvent(e, v).buffer = v.buffer
        /\ OnEvent(e, v).order = v.order /\ OnEvent(e, v).outcome = o /\ OnEvent(e, v).failed = v.failed
        /\ OnEvent(e, v).banner = v.banner /\ OnEvent(e, v).report = v.report
    BY <2>1, <2>2 DEF BooksSet
  <2>4. QED
    BY <1>4, <2>3 DEF o
<1>5. CASE e.kind = "ended"
  <2> DEFINE o == [v.outcome EXCEPT ![e.step] = Outcome(e.code)]
             p == v.pos + 1
             x == [v EXCEPT !.pos = p, !.outcome = o]
             q == Append(v.failed, e.step)
  <2>1. /\ e.step \in Steps /\ Outcome(e.code) \in {"succeeded", "cancelled", "failed"}
        /\ Outcome(e.code) = "failed" <=> e.code \notin {0, 130}
    BY <1>5, EventKinds
  <2>2. o \in [Steps -> {"none", "cached", "succeeded", "cancelled", "failed"}] /\ p \in Nat /\ q \in Seq(Steps)
    BY <2>1 DEF BooksSet
  <2>3. /\ x \in BooksSet /\ x.buffer = v.buffer /\ x.order = v.order /\ x.outcome = o /\ x.failed = v.failed
        /\ x.banner = v.banner /\ x.report = v.report
    <3> HIDE DEF o, p
    <3>1. QED
      BY <2>2 DEF BooksSet, x
  <2>4. Marked(Buffered(Advanced(Ordered(v, e), e), e), e) = x
    BY <1>5 DEF Ordered, Advanced, Buffered, Marked, BooksSet
  <2>5. OnEvent(e, v) = IF e.code \notin {0, 130} THEN [x EXCEPT !.failed = q] ELSE x
    <3> HIDE DEF x
    <3>1. QED
      BY <1>5, <2>1, <2>3, <2>4 DEF OnEvent, Collected, Closed, IsBuildEnd
  <2> HIDE DEF o, p, q, x
  <2>6. CASE e.code \notin {0, 130}
    <3>1. OnEvent(e, v) = [x EXCEPT !.failed = q]
      BY <2>5, <2>6
    <3>2. /\ OnEvent(e, v) \in BooksSet /\ OnEvent(e, v).buffer = v.buffer
          /\ OnEvent(e, v).order = v.order /\ OnEvent(e, v).outcome = o /\ OnEvent(e, v).failed = q
          /\ OnEvent(e, v).banner = v.banner /\ OnEvent(e, v).report = v.report
      BY <2>2, <2>3, <3>1, SetFailed
    <3>3. QED
      BY <1>5, <2>6, <3>2 DEF o, q
  <2>7. CASE e.code \in {0, 130}
    BY <1>5, <2>3, <2>5, <2>7 DEF o
  <2>8. QED
    BY <2>6, <2>7
<1>6. CASE e.kind = "buildend"
  <2> DEFINE b == IF e.code = 0 THEN "succeeded" ELSE "failed"
             r == IF e.code = 0 THEN <<>> ELSE Replay(v)
  <2>1. OnEvent(e, v) = [v EXCEPT !.banner = b, !.report = r]
    <3>1. Collected(Marked(Buffered(Advanced(Ordered(v, e), e), e), e), e) = v
      BY <1>6 DEF Ordered, Advanced, Buffered, Marked, Collected
    <3>2. OnEvent(e, v) = Closed(v, e)
      BY <3>1 DEF OnEvent
    <3>3. QED
      BY <1>6, <3>2 DEF Closed, IsBuildEnd, Replay
  <2>2. Replay(v) \in Seq(Steps \X Nat)
    <3>1. v.failed \in Seq(Steps) /\ DOMAIN v.failed = 1..Len(v.failed) /\ Len(v.failed) \in Nat
      BY DEF BooksSet
    <3>2. \A i \in 1..Len(v.failed) : v.failed[i] \in Steps
      BY <3>1, ElementOfSeq
    <3>3. v.buffer \in [Steps -> Nat]
      BY DEF BooksSet
    <3>4. Replay(v) \in [1..Len(v.failed) -> Steps \X Nat]
      BY <3>1, <3>2, <3>3 DEF Replay
    <3>5. QED
      BY <3>1, <3>4, FunctionIsSeq
  <2>3. <<>> \in Seq(Steps \X Nat)
    OBVIOUS
  <2>4. b \in {"none", "succeeded", "failed"} /\ r \in Seq(Steps \X Nat)
    BY <2>2, <2>3
  <2> HIDE DEF b, r
  <2>5. /\ OnEvent(e, v) \in BooksSet /\ OnEvent(e, v).buffer = v.buffer
        /\ OnEvent(e, v).order = v.order /\ OnEvent(e, v).outcome = v.outcome /\ OnEvent(e, v).failed = v.failed
        /\ OnEvent(e, v).banner = b /\ OnEvent(e, v).report = r
    BY <2>1, <2>4 DEF BooksSet
  <2>6. QED
    BY <1>6, <2>5 DEF b, r
<1>7. QED
  BY <1>1, <1>2, <1>3, <1>4, <1>5, <1>6, EventKinds

LEMMA BlankIs ==
  /\ Blank \in BooksSet /\ Blank.order = <<>> /\ Blank.failed = <<>> /\ Blank.report = <<>>
  /\ Blank.banner = "none" /\ \A s \in Steps : Blank.buffer[s] = 0
<1>1. <<>> \in Seq(Steps) /\ <<>> \in Seq(Steps \X Nat)
  OBVIOUS
<1>2. QED
  BY <1>1 DEF Blank, BooksSet

\* The books kept of the first n events.
Attempt(n, f) ==
  /\ f \in [0..n -> BooksSet] /\ f[0] = Blank
  /\ \A i \in 1..n : f[i] = OnEvent(Given[i], f[i - 1])

\* The events the renderer is given are of steps, or of the build.
LEMMA GivenAre ==
  ASSUME IInv, StreamOK
  PROVE  /\ Len(got) \in Nat /\ DOMAIN got = 1..Len(got)
         /\ \A i \in 1..Len(got) : got[i] \in 1..Len(emitted)
         /\ \A i \in 1..Len(got) : Given[i] = emitted[got[i]]
         /\ \A i \in 1..Len(got) : Given[i] \in AnyEvent
         /\ \A i \in 1..Len(got) : Given[i].kind \notin {"buildstart", "buildend"} => Given[i].step \in Steps
<1>1. /\ Len(emitted) \in Nat /\ emitted \in Seq(AnyEvent) /\ cursor \in 1..(Len(emitted) + 1)
      /\ got \in Seq(Nat) /\ Len(got) \in Nat /\ DOMAIN got = 1..Len(got)
  BY DEF IInv, Inv, Shape
<1>2. \A i \in 1..Len(got) : got[i] \in 1..Len(emitted)
  BY <1>1, Numbers DEF IInv, Inv, InOrder
<1>3. \A i \in 1..Len(emitted) : emitted[i] \in AnyEvent
  BY <1>1, ElementOfSeq
<1>4. \A i \in 1..Len(got) : Given[i] = emitted[got[i]]
  BY <1>1 DEF Given
<1>5. QED
  BY <1>1, <1>2, <1>3, <1>4 DEF StreamOK

LEMMA BooksExist ==
  ASSUME IInv, StreamOK
  PROVE  \E f : Attempt(Len(got), f)
<1> DEFINE Bad == {n \in 0..Len(got) : ~\E f : Attempt(n, f)}
<1>1. Len(got) \in Nat
  BY GivenAre
<1>2. SUFFICES Bad = {}
  BY <1>1
<1>3. SUFFICES ASSUME Bad # {} PROVE FALSE
  OBVIOUS
<1>4. PICK n \in Bad : \A m \in Bad : n <= m
  <2>1. Bad \in SUBSET Nat
    BY <1>1
  <2> HIDE DEF Bad
  <2>2. QED
    BY <1>3, <2>1, Least
<1>5. n \in 0..Len(got) /\ ~\E f : Attempt(n, f)
  BY <1>4
<1>6. CASE n = 0
  <2>1. Attempt(0, [i \in 0..0 |-> Blank])
    BY BlankIs DEF Attempt
  <2>2. QED
    BY <1>5, <1>6, <2>1
<1>7. CASE n # 0
  <2>1. n - 1 \in 0..Len(got) /\ n - 1 < n /\ n \in 1..Len(got)
    BY <1>1, <1>5, <1>7
  <2>2. n - 1 \notin Bad
    BY <1>4, <2>1
  <2>3. PICK f : Attempt(n - 1, f)
    BY <2>1, <2>2
  <2> DEFINE new == OnEvent(Given[n], f[n - 1])
             g == [i \in 0..n |-> IF i = n THEN new ELSE f[i]]
  <2>4. f[n - 1] \in BooksSet /\ new \in BooksSet
    <3>1. f[n - 1] \in BooksSet
      BY <2>1, <2>3 DEF Attempt
    <3>2. /\ Given[n] \in AnyEvent
          /\ Given[n].kind \notin {"buildstart", "buildend"} => Given[n].step \in Steps
      BY <2>1, GivenAre
    <3>3. QED
      BY <3>1, <3>2, OnEventIs
  <2> HIDE DEF new
  <2>5. g \in [0..n -> BooksSet] /\ g[0] = Blank
    BY <2>1, <2>3, <2>4 DEF Attempt
  <2>6. \A i \in 1..n : g[i] = OnEvent(Given[i], g[i - 1])
    <3>1. ASSUME NEW i \in 1..n, i # n PROVE g[i] = OnEvent(Given[i], g[i - 1])
      <4>1. i \in 1..(n - 1) /\ i - 1 \in 0..n /\ i - 1 # n /\ i \in 0..n
        BY <2>1, <3>1
      <4>2. g[i] = f[i] /\ g[i - 1] = f[i - 1]
        BY <3>1, <4>1
      <4>3. QED
        BY <2>3, <4>1, <4>2 DEF Attempt
    <3>2. g[n] = new /\ g[n - 1] = f[n - 1]
      BY <2>1
    <3>3. QED
      BY <3>1, <3>2 DEF new
  <2>7. QED
    BY <1>5, <2>5, <2>6 DEF Attempt
<1>8. QED
  BY <1>6, <1>7

\* The books are kept event by event.
LEMMA BooksAre ==
  ASSUME IInv, StreamOK
  PROVE  /\ Books[0] = Blank /\ \A n \in 1..Len(got) : Books[n] = OnEvent(Given[n], Books[n - 1])
         /\ \A n \in 0..Len(got) : Books[n] \in BooksSet
<1> DEFINE Fits(f) == f = [n \in 0..Len(got) |-> IF n = 0 THEN Blank ELSE OnEvent(Given[n], f[n - 1])]
<1>1. Len(got) \in Nat
  BY GivenAre
<1>2. PICK f : Attempt(Len(got), f)
  BY BooksExist
<1>3. Fits(f)
  <2>1. f = [n \in 0..Len(got) |-> f[n]]
    BY <1>2 DEF Attempt
  <2>2. \A n \in 0..Len(got) : f[n] = IF n = 0 THEN Blank ELSE OnEvent(Given[n], f[n - 1])
    BY <1>1, <1>2 DEF Attempt
  <2>3. QED
    BY <2>1, <2>2
<1>4. Books = CHOOSE g : Fits(g)
  BY DEF Books
<1>5. Fits(Books)
  <2> HIDE DEF Fits
  <2>1. QED
    BY <1>3, <1>4
<1>6. \A n \in 0..Len(got) : Books[n] = IF n = 0 THEN Blank ELSE OnEvent(Given[n], Books[n - 1])
  BY <1>5
<1>7. Books[0] = Blank /\ \A n \in 1..Len(got) : Books[n] = OnEvent(Given[n], Books[n - 1])
  BY <1>1, <1>6
<1> DEFINE Bad == {n \in 0..Len(got) : Books[n] \notin BooksSet}
<1>8. Bad = {}
  <2> SUFFICES ASSUME Bad # {} PROVE FALSE
    OBVIOUS
  <2>1. PICK n \in Bad : \A m \in Bad : n <= m
    <3>1. Bad \in SUBSET Nat
      BY <1>1
    <3> HIDE DEF Bad
    <3>2. QED
      BY <3>1, Least
  <2>2. n \in 0..Len(got) /\ Books[n] \notin BooksSet
    BY <2>1
  <2>3. n # 0
    BY <1>7, <2>2, BlankIs
  <2>4. n \in 1..Len(got) /\ n - 1 \in 0..Len(got) /\ n - 1 < n
    BY <1>1, <2>2, <2>3
  <2>5. Books[n - 1] \in BooksSet
    BY <2>1, <2>4
  <2>6. /\ Given[n] \in AnyEvent
        /\ Given[n].kind \notin {"buildstart", "buildend"} => Given[n].step \in Steps
    BY <2>4, GivenAre
  <2>7. OnEvent(Given[n], Books[n - 1]) \in BooksSet
    BY <2>5, <2>6, OnEventIs
  <2>8. QED
    BY <1>7, <2>2, <2>4, <2>7
<1>9. QED
  BY <1>7, <1>8

\* The renderer was given every event.
AllGiven == Len(got) = Len(emitted) /\ \A i \in 1..Len(got) : got[i] = i

LogsTo(s, n) == {i \in 1..n : emitted[i].step = s /\ emitted[i].kind = "log"}

\* What the first n events left in the books.
OrderOK(n) ==
  LET order == Books[n].order IN
  /\ \A i, j \in 1..Len(order) : order[i] = order[j] => i = j
  /\ \A s \in Steps : (\E k \in 1..Len(order) : order[k] = s)
                     <=> \E i \in 1..n : emitted[i].kind = "queued" /\ emitted[i].step = s
OutcomesOK(n) ==
  \A i \in 1..n : emitted[i].kind = "ended" => Books[n].outcome[emitted[i].step] = Outcome(emitted[i].code)
BufferOK(n) == \A s \in Steps : Books[n].buffer[s] = Cardinality(LogsTo(s, n))
FailedOK(n) ==
  LET failures == Books[n].failed IN
  \A s \in Steps : (\E k \in 1..Len(failures) : failures[k] = s)
                 <=> \E i \in 1..n : emitted[i].kind = "ended" /\ emitted[i].step = s /\ emitted[i].code \notin {0, 130}
OpenOK(n) == n < Len(emitted) => Books[n].banner = "none" /\ Books[n].report = <<>>
BooksOK(n) == OrderOK(n) /\ OutcomesOK(n) /\ BufferOK(n) /\ FailedOK(n) /\ OpenOK(n)

\* A step is one of a list with one more entry if it was or is that entry.
LEMMA AppendHas ==
  ASSUME NEW S, NEW q \in Seq(S), NEW x \in S
  PROVE  /\ Append(q, x) \in Seq(S) /\ Len(Append(q, x)) = Len(q) + 1 /\ Len(q) \in Nat
         /\ \A k \in 1..Len(q) : Append(q, x)[k] = q[k]
         /\ Append(q, x)[Len(q) + 1] = x
         /\ \A s : (\E k \in 1..Len(Append(q, x)) : Append(q, x)[k] = s) <=> (s = x \/ \E k \in 1..Len(q) : q[k] = s)
<1> DEFINE r == Append(q, x)
<1>1. /\ r \in Seq(S) /\ Len(r) = Len(q) + 1 /\ Len(q) \in Nat
      /\ \A k \in 1..Len(q) : r[k] = q[k]
      /\ r[Len(q) + 1] = x
  OBVIOUS
<1> HIDE DEF r
<1>2. \A k \in 1..Len(r) : k \in 1..Len(q) \/ k = Len(q) + 1
  BY <1>1
<1>3. \A k \in 1..Len(q) : k \in 1..Len(r)
  BY <1>1
<1>4. Len(q) + 1 \in 1..Len(r)
  BY <1>1
<1>5. ASSUME NEW s PROVE (\E k \in 1..Len(r) : r[k] = s) <=> (s = x \/ \E k \in 1..Len(q) : q[k] = s)
  BY <1>1, <1>2, <1>3, <1>4
<1>6. QED
  BY <1>1, <1>5 DEF r

LEMMA NextBooks ==
  ASSUME IInv, StreamOK, AllGiven, NEW n \in 1..Len(emitted)
  PROVE  /\ n \in Nat /\ Len(emitted) \in Nat /\ n - 1 \in 0..Len(emitted)
         /\ \A i \in 1..n : i \in 1..(n - 1) \/ i = n
         /\ \A i \in 1..(n - 1) : i \in 1..n /\ i \in 1..Len(emitted) /\ i # n /\ i < n
         /\ emitted[n] \in AnyEvent
         /\ emitted[n].kind \notin {"buildstart", "buildend"} => emitted[n].step \in Steps
         /\ Books[n - 1] \in BooksSet
         /\ Books[n] = OnEvent(emitted[n], Books[n - 1])
<1>1. Len(got) \in Nat /\ n \in 1..Len(got) /\ got[n] = n
  BY GivenAre DEF AllGiven
<1>2. Given[n] = emitted[n]
  BY <1>1, GivenAre
<1>3. n - 1 \in 0..Len(got) /\ Len(emitted) = Len(got) /\ n \in Nat
  BY <1>1 DEF AllGiven
<1>4. /\ \A i \in 1..n : i \in 1..(n - 1) \/ i = n
      /\ \A i \in 1..(n - 1) : i \in 1..n /\ i \in 1..Len(emitted) /\ i # n /\ i < n
  BY <1>1, <1>3
<1>5. /\ emitted[n] \in AnyEvent
      /\ emitted[n].kind \notin {"buildstart", "buildend"} => emitted[n].step \in Steps
  BY <1>1, <1>2, GivenAre
<1>6. Books[n - 1] \in BooksSet /\ Books[n] = OnEvent(emitted[n], Books[n - 1])
  BY <1>1, <1>2, <1>3, BooksAre
<1>7. QED
  BY <1>1, <1>3, <1>4, <1>5, <1>6

LEMMA NextFields ==
  ASSUME IInv, StreamOK, AllGiven, NEW n \in 1..Len(emitted)
  PROVE  LET v == Books[n - 1]
             w == Books[n]
             e == emitted[n]
         IN
         /\ w.order = IF e.kind = "queued" THEN Append(v.order, e.step) ELSE v.order
         /\ w.buffer = IF e.kind = "log" THEN [v.buffer EXCEPT ![e.step] = @ + 1] ELSE v.buffer
         /\ w.outcome = CASE e.kind = "cachehit" -> [v.outcome EXCEPT ![e.step] = "cached"]
                          [] e.kind = "ended" -> [v.outcome EXCEPT ![e.step] = Outcome(e.code)]
                          [] OTHER -> v.outcome
         /\ w.failed = IF e.kind = "ended" /\ e.code \notin {0, 130} THEN Append(v.failed, e.step) ELSE v.failed
         /\ w.banner = IF e.kind # "buildend" THEN v.banner ELSE IF e.code = 0 THEN "succeeded" ELSE "failed"
         /\ w.report = IF e.kind # "buildend" THEN v.report ELSE IF e.code = 0 THEN <<>> ELSE Replay(v)
<1> DEFINE v == Books[n - 1]
           e == emitted[n]
<1>1. /\ v \in BooksSet /\ e \in AnyEvent /\ Books[n] = OnEvent(e, v)
      /\ e.kind \notin {"buildstart", "buildend"} => e.step \in Steps
  BY NextBooks
<1> HIDE DEF v, e
<1>2. /\ OnEvent(e, v).order = IF e.kind = "queued" THEN Append(v.order, e.step) ELSE v.order
      /\ OnEvent(e, v).buffer = IF e.kind = "log" THEN [v.buffer EXCEPT ![e.step] = @ + 1] ELSE v.buffer
      /\ OnEvent(e, v).outcome = CASE e.kind = "cachehit" -> [v.outcome EXCEPT ![e.step] = "cached"]
                             [] e.kind = "ended" -> [v.outcome EXCEPT ![e.step] = Outcome(e.code)]
                             [] OTHER -> v.outcome
      /\ OnEvent(e, v).failed = IF e.kind = "ended" /\ e.code \notin {0, 130} THEN Append(v.failed, e.step) ELSE v.failed
      /\ OnEvent(e, v).banner = IF e.kind # "buildend" THEN v.banner ELSE IF e.code = 0 THEN "succeeded" ELSE "failed"
      /\ OnEvent(e, v).report = IF e.kind # "buildend" THEN v.report ELSE IF e.code = 0 THEN <<>> ELSE Replay(v)
  BY <1>1, OnEventIs
<1>3. QED
  BY <1>1, <1>2 DEF v, e

LEMMA OrderGoesOn ==
  ASSUME IInv, StreamOK, AllGiven, NEW n \in 1..Len(emitted), OrderOK(n - 1)
  PROVE  OrderOK(n)
<1> DEFINE e == emitted[n]
           q == Books[n - 1].order
           r == Books[n].order
<1>1. /\ n \in Nat /\ \A i \in 1..n : i \in 1..(n - 1) \/ i = n
      /\ \A i \in 1..(n - 1) : i \in 1..n /\ i \in 1..Len(emitted) /\ i # n
      /\ q \in Seq(Steps) /\ r = IF e.kind = "queued" THEN Append(q, e.step) ELSE q
      /\ e.kind = "queued" => e.step \in Steps
  BY NextBooks, NextFields DEF BooksSet
<1>2. /\ \A i, j \in 1..Len(q) : q[i] = q[j] => i = j
      /\ \A s \in Steps : (\E k \in 1..Len(q) : q[k] = s)
                         <=> \E i \in 1..(n - 1) : emitted[i].kind = "queued" /\ emitted[i].step = s
  BY DEF OrderOK
<1> HIDE DEF q, r
<1>3. CASE e.kind # "queued"
  <2>1. r = q
    BY <1>1, <1>3
  <2>2. \A s \in Steps : (\E i \in 1..(n - 1) : emitted[i].kind = "queued" /\ emitted[i].step = s)
                       <=> \E i \in 1..n : emitted[i].kind = "queued" /\ emitted[i].step = s
    BY <1>1, <1>3
  <2>3. QED
    BY <1>2, <2>1, <2>2 DEF OrderOK, q, r
<1>4. CASE e.kind = "queued"
  <2>1. /\ r = Append(q, e.step) /\ e.step \in Steps /\ q \in Seq(Steps)
    BY <1>1, <1>4
  <2> HIDE DEF e
  <2>2. /\ Len(r) = Len(q) + 1 /\ Len(q) \in Nat /\ \A k \in 1..Len(q) : r[k] = q[k]
        /\ r[Len(q) + 1] = e.step
        /\ \A s : (\E k \in 1..Len(r) : r[k] = s) <=> (s = e.step \/ \E k \in 1..Len(q) : q[k] = s)
    BY <2>1, AppendHas
  <2>3. \A i \in 1..(n - 1) : ~(emitted[i].kind = "queued" /\ emitted[i].step = e.step)
    BY <1>1, <1>4 DEF StreamOK, e
  <2>4. \A k \in 1..Len(q) : q[k] # e.step
    BY <1>2, <2>1, <2>3
  <2>5. \A k \in 1..Len(r) : k \in 1..Len(q) \/ k = Len(q) + 1
    BY <2>2
  <2>6. \A i, j \in 1..Len(r) : r[i] = r[j] => i = j
    <3> SUFFICES ASSUME NEW i \in 1..Len(r), NEW j \in 1..Len(r), r[i] = r[j] PROVE i = j
      OBVIOUS
    <3>1. QED
      BY <1>2, <2>2, <2>4, <2>5
  <2>7. ASSUME NEW s \in Steps
        PROVE  (\E k \in 1..Len(r) : r[k] = s) <=> \E i \in 1..n : emitted[i].kind = "queued" /\ emitted[i].step = s
    <3>1. (\E i \in 1..n : emitted[i].kind = "queued" /\ emitted[i].step = s)
            <=> (s = e.step \/ \E i \in 1..(n - 1) : emitted[i].kind = "queued" /\ emitted[i].step = s)
      BY <1>1, <1>4 DEF e
    <3>2. QED
      BY <1>2, <2>2, <3>1
  <2>8. QED
    BY <2>6, <2>7 DEF OrderOK, r
<1>5. QED
  BY <1>3, <1>4

LEMMA FailedGoesOn ==
  ASSUME IInv, StreamOK, AllGiven, NEW n \in 1..Len(emitted), FailedOK(n - 1)
  PROVE  FailedOK(n)
<1> DEFINE e == emitted[n]
           q == Books[n - 1].failed
           r == Books[n].failed
           Failing(i, s) == emitted[i].kind = "ended" /\ emitted[i].step = s /\ emitted[i].code \notin {0, 130}
<1>1. /\ n \in Nat /\ \A i \in 1..n : i \in 1..(n - 1) \/ i = n
      /\ \A i \in 1..(n - 1) : i \in 1..n /\ i \in 1..Len(emitted) /\ i # n
      /\ q \in Seq(Steps) /\ r = IF e.kind = "ended" /\ e.code \notin {0, 130} THEN Append(q, e.step) ELSE q
      /\ e.kind = "ended" => e.step \in Steps
  BY NextBooks, NextFields DEF BooksSet
<1>2. \A s \in Steps : (\E k \in 1..Len(q) : q[k] = s) <=> \E i \in 1..(n - 1) : Failing(i, s)
  BY DEF FailedOK
<1> HIDE DEF q, r
<1>3. CASE ~(e.kind = "ended" /\ e.code \notin {0, 130})
  <2>1. r = q
    BY <1>1, <1>3
  <2>2. \A s \in Steps : (\E i \in 1..(n - 1) : Failing(i, s)) <=> \E i \in 1..n : Failing(i, s)
    BY <1>1, <1>3
  <2>3. QED
    BY <1>2, <2>1, <2>2 DEF FailedOK, q, r
<1>4. CASE e.kind = "ended" /\ e.code \notin {0, 130}
  <2>1. /\ r = Append(q, e.step) /\ e.step \in Steps /\ q \in Seq(Steps)
    BY <1>1, <1>4
  <2>2. \A s \in Steps : (\E i \in 1..n : Failing(i, s)) <=> (s = e.step \/ \E i \in 1..(n - 1) : Failing(i, s))
    BY <1>1, <1>4
  <2> HIDE DEF Failing, e
  <2>3. \A s : (\E k \in 1..Len(r) : r[k] = s) <=> (s = e.step \/ \E k \in 1..Len(q) : q[k] = s)
    BY <2>1, AppendHas
  <2>4. \A s \in Steps : (\E k \in 1..Len(r) : r[k] = s) <=> \E i \in 1..n : Failing(i, s)
    BY <1>2, <2>2, <2>3
  <2>5. QED
    BY <2>4 DEF FailedOK, r, Failing
<1>5. QED
  BY <1>3, <1>4

LEMMA OutcomesGoOn ==
  ASSUME IInv, StreamOK, AllGiven, NEW n \in 1..Len(emitted), OutcomesOK(n - 1)
  PROVE  OutcomesOK(n)
<1> DEFINE e == emitted[n]
           o == Books[n - 1].outcome
           p == Books[n].outcome
<1>1. /\ n \in Nat /\ \A i \in 1..n : i \in 1..(n - 1) \/ i = n
      /\ \A i \in 1..(n - 1) : i \in 1..n /\ i \in 1..Len(emitted) /\ i # n /\ i < n
      /\ o \in [Steps -> {"none", "cached", "succeeded", "cancelled", "failed"}]
      /\ p = CASE e.kind = "cachehit" -> [o EXCEPT ![e.step] = "cached"]
             [] e.kind = "ended" -> [o EXCEPT ![e.step] = Outcome(e.code)]
             [] OTHER -> o
      /\ e.kind = "ended" => e.step \in Steps
  BY NextBooks, NextFields DEF BooksSet
<1>2. \A i \in 1..(n - 1) : emitted[i].kind = "ended" => o[emitted[i].step] = Outcome(emitted[i].code)
  BY DEF OutcomesOK
<1> HIDE DEF o, p
<1>3. \A i \in 1..(n - 1) :
        emitted[i].kind = "ended" => /\ emitted[i].step \in Steps
                                     /\ e.kind # "chainfailed" => emitted[i].step # e.step
  BY <1>1 DEF StreamOK
<1>4. \A i \in 1..(n - 1) : emitted[i].kind = "ended" => p[emitted[i].step] = o[emitted[i].step]
  BY <1>1, <1>3
<1>5. e.kind = "ended" => p[e.step] = Outcome(e.code)
  BY <1>1
<1>6. QED
  BY <1>1, <1>2, <1>4, <1>5 DEF OutcomesOK, p

LEMMA BufferGoesOn ==
  ASSUME IInv, StreamOK, AllGiven, NEW n \in 1..Len(emitted), BufferOK(n - 1)
  PROVE  BufferOK(n)
<1> DEFINE e == emitted[n]
           b == Books[n - 1].buffer
           c == Books[n].buffer
<1>1. /\ n \in Nat /\ \A i \in 1..n : i \in 1..(n - 1) \/ i = n
      /\ \A i \in 1..(n - 1) : i \in 1..n /\ i \in 1..Len(emitted) /\ i # n
      /\ b \in [Steps -> Nat]
      /\ c = IF e.kind = "log" THEN [b EXCEPT ![e.step] = @ + 1] ELSE b
  BY NextBooks, NextFields DEF BooksSet
<1>2. \A s \in Steps : b[s] = Cardinality(LogsTo(s, n - 1))
  BY DEF BufferOK
<1> HIDE DEF b, c
<1>3. ASSUME NEW s \in Steps PROVE c[s] = Cardinality(LogsTo(s, n))
  <2>1. CASE ~(e.kind = "log" /\ e.step = s)
    <3>1. LogsTo(s, n) = LogsTo(s, n - 1)
      BY <1>1, <2>1 DEF LogsTo
    <3>2. c[s] = b[s]
      BY <1>1, <2>1
    <3>3. QED
      BY <1>2, <3>1, <3>2
  <2>2. CASE e.kind = "log" /\ e.step = s
    <3>1. LogsTo(s, n) = LogsTo(s, n - 1) \cup {n} /\ n \notin LogsTo(s, n - 1)
      BY <1>1, <2>2 DEF LogsTo
    <3>2. IsFiniteSet(LogsTo(s, n - 1))
      <4>1. IsFiniteSet(1..(n - 1)) /\ LogsTo(s, n - 1) \subseteq 1..(n - 1)
        BY <1>1, FS_Interval DEF LogsTo
      <4>2. QED
        BY <4>1, FS_Subset
    <3>3. Cardinality(LogsTo(s, n)) = Cardinality(LogsTo(s, n - 1)) + 1
      BY <3>1, <3>2, FS_AddElement
    <3>4. c[s] = b[s] + 1
      BY <1>1, <2>2
    <3>5. QED
      BY <1>2, <3>3, <3>4
  <2>3. QED
    BY <2>1, <2>2
<1>4. QED
  BY <1>3 DEF BufferOK, c

LEMMA StaysOpen ==
  ASSUME IInv, StreamOK, AllGiven, NEW n \in 1..Len(emitted), OpenOK(n - 1)
  PROVE  OpenOK(n)
<1> SUFFICES ASSUME n < Len(emitted) PROVE Books[n].banner = "none" /\ Books[n].report = <<>>
  BY DEF OpenOK
<1>1. n - 1 < Len(emitted) /\ n \in Nat /\ Len(emitted) \in Nat
  BY NextBooks
<1>2. emitted[n].kind # "buildend"
  BY <1>1 DEF IInv, BuildOK, IsBuildEnd
<1>3. QED
  BY <1>1, <1>2, NextFields DEF OpenOK

LEMMA BooksStart == ASSUME IInv, StreamOK PROVE BooksOK(0)
<1>1. Books[0] = Blank
  BY BooksAre
<1>2. \A s \in Steps : Cardinality(LogsTo(s, 0)) = 0
  <2>1. \A s \in Steps : LogsTo(s, 0) = {}
    BY DEF LogsTo
  <2>2. QED
    BY <2>1, FS_EmptySet
<1>3. Len(Blank.order) = 0 /\ Len(Blank.failed) = 0
  BY BlankIs
<1>4. QED
  BY <1>1, <1>2, <1>3, BlankIs DEF BooksOK, OrderOK, OutcomesOK, BufferOK, FailedOK, OpenOK

LEMMA BooksHold ==
  ASSUME IInv, StreamOK, AllGiven, NEW n \in 0..Len(emitted)
  PROVE  BooksOK(n)
<1> DEFINE Bad == {m \in 0..Len(emitted) : ~BooksOK(m)}
<1>1. Len(emitted) \in Nat
  BY DEF IInv, Inv, Shape
<1>2. SUFFICES ASSUME Bad # {} PROVE FALSE
  OBVIOUS
<1>3. PICK k \in Bad : \A m \in Bad : k <= m
  <2>1. Bad \in SUBSET Nat
    BY <1>1
  <2> HIDE DEF Bad
  <2>2. QED
    BY <1>2, <2>1, Least
<1>4. k \in 0..Len(emitted) /\ ~BooksOK(k)
  BY <1>3
<1>5. k # 0
  BY <1>4, BooksStart
<1>6. k \in 1..Len(emitted) /\ k - 1 \in 0..Len(emitted) /\ ~(k <= k - 1)
  BY <1>1, <1>4, <1>5
<1>7. BooksOK(k - 1)
  BY <1>3, <1>6
<1>8. BooksOK(k)
  BY <1>6, <1>7, OrderGoesOn, OutcomesGoOn, BufferGoesOn, FailedGoesOn, StaysOpen DEF BooksOK
<1>9. QED
  BY <1>4, <1>8

\* At the end the books say what the steps did.
LEMMA SummaryFollows == ASSUME IInv, StreamOK PROVE SummaryIsTrue
<1> SUFFICES ASSUME renderer = "done", ~failed, ~lagged
             PROVE  /\ IsInjective(Progress.order)
                    /\ ToSet(Progress.order) = {s \in Steps : Emitted(s, "queued")}
                    /\ \A e \in Ends : Progress.outcome[e.step] = Outcome(e.code)
                    /\ ToSet(Progress.report) = {<<e.step, LinesOf(e.step)>> : e \in {x \in Ends : x.code \notin {0, 130}}}
                    /\ Progress.banner = "succeeded" => \A s \in Steps : Ended0(s)
                    /\ (\A s \in Steps : Ended0(s)) =>
                          Progress.banner = "succeeded" \/ emitted[Len(emitted)].code \in {124, 130}
  BY DEF SummaryIsTrue
<1>1. /\ emitted \in Seq(AnyEvent) /\ DOMAIN emitted = 1..Len(emitted) /\ Len(emitted) \in Nat
      /\ got \in Seq(Nat) /\ Len(got) \in Nat
  BY DEF IInv, Inv, Shape
<1>2. AllGiven
  <2>1. Len(got) = Len(emitted)
    BY IInvSuffices DEF OnlyLagLoses, LossNeedsLag
  <2>2. QED
    BY <2>1 DEF IInv, Exact, AllGiven
<1>3. /\ emitted # <<>> /\ IsBuildEnd(emitted[Len(emitted)]) /\ Len(emitted) \in 1..Len(emitted)
  <2>1. got # <<>> /\ IsBuildEnd(emitted[got[Len(got)]])
    BY IInvSuffices DEF OnlyLagLoses, EndIsShown
  <2>2. Len(got) \in 1..Len(got)
    BY <1>1, <2>1
  <2>3. QED
    BY <1>1, <1>2, <2>1, <2>2 DEF AllGiven
<1> DEFINE n == Len(emitted)
           last == emitted[n]
           v == Books[n - 1]
           w == Books[n]
<1>4. Progress = w
  BY <1>2 DEF Progress, AllGiven
<1>5. /\ n \in 1..Len(emitted) /\ n - 1 \in 0..Len(emitted) /\ n \in 0..Len(emitted) /\ n \in Nat /\ n - 1 < Len(emitted)
      /\ v \in BooksSet /\ w \in BooksSet
  <2>1. n \in 1..Len(emitted) /\ n - 1 \in 0..Len(emitted) /\ n \in 0..Len(emitted) /\ n \in Nat /\ n - 1 < Len(emitted)
    BY <1>1, <1>3
  <2>2. v \in BooksSet /\ w \in BooksSet
    BY <1>2, <2>1, BooksAre DEF AllGiven
  <2>3. QED
    BY <2>1, <2>2
<1>6. BooksOK(n) /\ BooksOK(n - 1)
  BY <1>2, <1>5, BooksHold
<1>7. /\ last.kind = "buildend"
      /\ w.buffer = v.buffer /\ w.failed = v.failed
      /\ w.banner = IF last.code = 0 THEN "succeeded" ELSE "failed"
      /\ w.report = IF last.code = 0 THEN <<>> ELSE Replay(v)
  <2>1. last.kind = "buildend"
    BY <1>3 DEF IsBuildEnd
  <2>2. QED
    BY <1>2, <1>5, <2>1, NextFields
<1>8. VerdictOK(last.code)
  BY <1>3 DEF StreamOK
<1>9. ToSet(emitted) = {emitted[i] : i \in 1..n}
  BY <1>1 DEF ToSet
<1>11. \A s : LinesOf(s) = Cardinality(LogsTo(s, n))
  BY <1>1 DEF LinesOf, LogsTo
<1> HIDE DEF n, last, v, w
<1>12. IsInjective(w.order)
  <2>1. w.order \in Seq(Steps) /\ DOMAIN w.order = 1..Len(w.order)
    BY <1>5 DEF BooksSet
  <2>2. QED
    BY <1>6, <2>1 DEF BooksOK, OrderOK, IsInjective, w
<1>13. ToSet(w.order) = {s \in Steps : Emitted(s, "queued")}
  <2>1. w.order \in Seq(Steps) /\ DOMAIN w.order = 1..Len(w.order) /\ \A k \in 1..Len(w.order) : w.order[k] \in Steps
    BY <1>5, ElementOfSeq DEF BooksSet
  <2>2. \A s \in Steps : (\E k \in 1..Len(w.order) : w.order[k] = s)
                       <=> \E i \in 1..n : emitted[i].kind = "queued" /\ emitted[i].step = s
    BY <1>6 DEF BooksOK, OrderOK, w
  <2>3. \A s : Emitted(s, "queued") <=> \E i \in 1..n : emitted[i].kind = "queued" /\ emitted[i].step = s
    BY <1>1 DEF Emitted, n
  <2>4. ToSet(w.order) = {w.order[k] : k \in 1..Len(w.order)}
    BY <2>1 DEF ToSet
  <2>5. QED
    BY <2>1, <2>2, <2>3, <2>4
<1>14. \A e \in Ends : \E i \in 1..n : /\ e = emitted[i] /\ e.kind = "ended" /\ e.step \in Steps
                                     /\ w.outcome[e.step] = Outcome(e.code)
  <2> SUFFICES ASSUME NEW e \in Ends
               PROVE  \E i \in 1..n : /\ e = emitted[i] /\ e.kind = "ended" /\ e.step \in Steps
                                    /\ w.outcome[e.step] = Outcome(e.code)
    OBVIOUS
  <2>1. PICK i \in 1..n : e = emitted[i] /\ e.kind = "ended"
    BY <1>9 DEF Ends
  <2>2. e.step \in Steps
    BY <2>1 DEF StreamOK, n
  <2>3. w.outcome[e.step] = Outcome(e.code)
    BY <1>6, <2>1 DEF BooksOK, OutcomesOK, w
  <2>4. QED
    BY <2>1, <2>2, <2>3
<1>15. \A i \in 1..n : emitted[i].kind = "ended" => emitted[i] \in Ends
  BY <1>9 DEF Ends
<1>16. ToSet(w.report) = {<<e.step, LinesOf(e.step)>> : e \in {x \in Ends : x.code \notin {0, 130}}}
  <2>1. CASE last.code = 0
    <3>1. ToSet(w.report) = {}
      BY <1>7, <2>1 DEF ToSet
    <3>2. ASSUME NEW e \in Ends, e.code \notin {0, 130} PROVE FALSE
      <4>1. PICK i \in 1..n : e = emitted[i] /\ e.kind = "ended" /\ e.step \in Steps
        BY <1>14
      <4>2. PICK j \in 1..n : Event("ended", e.step, 0) = emitted[j]
        BY <1>8, <1>9, <2>1, <4>1 DEF VerdictOK, Ended0
      <4>3. emitted[j].kind = "ended" /\ emitted[j].step = e.step /\ emitted[j].code = 0
        BY <4>2 DEF Event
      <4>4. i <= j /\ j <= i
        BY <4>1, <4>3 DEF StreamOK, n
      <4>5. i = j
        BY <1>5, <4>4
      <4>6. QED
        BY <3>2, <4>1, <4>3, <4>5
    <3>3. {x \in Ends : x.code \notin {0, 130}} = {}
      BY <3>2
    <3>4. QED
      BY <3>1, <3>3
  <2>2. CASE last.code # 0
    <3> DEFINE q == v.failed
    <3>1. /\ q \in Seq(Steps) /\ DOMAIN q = 1..Len(q) /\ \A k \in 1..Len(q) : q[k] \in Steps
      BY <1>5, ElementOfSeq DEF BooksSet
    <3>2. w.report = [k \in 1..Len(q) |-> <<q[k], v.buffer[q[k]]>>]
      BY <1>7, <2>2, <3>1 DEF Replay
    <3>3. ToSet(w.report) = {<<q[k], v.buffer[q[k]]>> : k \in 1..Len(q)}
      BY <3>2 DEF ToSet
    <3>4. \A s \in Steps : v.buffer[s] = LinesOf(s)
      BY <1>6, <1>7, <1>11 DEF BooksOK, BufferOK, w
    <3>5. ToSet(w.report) = {<<q[k], LinesOf(q[k])>> : k \in 1..Len(q)}
      BY <3>1, <3>3, <3>4
    <3>6. \A s \in Steps : (\E k \in 1..Len(q) : q[k] = s)
                         <=> \E i \in 1..n : emitted[i].kind = "ended" /\ emitted[i].step = s /\ emitted[i].code \notin {0, 130}
      BY <1>6, <1>7 DEF BooksOK, FailedOK, w
    <3> HIDE DEF q
    <3>7. \A k \in 1..Len(q) : \E e \in Ends : e.code \notin {0, 130} /\ e.step = q[k]
      BY <1>15, <3>1, <3>6
    <3>8. \A e \in Ends : e.code \notin {0, 130} => \E k \in 1..Len(q) : q[k] = e.step
      <4> SUFFICES ASSUME NEW e \in Ends, e.code \notin {0, 130} PROVE \E k \in 1..Len(q) : q[k] = e.step
        OBVIOUS
      <4>1. PICK i \in 1..n : e = emitted[i] /\ e.kind = "ended" /\ e.step \in Steps
        BY <1>14
      <4>2. QED
        BY <3>6, <4>1
    <3>9. \A x : x \in ToSet(w.report) <=> \E e \in Ends : e.code \notin {0, 130} /\ x = <<e.step, LinesOf(e.step)>>
      <4>1. ASSUME NEW k \in 1..Len(q)
            PROVE  \E e \in Ends : e.code \notin {0, 130} /\ <<q[k], LinesOf(q[k])>> = <<e.step, LinesOf(e.step)>>
        BY <3>7
      <4>2. ASSUME NEW e \in Ends, e.code \notin {0, 130}
            PROVE  \E k \in 1..Len(q) : <<q[k], LinesOf(q[k])>> = <<e.step, LinesOf(e.step)>>
        BY <3>8, <4>2
      <4>3. QED
        BY <3>5, <4>1, <4>2
    <3>10. QED
      BY <3>9
  <2>3. QED
    BY <2>1, <2>2
<1>17. /\ w.banner = "succeeded" => \A s \in Steps : Ended0(s)
       /\ (\A s \in Steps : Ended0(s)) => w.banner = "succeeded" \/ emitted[Len(emitted)].code \in {124, 130}
  BY <1>7, <1>8 DEF VerdictOK, last, n
<1>18. QED
  BY <1>4, <1>12, <1>13, <1>14, <1>16, <1>17

LEMMA InitStream == Init => StreamOK
BY DEF Init, StreamOK

\* For every pipeline, ring and channel: unless the renderer lagged, its summary
\* lists every step that ran once and marked as it ended, replays the logs of
\* exactly the failed ones, and says "succeeded" only when all ended with 0.
THEOREM SummaryTrue == Spec => []SummaryIsTrue
<1>1. Init => IInv /\ StreamOK
  BY InitIInv, InitStream
<1>2. IInv /\ StreamOK /\ [Next]_vars => (IInv /\ StreamOK)'
  BY NextIInv, StreamKept
<1>3. IInv /\ StreamOK => SummaryIsTrue
  BY SummaryFollows
<1>4. QED
  BY <1>1, <1>2, <1>3, PTL DEF Spec

=============================================================================
