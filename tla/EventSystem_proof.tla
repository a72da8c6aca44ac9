-------------------------- MODULE EventSystem_proof --------------------------
(***************************************************************************)
(* Subscribers are called once and deferred events are delivered in order,    *)
(* for any events, callbacks and limits and however deep callbacks nest.      *)
(***************************************************************************)
EXTENDS EventSystem, SequenceTheorems, TLAPS

AnyFrame == PublishFrame \cup ProcessFrame

-----------------------------------------------------------------------------
\* The inductive invariant.

Typed ==
    /\ subscribers \in [Event -> Seq(Callback)]
    /\ \A e \in Event : Len(subscribers[e]) <= MaxSubscribers
    /\ queue \in Seq(Event) /\ Len(queue) <= MaxQueued
    /\ stack \in Seq(AnyFrame) /\ Len(stack) <= MaxDepth
    /\ inCode \in BOOLEAN

\* A callback is in an array once.
Distinct(s) == \A i, j \in DOMAIN s : s[i] = s[j] => i = j

\* The entries a loop at this slot has yet to come to.
Ahead(at, s) == {s[j] : j \in at..Len(s)}

\* A loop f over the array s.
FrameSound(f, s) ==
    /\ f.due \subseteq Ahead(f.at, s)
    /\ Ahead(f.at, s) \cap f.called = {}
    /\ f.called \subseteq Elements(s)

FramesSound ==
    \A k \in DOMAIN stack :
        ~IsProcess(stack[k]) => FrameSound(stack[k], subscribers[stack[k].event])

\* At most one process is under way; it leaves room for the publish it starts, has not
\* passed the end of the queue, and waits whenever code runs.
ProcessSound ==
    /\ ~inCode => stack # <<>>
    /\ \A k, l \in DOMAIN stack : IsProcess(stack[k]) /\ IsProcess(stack[l]) => k = l
    /\ \A k \in DOMAIN stack :
          IsProcess(stack[k]) => /\ k < MaxDepth
                                 /\ stack[k].at <= Len(queue) + 1
                                 /\ k = Len(stack) => ~inCode

IInv ==
    /\ Typed
    /\ \A e \in Event : Distinct(subscribers[e])
    /\ FramesSound
    /\ ProcessSound

-----------------------------------------------------------------------------
\* Frames and arrays.

LEMMA FrameKinds ==
    /\ \A f \in PublishFrame : ~IsProcess(f) /\ f.event \in Event /\ f.at \in 1..(MaxSubscribers + 1)
                               /\ f.due \subseteq Callback /\ f.called \subseteq Callback
    /\ \A f \in AnyFrame : IsProcess(f) => f \in ProcessFrame /\ f.at \in 1..(MaxQueued + 1)
    /\ \A f \in AnyFrame : ~IsProcess(f) => f \in PublishFrame
<1>1. ASSUME NEW f \in PublishFrame PROVE ~IsProcess(f)
  <2>1. "event" \in DOMAIN f
    BY DEF PublishFrame
  <2>2. ASSUME f \in ProcessFrame PROVE FALSE
    <3>1. DOMAIN f = {"at"}
      BY <2>2 DEF ProcessFrame
    <3>. QED BY <2>1, <3>1
  <2>. QED BY <2>2 DEF IsProcess
<1>2. \A f \in PublishFrame : f.event \in Event /\ f.at \in 1..(MaxSubscribers + 1)
                              /\ f.due \subseteq Callback /\ f.called \subseteq Callback
  BY DEF PublishFrame
<1>3. \A f \in ProcessFrame : f.at \in 1..(MaxQueued + 1)
  BY DEF ProcessFrame
<1>. QED BY <1>1, <1>2, <1>3 DEF AnyFrame, IsProcess

\* Subscribing puts the callback behind what a loop has passed.
LEMMA FrameAfterSubscribe ==
    ASSUME NEW s \in Seq(Callback), NEW c \in Callback, c \notin Elements(s),
           NEW f \in PublishFrame, FrameSound(f, s)
    PROVE  FrameSound(f, Append(s, c))
<1>. DEFINE t == Append(s, c)
<1>1. /\ Len(s) \in Nat /\ t \in Seq(Callback) /\ Len(t) = Len(s) + 1
      /\ \A i \in 1..Len(s) : t[i] = s[i]
      /\ t[Len(s) + 1] = c /\ DOMAIN s = 1..Len(s) /\ DOMAIN t = 1..(Len(s) + 1)
  OBVIOUS
<1>. HIDE DEF t
<1>2. f.at \in Nat \ {0}
  BY FrameKinds
<1>3. Ahead(f.at, s) \subseteq Ahead(f.at, t) /\ Ahead(f.at, t) \subseteq Ahead(f.at, s) \cup {c}
  BY <1>1, <1>2 DEF Ahead
<1>4. Elements(s) \subseteq Elements(t)
  BY <1>1 DEF Elements
<1>5. FrameSound(f, t)
  BY <1>3, <1>4 DEF FrameSound
<1>. QED BY <1>5 DEF t

LEMMA DistinctAfterSubscribe ==
    ASSUME NEW s \in Seq(Callback), NEW c \in Callback, c \notin Elements(s), Distinct(s)
    PROVE  Distinct(Append(s, c))
<1>. DEFINE t == Append(s, c)
<1>1. /\ Len(s) \in Nat /\ \A i \in 1..Len(s) : t[i] = s[i]
      /\ t[Len(s) + 1] = c /\ DOMAIN s = 1..Len(s) /\ DOMAIN t = 1..(Len(s) + 1)
  OBVIOUS
<1>. HIDE DEF t
<1>2. Distinct(t)
  BY <1>1 DEF Distinct, Elements
<1>. QED BY <1>2 DEF t

\* The array after its entry i was removed.
LEMMA RemovedIs ==
    ASSUME NEW s \in Seq(Callback), NEW i \in DOMAIN s
    PROVE  /\ Removed(s, i) \in Seq(Callback) /\ Len(Removed(s, i)) = Len(s) - 1
           /\ \A j \in 1..(Len(s) - 1) : Removed(s, i)[j] = IF j = i THEN s[Len(s)] ELSE s[j]
<1>. DEFINE t == [s EXCEPT ![i] = s[Len(s)]]
<1>1. Len(s) \in Nat /\ DOMAIN s = 1..Len(s) /\ i \in 1..Len(s) /\ Len(s) > 0
  OBVIOUS
<1>2. s[Len(s)] \in Callback
  BY <1>1
<1>3. t \in Seq(Callback) /\ Len(t) = Len(s)
      /\ \A j \in 1..Len(s) : t[j] = IF j = i THEN s[Len(s)] ELSE s[j]
  BY <1>1, <1>2, ExceptSeq
<1>. HIDE DEF t
<1>4. /\ Len(SubSeq(t, 1, Len(s) - 1)) = Len(s) - 1 /\ SubSeq(t, 1, Len(s) - 1) \in Seq(Callback)
      /\ \A j \in 1..(Len(s) - 1) : SubSeq(t, 1, Len(s) - 1)[j] = t[j]
  <2>. DEFINE n == Len(s) - 1
  <2>1. n \in Nat /\ n <= Len(t) /\ 1 \in Int /\ \A k \in 1..n : t[k] \in Callback
    BY <1>1, <1>3
  <2>. HIDE DEF n
  <2>2. /\ Len(SubSeq(t, 1, n)) = IF 1 <= n THEN n - 1 + 1 ELSE 0
        /\ \A k \in 1..(n - 1 + 1) : SubSeq(t, 1, n)[k] = t[1 + k - 1]
        /\ SubSeq(t, 1, n) \in Seq(Callback)
    BY <2>1, SubSeqProperties
  <2>3. (IF 1 <= n THEN n - 1 + 1 ELSE 0) = n /\ n - 1 + 1 = n
    BY <2>1
  <2>4. \A k \in 1..n : 1 + k - 1 = k
    BY <2>1
  <2>5. Len(SubSeq(t, 1, n)) = n
    BY <2>2, <2>3, Zenon
  <2>6. \A k \in 1..n : SubSeq(t, 1, n)[k] = t[k]
    BY <2>2, <2>3, <2>4, Zenon
  <2>. QED BY <2>2, <2>5, <2>6 DEF n
<1>5. Removed(s, i) = SubSeq(t, 1, Len(s) - 1)
  BY <1>3 DEF Removed, t
<1>. QED BY <1>1, <1>3, <1>4, <1>5

LEMMA DistinctAfterRemoval ==
    ASSUME NEW s \in Seq(Callback), NEW i \in DOMAIN s, Distinct(s)
    PROVE  Distinct(Removed(s, i)) /\ Elements(Removed(s, i)) = Elements(s) \ {s[i]}
<1>. DEFINE t == Removed(s, i)
<1>1. /\ Len(s) \in Nat /\ DOMAIN s = 1..Len(s) /\ i \in 1..Len(s)
      /\ DOMAIN t = 1..(Len(s) - 1)
      /\ \A j \in 1..(Len(s) - 1) : t[j] = IF j = i THEN s[Len(s)] ELSE s[j]
  BY RemovedIs
<1>. HIDE DEF t
<1>2. Distinct(t)
  BY <1>1 DEF Distinct
<1>3. ASSUME NEW j \in DOMAIN s, s[j] # s[i] PROVE s[j] \in Elements(t)
  <2>1. CASE j = Len(s)
    <3>1. i \in DOMAIN t /\ t[i] = s[j]
      BY <1>1, <1>3, <2>1
    <3>. QED BY <3>1 DEF Elements
  <2>2. CASE j # Len(s)
    <3>1. j \in DOMAIN t /\ t[j] = s[j]
      BY <1>1, <1>3, <2>2
    <3>. QED BY <3>1 DEF Elements
  <2>. QED BY <2>1, <2>2
<1>4. ASSUME NEW j \in DOMAIN t PROVE t[j] \in Elements(s) \ {s[i]}
  BY <1>1 DEF Elements, Distinct
<1>5. Elements(t) = Elements(s) \ {s[i]}
  BY <1>3, <1>4 DEF Elements
<1>. QED BY <1>2, <1>5 DEF t

\* An unsubscribe leaves every loop over the array sound.
LEMMA FrameAfterUnsubscribe ==
    ASSUME NEW s \in Seq(Callback), NEW i \in DOMAIN s, Distinct(s),
           NEW f \in PublishFrame, FrameSound(f, s), NEW g,
           g.at = f.at, g.due = f.due \ Unseen(f, s, i), g.called = f.called \ {s[i]}
    PROVE  FrameSound(g, Removed(s, i))
<1>. DEFINE t == Removed(s, i)
<1>1. /\ Len(s) \in Nat /\ DOMAIN s = 1..Len(s) /\ i \in 1..Len(s)
      /\ Len(t) = Len(s) - 1 /\ DOMAIN t = 1..(Len(s) - 1)
      /\ \A j \in 1..(Len(s) - 1) : t[j] = IF j = i THEN s[Len(s)] ELSE s[j]
      /\ Elements(t) = Elements(s) \ {s[i]}
  BY RemovedIs, DistinctAfterRemoval
<1>. HIDE DEF t
<1>2. f.at \in Nat \ {0}
  BY FrameKinds
<1>3. Ahead(f.at, t) \subseteq Ahead(f.at, s)
  <2>. SUFFICES ASSUME NEW j \in f.at..Len(t) PROVE t[j] \in Ahead(f.at, s)
    BY DEF Ahead
  <2>1. j \in 1..(Len(s) - 1) /\ j \in f.at..Len(s) /\ Len(s) \in f.at..Len(s)
    BY <1>1, <1>2
  <2>. QED BY <1>1, <2>1 DEF Ahead
<1>4. g.due \subseteq Ahead(f.at, t)
  <2>. SUFFICES ASSUME NEW c \in g.due PROVE c \in Ahead(f.at, t)
    OBVIOUS
  <2>1. PICK j \in f.at..Len(s) : c = s[j]
    BY DEF FrameSound, Ahead
  <2>2. c # s[i] /\ (i < f.at /\ f.at <= Len(s) => c # s[Len(s)])
    BY DEF Unseen
  <2>3. CASE j = Len(s)
    <3>0. f.at <= Len(s)
      BY <1>1, <1>2, <2>1
    <3>1. ~(i < f.at)
      BY <2>1, <2>2, <2>3, <3>0
    <3>2. i \in f.at..Len(t) /\ t[i] = c
      BY <1>1, <1>2, <2>1, <2>2, <2>3, <3>1
    <3>. QED BY <3>2 DEF Ahead
  <2>4. CASE j # Len(s)
    <3>1. j # i
      BY <2>1, <2>2
    <3>2. j \in 1..(Len(s) - 1) /\ j \in f.at..Len(t)
      <4>1. j \in Int /\ f.at \in Int /\ Len(s) \in Int /\ Len(t) = Len(s) - 1 /\ f.at >= 1
        BY <1>1, <1>2
      <4>. QED BY <2>4, <4>1
    <3>3. t[j] = c
      BY <1>1, <2>1, <3>1, <3>2
    <3>. QED BY <3>2, <3>3 DEF Ahead
  <2>. QED BY <2>3, <2>4
<1>5. FrameSound(g, t)
  BY <1>1, <1>3, <1>4 DEF FrameSound
<1>. QED BY <1>5 DEF t

\* A loop that begins has everyone before it.
LEMMA FrameNew ==
    ASSUME Typed, NEW e \in Event
    PROVE  Frame(e) \in PublishFrame /\ Frame(e).event = e /\ FrameSound(Frame(e), subscribers[e])
<1>. DEFINE s == subscribers[e]
<1>1. s \in Seq(Callback) /\ Len(s) \in Nat /\ DOMAIN s = 1..Len(s)
  BY DEF Typed
<1>2. Elements(s) \subseteq Callback /\ Elements(s) = Ahead(1, s)
  BY <1>1 DEF Elements, Ahead
<1>3. 1 \in 1..(MaxSubscribers + 1)
  BY LimitAssumption
<1>4. Frame(e) \in PublishFrame
  BY <1>2, <1>3 DEF Frame, PublishFrame
<1>5. FrameSound(Frame(e), s)
  BY <1>2 DEF FrameSound, Frame
<1>. QED BY <1>4, <1>5 DEF Frame

\* The turn of a loop moves the callback it calls from those due to those called.
LEMMA FrameAfterCall ==
    ASSUME NEW s \in Seq(Callback), Distinct(s), Len(s) <= MaxSubscribers,
           NEW f \in PublishFrame, FrameSound(f, s), f.at <= Len(s)
    PROVE  LET g == [f EXCEPT !.at = @ + 1, !.due = @ \ {s[f.at]}, !.called = @ \cup {s[f.at]}]
           IN g \in PublishFrame /\ g.event = f.event /\ FrameSound(g, s)
<1>. DEFINE g == [f EXCEPT !.at = @ + 1, !.due = @ \ {s[f.at]}, !.called = @ \cup {s[f.at]}]
<1>1. Len(s) \in Nat /\ DOMAIN s = 1..Len(s) /\ f.at \in 1..Len(s) /\ MaxSubscribers \in Nat
  BY FrameKinds, LimitAssumption
<1>2. s[f.at] \in Callback /\ s[f.at] \in Elements(s)
  BY <1>1 DEF Elements
<1>3. f.at + 1 \in 1..(MaxSubscribers + 1)
  BY <1>1
<1>4. /\ g \in PublishFrame /\ g.event = f.event /\ g.at = f.at + 1
      /\ g.due = f.due \ {s[f.at]} /\ g.called = f.called \cup {s[f.at]}
  BY <1>2, <1>3 DEF PublishFrame
<1>. HIDE DEF g
<1>5. Ahead(f.at + 1, s) = Ahead(f.at, s) \ {s[f.at]}
  <2>1. ASSUME NEW j \in (f.at + 1)..Len(s) PROVE s[j] \in Ahead(f.at, s) /\ s[j] # s[f.at]
    <3>1. j \in f.at..Len(s) /\ j \in DOMAIN s /\ f.at \in DOMAIN s /\ j # f.at
      BY <1>1
    <3>. QED BY <3>1 DEF Ahead, Distinct
  <2>2. ASSUME NEW j \in f.at..Len(s), s[j] # s[f.at] PROVE s[j] \in Ahead(f.at + 1, s)
    <3>1. j # f.at
      BY <2>2
    <3>2. j \in (f.at + 1)..Len(s)
      BY <1>1, <3>1
    <3>. QED BY <3>2 DEF Ahead
  <2>. QED BY <2>1, <2>2 DEF Ahead
<1>6. FrameSound(g, s)
  BY <1>2, <1>4, <1>5 DEF FrameSound
<1>. QED BY <1>4, <1>6 DEF g

-----------------------------------------------------------------------------
\* The stack and what lies below its top.

LEMMA AppendIs ==
    ASSUME NEW S, NEW s \in Seq(S), NEW f \in S
    PROVE  /\ Append(s, f) \in Seq(S) /\ Len(Append(s, f)) = Len(s) + 1
           /\ DOMAIN Append(s, f) = 1..(Len(s) + 1) /\ DOMAIN s = 1..Len(s) /\ Len(s) \in Nat
           /\ \A k \in 1..Len(s) : Append(s, f)[k] = s[k]
           /\ Append(s, f)[Len(s) + 1] = f
OBVIOUS

LEMMA BelowIs ==
    ASSUME Typed, stack # <<>>
    PROVE  /\ Len(stack) \in Nat /\ Len(stack) > 0 /\ DOMAIN stack = 1..Len(stack)
           /\ Top \in AnyFrame /\ Len(stack) \in DOMAIN stack /\ Top = stack[Len(stack)]
           /\ Below \in Seq(AnyFrame) /\ Len(Below) = Len(stack) - 1
           /\ DOMAIN Below = 1..(Len(stack) - 1)
           /\ \A k \in 1..(Len(stack) - 1) : Below[k] = stack[k]
<1>. DEFINE n == Len(stack) - 1
<1>1. /\ stack \in Seq(AnyFrame) /\ Len(stack) \in Nat /\ Len(stack) > 0
      /\ DOMAIN stack = 1..Len(stack)
  BY DEF Typed
<1>2. n \in Nat /\ n <= Len(stack) /\ 1 \in Int /\ \A k \in 1..n : stack[k] \in AnyFrame
  <2>1. n \in Nat /\ n <= Len(stack) /\ \A k \in 1..n : k \in 1..Len(stack)
    BY <1>1
  <2>2. \A k \in DOMAIN stack : stack[k] \in AnyFrame
    BY <1>1
  <2>. QED BY <1>1, <2>1, <2>2
<1>3. Top = stack[Len(stack)] /\ Top \in AnyFrame
  BY <1>1 DEF Top
<1>4. (IF 1 <= n THEN n - 1 + 1 ELSE 0) = n /\ n - 1 + 1 = n /\ \A k \in 1..n : 1 + k - 1 = k
  <2>1. n \in Nat
    BY <1>2
  <2>. HIDE DEF n
  <2>. QED BY <2>1
<1>5. Below = SubSeq(stack, 1, n)
  BY DEF Below
<1>. HIDE DEF n
<1>6. /\ SubSeq(stack, 1, n) \in Seq(AnyFrame)
      /\ Len(SubSeq(stack, 1, n)) = IF 1 <= n THEN n - 1 + 1 ELSE 0
      /\ \A k \in 1..(n - 1 + 1) : SubSeq(stack, 1, n)[k] = stack[1 + k - 1]
  BY <1>2, SubSeqProperties
<1>7. Len(Below) = n
  BY <1>4, <1>5, <1>6, Zenon
<1>8. \A k \in 1..n : Below[k] = stack[k]
  BY <1>4, <1>5, <1>6, Zenon
<1>9. Below \in Seq(AnyFrame)
  BY <1>5, <1>6
<1>10. DOMAIN Below = 1..n
  BY <1>7, <1>9
<1>. QED BY <1>1, <1>3, <1>7, <1>8, <1>9, <1>10 DEF n

LEMMA WithTopIs ==
    ASSUME Typed, stack # <<>>, NEW f \in AnyFrame
    PROVE  /\ WithTop(f) \in Seq(AnyFrame) /\ Len(WithTop(f)) = Len(stack)
           /\ DOMAIN WithTop(f) = 1..Len(stack)
           /\ \A k \in 1..(Len(stack) - 1) : WithTop(f)[k] = stack[k]
           /\ WithTop(f)[Len(stack)] = f
<1>1. /\ Len(stack) \in Nat /\ Below \in Seq(AnyFrame) /\ Len(Below) = Len(stack) - 1
      /\ \A k \in 1..(Len(stack) - 1) : Below[k] = stack[k]
  BY BelowIs
<1>2. /\ Append(Below, f) \in Seq(AnyFrame) /\ Len(Append(Below, f)) = Len(Below) + 1
      /\ DOMAIN Append(Below, f) = 1..(Len(Below) + 1)
      /\ \A k \in 1..Len(Below) : Append(Below, f)[k] = Below[k]
      /\ Append(Below, f)[Len(Below) + 1] = f
  BY <1>1, AppendIs
<1>. QED BY <1>1, <1>2 DEF WithTop

-----------------------------------------------------------------------------
\* Each step preserves the invariant.

LEMMA SubscribeStep ==
    ASSUME IInv, NEW e \in Event, NEW c \in Callback, Subscribe(e, c) PROVE IInv'
<1>1. /\ c \notin Elements(subscribers[e]) /\ Len(subscribers[e]) < MaxSubscribers
      /\ subscribers' = [subscribers EXCEPT ![e] = Append(@, c)]
      /\ UNCHANGED <<queue, stack, inCode>>
  BY DEF Subscribe
<1>2. /\ subscribers \in [Event -> Seq(Callback)] /\ subscribers[e] \in Seq(Callback)
      /\ MaxSubscribers \in Nat
  BY LimitAssumption DEF IInv, Typed
<1>3. /\ Append(subscribers[e], c) \in Seq(Callback)
      /\ Len(Append(subscribers[e], c)) = Len(subscribers[e]) + 1 /\ Len(subscribers[e]) \in Nat
  BY <1>2
<1>4. \A d \in Event : subscribers'[d] = IF d = e THEN Append(subscribers[e], c) ELSE subscribers[d]
  BY <1>1, <1>2
<1>5. Typed'
  <2>1. subscribers' \in [Event -> Seq(Callback)]
    BY <1>1, <1>2, <1>3
  <2>2. \A d \in Event : Len(subscribers'[d]) <= MaxSubscribers
    BY <1>1, <1>2, <1>3, <1>4 DEF IInv, Typed
  <2>. QED BY <1>1, <2>1, <2>2 DEF IInv, Typed
<1>6. \A d \in Event : Distinct(subscribers'[d])
  BY <1>1, <1>2, <1>4, DistinctAfterSubscribe DEF IInv
<1>7. FramesSound'
  <2>. SUFFICES ASSUME NEW k \in DOMAIN stack, ~IsProcess(stack[k])
                PROVE  FrameSound(stack[k], subscribers'[stack[k].event])
    BY <1>1 DEF FramesSound
  <2>1. stack[k] \in PublishFrame /\ stack[k].event \in Event
    BY FrameKinds DEF IInv, Typed
  <2>2. FrameSound(stack[k], subscribers[stack[k].event])
    BY DEF IInv, FramesSound
  <2>. QED BY <1>1, <1>2, <1>4, <2>1, <2>2, FrameAfterSubscribe
<1>8. ProcessSound'
  BY <1>1 DEF IInv, ProcessSound
<1>. QED BY <1>5, <1>6, <1>7, <1>8 DEF IInv

\* An unsubscribe changes no frame's event and no frame's place.
LEMMA UnsubscribeFrames ==
    ASSUME Typed, NEW e \in Event, NEW c \in Callback, Unsubscribe(e, c)
    PROVE  /\ stack' \in Seq(AnyFrame) /\ Len(stack') = Len(stack) /\ DOMAIN stack' = DOMAIN stack
           /\ \A k \in DOMAIN stack :
                 /\ IsProcess(stack'[k]) <=> IsProcess(stack[k])
                 /\ IsProcess(stack[k]) => stack'[k] = stack[k]
                 /\ ~IsProcess(stack[k]) =>
                       /\ stack'[k].event = stack[k].event /\ stack'[k].at = stack[k].at
                       /\ IF stack[k].event = e
                          THEN /\ stack'[k].due = stack[k].due \
                                     Unseen(stack[k], subscribers[e], SlotOf(subscribers[e], c))
                               /\ stack'[k].called = stack[k].called \
                                     {subscribers[e][SlotOf(subscribers[e], c)]}
                          ELSE stack'[k] = stack[k]
<1>. DEFINE s == subscribers[e]
            i == SlotOf(s, c)
            New(f) == [f EXCEPT !.due = @ \ Unseen(f, s, i), !.called = @ \ {s[i]}]
            After(f) == IF IsProcess(f) \/ f.event # e THEN f ELSE New(f)
<1>1. stack' = [k \in DOMAIN stack |-> After(stack[k])]
  BY DEF Unsubscribe
<1>2. stack \in Seq(AnyFrame) /\ Len(stack) \in Nat /\ DOMAIN stack = 1..Len(stack)
  BY DEF Typed
<1>3. ASSUME NEW f \in PublishFrame
      PROVE  /\ New(f) \in PublishFrame /\ New(f).event = f.event /\ New(f).at = f.at
             /\ New(f).due = f.due \ Unseen(f, s, i) /\ New(f).called = f.called \ {s[i]}
  BY DEF PublishFrame
<1>4. ASSUME NEW k \in DOMAIN stack
      PROVE  /\ After(stack[k]) \in AnyFrame
             /\ IsProcess(After(stack[k])) <=> IsProcess(stack[k])
             /\ IsProcess(stack[k]) => After(stack[k]) = stack[k]
             /\ ~IsProcess(stack[k]) =>
                   /\ After(stack[k]).event = stack[k].event /\ After(stack[k]).at = stack[k].at
                   /\ IF stack[k].event = e
                      THEN /\ After(stack[k]).due = stack[k].due \ Unseen(stack[k], s, i)
                           /\ After(stack[k]).called = stack[k].called \ {s[i]}
                      ELSE After(stack[k]) = stack[k]
  <2>1. stack[k] \in AnyFrame
    BY <1>2
  <2>2. CASE IsProcess(stack[k]) \/ stack[k].event # e
    BY <2>1, <2>2
  <2>3. CASE ~(IsProcess(stack[k]) \/ stack[k].event # e)
    <3>1. stack[k] \in PublishFrame /\ After(stack[k]) = New(stack[k])
      BY <2>1, <2>3, FrameKinds
    <3>. HIDE DEF New, After
    <3>2. New(stack[k]) \in PublishFrame /\ ~IsProcess(New(stack[k]))
      BY <1>3, <3>1, FrameKinds
    <3>. QED BY <1>3, <2>3, <3>1, <3>2 DEF AnyFrame
  <2>. QED BY <2>2, <2>3
<1>. HIDE DEF New, After
<1>5. DOMAIN stack' = DOMAIN stack /\ \A k \in DOMAIN stack : stack'[k] = After(stack[k])
  BY <1>1
<1>6. stack' \in Seq(AnyFrame) /\ Len(stack') = Len(stack)
  <2>1. stack' \in [1..Len(stack) -> AnyFrame]
    BY <1>1, <1>2, <1>4
  <2>. QED BY <1>2, <2>1
<1>. QED BY <1>4, <1>5, <1>6

LEMMA UnsubscribeStep ==
    ASSUME IInv, NEW e \in Event, NEW c \in Callback, Unsubscribe(e, c) PROVE IInv'
<1>. DEFINE s == subscribers[e]
            i == SlotOf(s, c)
<1>1. /\ c \in Elements(s)
      /\ subscribers' = [subscribers EXCEPT ![e] = Removed(s, i)]
      /\ UNCHANGED <<queue, inCode>>
  BY DEF Unsubscribe
<1>2. Typed /\ subscribers \in [Event -> Seq(Callback)] /\ s \in Seq(Callback) /\ Distinct(s)
  BY DEF IInv, Typed
<1>3. i \in DOMAIN s
  BY <1>1 DEF Elements, SlotOf
<1>4. Removed(s, i) \in Seq(Callback) /\ Len(Removed(s, i)) = Len(s) - 1 /\ Distinct(Removed(s, i))
  BY <1>2, <1>3, RemovedIs, DistinctAfterRemoval
<1>5. \A d \in Event : subscribers'[d] = IF d = e THEN Removed(s, i) ELSE subscribers[d]
  BY <1>1, <1>2
<1>. HIDE DEF i
<1>6. Typed'
  <2>1. subscribers' \in [Event -> Seq(Callback)]
    BY <1>1, <1>2, <1>4
  <2>2. \A d \in Event : Len(subscribers'[d]) <= MaxSubscribers
    <3>1. Len(s) \in Nat /\ Len(s) <= MaxSubscribers /\ MaxSubscribers \in Nat
      BY <1>2, LimitAssumption DEF Typed
    <3>2. Len(Removed(s, i)) <= MaxSubscribers
      BY <1>4, <3>1
    <3>. QED BY <1>2, <1>5, <3>2 DEF Typed
  <2>3. stack' \in Seq(AnyFrame) /\ Len(stack') = Len(stack)
    BY <1>2, UnsubscribeFrames
  <2>. QED BY <1>1, <1>2, <2>1, <2>2, <2>3 DEF Typed
<1>7. \A d \in Event : Distinct(subscribers'[d])
  BY <1>4, <1>5 DEF IInv
<1>8. FramesSound'
  <2>. SUFFICES ASSUME NEW k \in DOMAIN stack', ~IsProcess(stack'[k])
                PROVE  FrameSound(stack'[k], subscribers'[stack'[k].event])
    BY DEF FramesSound
  <2>1. /\ k \in DOMAIN stack /\ ~IsProcess(stack[k])
        /\ stack'[k].event = stack[k].event /\ stack'[k].at = stack[k].at
    BY <1>2, UnsubscribeFrames
  <2>2. stack[k] \in PublishFrame /\ stack[k].event \in Event
    BY <1>2, <2>1, FrameKinds DEF Typed
  <2>3. FrameSound(stack[k], subscribers[stack[k].event])
    BY <2>1 DEF IInv, FramesSound
  <2>4. CASE stack[k].event = e
    <3>1. /\ stack'[k].due = stack[k].due \ Unseen(stack[k], s, i)
          /\ stack'[k].called = stack[k].called \ {s[i]}
      BY <1>2, <2>1, <2>4, UnsubscribeFrames DEF i
    <3>2. FrameSound(stack'[k], Removed(s, i))
      BY <1>2, <1>3, <2>1, <2>2, <2>3, <2>4, <3>1, FrameAfterUnsubscribe
    <3>. QED BY <1>5, <2>1, <2>2, <2>4, <3>2
  <2>5. CASE stack[k].event # e
    <3>1. stack'[k] = stack[k]
      BY <1>2, <2>1, <2>5, UnsubscribeFrames
    <3>. QED BY <1>5, <2>2, <2>3, <2>5, <3>1
  <2>. QED BY <2>4, <2>5
<1>9. ProcessSound'
  <2>1. stack' # <<>> <=> stack # <<>>
    BY <1>2, UnsubscribeFrames DEF Typed
  <2>2. /\ Len(stack') = Len(stack) /\ DOMAIN stack' = DOMAIN stack
        /\ \A k \in DOMAIN stack : /\ IsProcess(stack'[k]) <=> IsProcess(stack[k])
                                   /\ IsProcess(stack[k]) => stack'[k] = stack[k]
    BY <1>2, UnsubscribeFrames
  <2>. QED BY <1>1, <2>1, <2>2 DEF IInv, ProcessSound
<1>. QED BY <1>6, <1>7, <1>8, <1>9 DEF IInv

LEMMA PublishStep ==
    ASSUME IInv, NEW e \in Event, Publish(e) PROVE IInv'
<1>1. /\ inCode /\ Len(stack) < MaxDepth /\ stack' = Append(stack, Frame(e)) /\ inCode' = FALSE
      /\ UNCHANGED <<subscribers, queue>>
  BY DEF Publish
<1>2. /\ Typed /\ Frame(e) \in PublishFrame /\ Frame(e) \in AnyFrame /\ Frame(e).event = e
      /\ FrameSound(Frame(e), subscribers[e])
  BY FrameNew DEF IInv, AnyFrame
<1>3. /\ stack' \in Seq(AnyFrame) /\ Len(stack') = Len(stack) + 1 /\ Len(stack) \in Nat
      /\ DOMAIN stack' = 1..(Len(stack) + 1) /\ DOMAIN stack = 1..Len(stack)
      /\ \A k \in 1..Len(stack) : stack'[k] = stack[k]
      /\ stack'[Len(stack) + 1] = Frame(e)
  BY <1>1, <1>2, AppendIs DEF Typed
<1>4. \A k \in DOMAIN stack' : k = Len(stack) + 1 \/ (k \in DOMAIN stack /\ stack'[k] = stack[k] /\ k # Len(stack'))
  BY <1>3
<1>5. ~IsProcess(Frame(e))
  BY <1>2, FrameKinds
<1>6. Typed'
  <2>1. Len(stack') <= MaxDepth
    BY <1>1, <1>3, LimitAssumption
  <2>. QED BY <1>1, <1>2, <1>3, <2>1 DEF Typed
<1>7. \A d \in Event : Distinct(subscribers'[d])
  BY <1>1 DEF IInv
<1>8. FramesSound'
  BY <1>1, <1>2, <1>3, <1>4 DEF IInv, FramesSound
<1>9. ProcessSound'
  <2>1. stack' # <<>>
    BY <1>3
  <2>2. \A k \in DOMAIN stack' : IsProcess(stack'[k]) =>
            k \in DOMAIN stack /\ IsProcess(stack[k]) /\ stack'[k] = stack[k] /\ k # Len(stack')
    BY <1>3, <1>4, <1>5
  <2>. QED BY <1>1, <2>1, <2>2 DEF IInv, ProcessSound
<1>. QED BY <1>6, <1>7, <1>8, <1>9 DEF IInv

\* What the loop on top of the stack is, while it runs.
LEMMA RunningFrame ==
    ASSUME IInv, ~inCode
    PROVE  /\ Typed /\ stack # <<>> /\ Len(stack) \in DOMAIN stack /\ Len(stack) \in Nat
           /\ ~IsProcess(Top) =>
                 /\ Top \in PublishFrame /\ Top.event \in Event
                 /\ FrameSound(Top, subscribers[Top.event])
                 /\ subscribers[Top.event] \in Seq(Callback) /\ Distinct(subscribers[Top.event])
                 /\ Len(subscribers[Top.event]) <= MaxSubscribers
           /\ IsProcess(Top) =>
                 /\ Top \in ProcessFrame /\ Top.at \in 1..(Len(queue) + 1)
                 /\ Len(stack) < MaxDepth
                 /\ \A k \in DOMAIN stack : IsProcess(stack[k]) => k = Len(stack)
<1>1. Typed /\ stack # <<>>
  BY DEF IInv, ProcessSound
<1>2. Len(stack) \in DOMAIN stack /\ Len(stack) \in Nat /\ Top = stack[Len(stack)] /\ Top \in AnyFrame
  BY <1>1, BelowIs
<1>3. ASSUME ~IsProcess(Top)
      PROVE  /\ Top \in PublishFrame /\ Top.event \in Event
             /\ FrameSound(Top, subscribers[Top.event])
             /\ subscribers[Top.event] \in Seq(Callback) /\ Distinct(subscribers[Top.event])
             /\ Len(subscribers[Top.event]) <= MaxSubscribers
  <2>1. Top \in PublishFrame /\ Top.event \in Event
    BY <1>2, <1>3, FrameKinds
  <2>2. FrameSound(Top, subscribers[Top.event])
    BY <1>2, <1>3 DEF IInv, FramesSound
  <2>. QED BY <1>1, <2>1, <2>2 DEF IInv, Typed
<1>4. ASSUME IsProcess(Top)
      PROVE  /\ Top \in ProcessFrame /\ Top.at \in 1..(Len(queue) + 1)
             /\ Len(stack) < MaxDepth
             /\ \A k \in DOMAIN stack : IsProcess(stack[k]) => k = Len(stack)
  <2>1. Top \in ProcessFrame /\ Top.at \in 1..(MaxQueued + 1) /\ Len(queue) \in Nat /\ MaxQueued \in Nat
    BY <1>1, <1>2, <1>4, FrameKinds, LimitAssumption DEF Typed
  <2>2. /\ Top.at <= Len(queue) + 1 /\ Len(stack) < MaxDepth
        /\ \A k \in DOMAIN stack : IsProcess(stack[k]) => k = Len(stack)
    BY <1>2, <1>4 DEF IInv, ProcessSound
  <2>. QED BY <2>1, <2>2
<1>. QED BY <1>1, <1>2, <1>3, <1>4

LEMMA PublishCallStep ==
    ASSUME IInv, PublishLoop, Top.at <= Len(subscribers[Top.event]) PROVE IInv'
<1>. DEFINE s == subscribers[Top.event]
            g == [Top EXCEPT !.at = @ + 1, !.due = @ \ {s[Top.at]}, !.called = @ \cup {s[Top.at]}]
<1>0. ~inCode /\ ~IsProcess(Top)
  BY DEF PublishLoop
<1>1. /\ Typed /\ stack # <<>> /\ Len(stack) \in Nat /\ Top \in PublishFrame /\ Top.event \in Event
      /\ FrameSound(Top, s) /\ s \in Seq(Callback) /\ Distinct(s) /\ Len(s) <= MaxSubscribers
  BY <1>0, RunningFrame
<1>2. Len(s) \in Nat /\ Top.at \in Nat
  BY <1>1, FrameKinds
<1>3. stack' = WithTop(g) /\ inCode' = TRUE /\ UNCHANGED <<subscribers, queue>>
  BY <1>2 DEF PublishLoop
<1>4. g \in PublishFrame /\ g \in AnyFrame /\ g.event = Top.event /\ FrameSound(g, s)
  BY <1>1, FrameAfterCall DEF AnyFrame
<1>. HIDE DEF g
<1>5. ~IsProcess(g)
  BY <1>4, FrameKinds
<1>6. /\ stack' \in Seq(AnyFrame) /\ Len(stack') = Len(stack) /\ DOMAIN stack' = 1..Len(stack)
      /\ \A k \in 1..(Len(stack) - 1) : stack'[k] = stack[k]
      /\ stack'[Len(stack)] = g
  BY <1>1, <1>3, <1>4, WithTopIs
<1>7. /\ DOMAIN stack' = DOMAIN stack
      /\ \A k \in DOMAIN stack : k = Len(stack) \/ stack'[k] = stack[k]
  BY <1>1, <1>6, BelowIs
<1>8. Typed'
  BY <1>1, <1>3, <1>6 DEF Typed
<1>9. \A d \in Event : Distinct(subscribers'[d])
  BY <1>3 DEF IInv
<1>10. FramesSound'
  BY <1>3, <1>4, <1>6, <1>7 DEF IInv, FramesSound
<1>11. ProcessSound'
  <2>1. \A k \in DOMAIN stack' : IsProcess(stack'[k]) =>
            k \in DOMAIN stack /\ IsProcess(stack[k]) /\ stack'[k] = stack[k] /\ k # Len(stack')
    BY <1>5, <1>6, <1>7
  <2>. QED BY <1>3, <2>1 DEF IInv, ProcessSound
<1>. QED BY <1>8, <1>9, <1>10, <1>11 DEF IInv

\* Dropping the frame on top, when what is below waits as it must.
LEMMA PopStep ==
    ASSUME IInv, ~inCode, stack' = Below, inCode' \in BOOLEAN, UNCHANGED subscribers,
           ~inCode' => Below # <<>>,
           Below # <<>> /\ IsProcess(Below[Len(Below)]) => ~inCode',
           \/ queue' = queue
           \/ queue' = <<>> /\ \A k \in DOMAIN Below : ~IsProcess(Below[k])
    PROVE  IInv'
<1>1. Typed /\ stack # <<>>
  BY RunningFrame
<1>2. /\ Len(stack) \in Nat /\ Len(stack) > 0 /\ DOMAIN stack = 1..Len(stack)
      /\ stack' \in Seq(AnyFrame) /\ Len(stack') = Len(stack) - 1 /\ DOMAIN stack' = 1..(Len(stack) - 1)
      /\ \A k \in 1..(Len(stack) - 1) : stack'[k] = stack[k]
  BY <1>1, BelowIs
<1>3. \A k \in DOMAIN stack' : k \in DOMAIN stack /\ stack'[k] = stack[k]
  BY <1>2
<1>4. Typed'
  <2>1. Len(stack') <= MaxDepth
    BY <1>1, <1>2, LimitAssumption DEF Typed
  <2>2. queue' \in Seq(Event) /\ Len(queue') <= MaxQueued
    <3>1. <<>> \in Seq(Event) /\ Len(<<>>) = 0 /\ 0 <= MaxQueued
      BY LimitAssumption
    <3>. QED BY <1>1, <3>1 DEF Typed
  <2>. QED BY <1>1, <1>2, <2>1, <2>2 DEF Typed
<1>5. \A d \in Event : Distinct(subscribers'[d])
  BY DEF IInv
<1>6. FramesSound'
  BY <1>3 DEF IInv, FramesSound
<1>7. ProcessSound'
  <2>1. ~inCode' => stack' # <<>>
    OBVIOUS
  <2>2. ASSUME NEW k \in DOMAIN stack', NEW l \in DOMAIN stack', IsProcess(stack'[k]), IsProcess(stack'[l])
        PROVE  k = l
    BY <1>3, <2>2 DEF IInv, ProcessSound
  <2>3. ASSUME NEW k \in DOMAIN stack', IsProcess(stack'[k])
        PROVE  k < MaxDepth /\ stack'[k].at <= Len(queue') + 1 /\ (k = Len(stack') => ~inCode')
    <3>1. queue' = queue /\ k \in DOMAIN stack /\ stack'[k] = stack[k]
      BY <1>3, <2>3
    <3>2. k < MaxDepth /\ stack'[k].at <= Len(queue') + 1
      BY <2>3, <3>1 DEF IInv, ProcessSound
    <3>3. k = Len(stack') => Below # <<>> /\ IsProcess(Below[Len(Below)])
      BY <1>2, <2>3
    <3>. QED BY <3>2, <3>3
  <2>. QED BY <2>1, <2>2, <2>3 DEF ProcessSound
<1>. QED BY <1>4, <1>5, <1>6, <1>7 DEF IInv

LEMMA PublishLoopStep == ASSUME IInv, PublishLoop PROVE IInv'
<1>1. CASE Top.at <= Len(subscribers[Top.event])
  BY <1>1, PublishCallStep
<1>2. CASE ~(Top.at <= Len(subscribers[Top.event]))
  <2>1. /\ ~inCode /\ stack' = Below
        /\ inCode' = (Below = <<>> \/ ~IsProcess(Below[Len(Below)]))
        /\ UNCHANGED <<subscribers, queue>>
    BY <1>2 DEF PublishLoop
  <2>2. inCode' \in BOOLEAN
    BY <2>1
  <2>3. ~inCode' => Below # <<>>
    BY <2>1
  <2>4. Below # <<>> /\ IsProcess(Below[Len(Below)]) => ~inCode'
    BY <2>1
  <2>. QED BY <2>1, <2>2, <2>3, <2>4, PopStep
<1>. QED BY <1>1, <1>2

LEMMA ReturnStep == ASSUME IInv, Return PROVE IInv'
<1>1. stack # <<>> /\ inCode' = FALSE /\ UNCHANGED <<subscribers, queue, stack>>
  BY DEF Return
<1>2. Typed' /\ FramesSound' /\ \A d \in Event : Distinct(subscribers'[d])
  BY <1>1 DEF IInv, Typed, FramesSound
<1>3. ProcessSound'
  BY <1>1 DEF IInv, ProcessSound
<1>. QED BY <1>2, <1>3 DEF IInv

LEMMA PublishDeferredStep ==
    ASSUME IInv, NEW e \in Event, PublishDeferred(e) PROVE IInv'
<1>1. /\ Len(queue) < MaxQueued /\ queue' = Append(queue, e)
      /\ UNCHANGED <<subscribers, stack, inCode>>
  BY DEF PublishDeferred
<1>2. /\ queue' \in Seq(Event) /\ Len(queue') = Len(queue) + 1 /\ Len(queue) \in Nat
      /\ MaxQueued \in Nat
  BY <1>1, LimitAssumption DEF IInv, Typed
<1>3. Len(queue') <= MaxQueued
  BY <1>1, <1>2
<1>4. Typed' /\ FramesSound' /\ \A d \in Event : Distinct(subscribers'[d])
  BY <1>1, <1>2, <1>3 DEF IInv, Typed, FramesSound
<1>5. ASSUME NEW k \in DOMAIN stack, IsProcess(stack[k]) PROVE stack[k].at <= Len(queue') + 1
  <2>1. stack[k].at \in 1..(MaxQueued + 1)
    BY <1>5, FrameKinds DEF IInv, Typed
  <2>2. stack[k].at <= Len(queue) + 1
    BY <1>5 DEF IInv, ProcessSound
  <2>3. stack[k].at \in Int
    BY <1>2, <2>1
  <2>. QED BY <1>2, <2>2, <2>3
<1>6. ProcessSound'
  BY <1>1, <1>5 DEF IInv, ProcessSound
<1>. QED BY <1>4, <1>6 DEF IInv

LEMMA ProcessStep == ASSUME IInv, Process PROVE IInv'
<1>. DEFINE p == [at |-> 1]
<1>1. /\ ~InProcess /\ Len(stack) + 2 <= MaxDepth /\ stack' = Append(stack, p) /\ inCode' = FALSE
      /\ UNCHANGED <<subscribers, queue>>
  BY DEF Process
<1>2. p \in ProcessFrame /\ IsProcess(p) /\ p \in AnyFrame /\ p.at = 1
  <2>1. 1 \in 1..(MaxQueued + 1)
    BY LimitAssumption
  <2>. QED BY <2>1 DEF ProcessFrame, IsProcess, AnyFrame
<1>. HIDE DEF p
<1>3. /\ stack' \in Seq(AnyFrame) /\ Len(stack') = Len(stack) + 1 /\ Len(stack) \in Nat
      /\ DOMAIN stack' = 1..(Len(stack) + 1) /\ DOMAIN stack = 1..Len(stack)
      /\ \A k \in 1..Len(stack) : stack'[k] = stack[k]
      /\ stack'[Len(stack) + 1] = p
  BY <1>1, <1>2, AppendIs DEF IInv, Typed
<1>4. \A k \in DOMAIN stack' : k = Len(stack) + 1 \/ (k \in DOMAIN stack /\ stack'[k] = stack[k])
  BY <1>3
<1>5. Len(stack') <= MaxDepth /\ Len(stack) + 1 < MaxDepth
  BY <1>1, <1>3, LimitAssumption
<1>6. Typed'
  BY <1>1, <1>3, <1>5 DEF IInv, Typed
<1>7. \A d \in Event : Distinct(subscribers'[d])
  BY <1>1 DEF IInv
<1>8. FramesSound'
  BY <1>1, <1>2, <1>3, <1>4 DEF IInv, FramesSound
<1>9. ProcessSound'
  <2>1. stack' # <<>>
    BY <1>3
  <2>2. \A k \in DOMAIN stack' : IsProcess(stack'[k]) => k = Len(stack) + 1
    BY <1>1, <1>4 DEF InProcess
  <2>3. p.at <= Len(queue) + 1
    <3>1. Len(queue) \in Nat
      BY DEF IInv, Typed
    <3>. QED BY <1>2, <3>1
  <2>. QED BY <1>1, <1>3, <1>5, <2>1, <2>2, <2>3 DEF ProcessSound
<1>. QED BY <1>6, <1>7, <1>8, <1>9 DEF IInv

\* What process delivers: the top moves on by one and a publish is put on it.
LEMMA DeliverIs ==
    ASSUME IInv, ProcessLoop, MoreQueued(Top.at)
    PROVE  /\ ~inCode /\ Typed /\ Len(stack) \in Nat /\ Len(stack) \in DOMAIN stack
           /\ Top = stack[Len(stack)] /\ IsProcess(Top)
           /\ \A k \in DOMAIN stack : IsProcess(stack[k]) => k = Len(stack)
           /\ Top.at \in 1..Len(queue) /\ queue[Top.at] \in Event
           /\ stack' \in Seq(AnyFrame) /\ Len(stack') = Len(stack) + 1 /\ Len(stack) + 1 <= MaxDepth
           /\ DOMAIN stack' = 1..(Len(stack) + 1) /\ DOMAIN stack = 1..Len(stack)
           /\ \A k \in 1..(Len(stack) - 1) : stack'[k] = stack[k]
           /\ IsProcess(stack'[Len(stack)]) /\ stack'[Len(stack)].at = Top.at + 1
           /\ stack'[Len(stack) + 1] = Frame(queue[Top.at])
           /\ \A k \in DOMAIN stack' : IsProcess(stack'[k]) => k = Len(stack)
           /\ UNCHANGED <<subscribers, queue, inCode>>
<1>. DEFINE p == [at |-> Top.at + 1]
<1>0. ~inCode /\ IsProcess(Top) /\ UNCHANGED <<subscribers, queue, inCode>>
      /\ stack' = Append(WithTop(p), Frame(queue[Top.at]))
  BY DEF ProcessLoop
<1>1. /\ Typed /\ stack # <<>> /\ Len(stack) \in DOMAIN stack /\ Len(stack) \in Nat
      /\ Top.at \in 1..(Len(queue) + 1) /\ Len(stack) < MaxDepth
      /\ \A k \in DOMAIN stack : IsProcess(stack[k]) => k = Len(stack)
  BY <1>0, RunningFrame
<1>2. Len(queue) \in Nat /\ Len(queue) <= MaxQueued /\ queue \in Seq(Event) /\ MaxQueued \in Nat
      /\ MaxDepth \in Nat
  BY <1>1, LimitAssumption DEF Typed
<1>3. Top.at \in 1..Len(queue) /\ queue[Top.at] \in Event /\ Top.at + 1 \in 1..(MaxQueued + 1)
  BY <1>1, <1>2 DEF MoreQueued
<1>4. p \in ProcessFrame /\ p \in AnyFrame /\ IsProcess(p) /\ p.at = Top.at + 1
  BY <1>3 DEF ProcessFrame, AnyFrame, IsProcess
<1>5. Frame(queue[Top.at]) \in PublishFrame /\ Frame(queue[Top.at]) \in AnyFrame
      /\ ~IsProcess(Frame(queue[Top.at]))
  BY <1>1, <1>3, FrameNew, FrameKinds DEF AnyFrame
<1>. HIDE DEF p
<1>6. /\ WithTop(p) \in Seq(AnyFrame) /\ Len(WithTop(p)) = Len(stack)
      /\ DOMAIN WithTop(p) = 1..Len(stack)
      /\ \A k \in 1..(Len(stack) - 1) : WithTop(p)[k] = stack[k]
      /\ WithTop(p)[Len(stack)] = p
  BY <1>1, <1>4, WithTopIs
<1>7. /\ stack' \in Seq(AnyFrame) /\ Len(stack') = Len(stack) + 1
      /\ DOMAIN stack' = 1..(Len(stack) + 1)
      /\ \A k \in 1..Len(stack) : stack'[k] = WithTop(p)[k]
      /\ stack'[Len(stack) + 1] = Frame(queue[Top.at])
  BY <1>0, <1>5, <1>6, AppendIs
<1>8. DOMAIN stack = 1..Len(stack) /\ Top = stack[Len(stack)]
  BY <1>1, BelowIs
<1>9. Len(stack) \in 1..Len(stack) /\ \A k \in 1..(Len(stack) - 1) : k \in 1..Len(stack)
  BY <1>1, <1>8
<1>10. /\ \A k \in 1..(Len(stack) - 1) : stack'[k] = stack[k]
       /\ stack'[Len(stack)] = p
  BY <1>6, <1>7, <1>9
<1>11. ASSUME NEW k \in DOMAIN stack', IsProcess(stack'[k]) PROVE k = Len(stack)
  <2>1. k # Len(stack) + 1
    BY <1>5, <1>7, <1>11
  <2>2. k = Len(stack) \/ k \in 1..(Len(stack) - 1)
    BY <1>1, <1>7, <2>1
  <2>3. k \in 1..(Len(stack) - 1) => k \in DOMAIN stack /\ stack'[k] = stack[k]
    BY <1>8, <1>9, <1>10
  <2>. QED BY <1>1, <1>11, <2>2, <2>3
<1>12. Len(stack) + 1 <= MaxDepth
  BY <1>1, <1>2
<1>. QED BY <1>0, <1>1, <1>3, <1>4, <1>7, <1>8, <1>10, <1>11, <1>12

LEMMA ProcessLoopStep == ASSUME IInv, ProcessLoop PROVE IInv'
<1>1. CASE MoreQueued(Top.at)
  <2>1. /\ ~inCode /\ Typed /\ Len(stack) \in Nat
        /\ Top.at \in 1..Len(queue) /\ queue[Top.at] \in Event
        /\ stack' \in Seq(AnyFrame) /\ Len(stack') = Len(stack) + 1 /\ Len(stack) + 1 <= MaxDepth
        /\ DOMAIN stack' = 1..(Len(stack) + 1) /\ DOMAIN stack = 1..Len(stack)
        /\ \A k \in 1..(Len(stack) - 1) : stack'[k] = stack[k]
        /\ IsProcess(stack'[Len(stack)]) /\ stack'[Len(stack)].at = Top.at + 1
        /\ stack'[Len(stack) + 1] = Frame(queue[Top.at])
        /\ \A k \in DOMAIN stack' : IsProcess(stack'[k]) => k = Len(stack)
        /\ UNCHANGED <<subscribers, queue, inCode>>
    BY <1>1, DeliverIs
  <2>2. Typed'
    BY <2>1 DEF Typed
  <2>3. \A d \in Event : Distinct(subscribers'[d])
    BY <2>1 DEF IInv
  <2>4. Frame(queue[Top.at]).event = queue[Top.at]
        /\ FrameSound(Frame(queue[Top.at]), subscribers[queue[Top.at]])
    BY <2>1, FrameNew
  <2>5. \A k \in DOMAIN stack' : \/ k = Len(stack) \/ k = Len(stack) + 1
                                 \/ k \in DOMAIN stack /\ stack'[k] = stack[k]
    BY <2>1
  <2>6. FramesSound'
    BY <2>1, <2>4, <2>5 DEF IInv, FramesSound
  <2>7. ProcessSound'
    <3>1. stack' # <<>>
      BY <2>1
    <3>2. MaxDepth \in Nat /\ Len(queue) \in Nat
      BY <2>1, LimitAssumption DEF Typed
    <3>3. Top.at + 1 <= Len(queue) + 1
      BY <2>1, <3>2
    <3>4. Len(stack) < MaxDepth /\ Len(stack) # Len(stack')
      <4>1. Len(stack) \in Nat /\ Len(stack') = Len(stack) + 1 /\ Len(stack) + 1 <= MaxDepth
        BY <2>1
      <4>. QED BY <3>2, <4>1
    <3>. QED BY <2>1, <3>1, <3>3, <3>4 DEF ProcessSound
  <2>. QED BY <2>2, <2>3, <2>6, <2>7 DEF IInv
<1>2. CASE ~MoreQueued(Top.at)
  <2>1. ~inCode /\ IsProcess(Top) /\ queue' = <<>> /\ stack' = Below /\ inCode' = TRUE
        /\ UNCHANGED subscribers
    BY <1>2 DEF ProcessLoop
  <2>2. ASSUME NEW k \in DOMAIN Below PROVE ~IsProcess(Below[k])
    <3>1. stack # <<>> /\ Typed /\ \A l \in DOMAIN stack : IsProcess(stack[l]) => l = Len(stack)
      BY <2>1, RunningFrame
    <3>2. k \in DOMAIN stack /\ k # Len(stack) /\ Below[k] = stack[k]
      BY <3>1, BelowIs
    <3>. QED BY <3>1, <3>2
  <2>3. Below # <<>> => Len(Below) \in DOMAIN Below
    <3>1. Below \in Seq(AnyFrame)
      BY <2>1, RunningFrame, BelowIs
    <3>. QED BY <3>1
  <2>4. Below # <<>> /\ IsProcess(Below[Len(Below)]) => ~inCode'
    BY <2>2, <2>3
  <2>. QED BY <2>1, <2>2, <2>4, PopStep
<1>. QED BY <1>1, <1>2

LEMMA ClearQueueStep == ASSUME IInv, ClearQueue PROVE IInv'
<1>1. ~InProcess /\ queue' = <<>> /\ UNCHANGED <<subscribers, stack, inCode>>
  BY DEF ClearQueue
<1>2. queue' \in Seq(Event) /\ Len(queue') <= MaxQueued
  BY <1>1, LimitAssumption
<1>3. Typed' /\ FramesSound' /\ \A d \in Event : Distinct(subscribers'[d])
  BY <1>1, <1>2 DEF IInv, Typed, FramesSound
<1>4. ProcessSound'
  BY <1>1 DEF IInv, ProcessSound, InProcess
<1>. QED BY <1>3, <1>4 DEF IInv

LEMMA InitSound == Init => IInv
<1>. SUFFICES ASSUME Init PROVE IInv
  OBVIOUS
<1>1. subscribers = [e \in Event |-> <<>>] /\ queue = <<>> /\ stack = <<>> /\ inCode = TRUE
  BY DEF Init
<1>2. Typed
  BY <1>1, LimitAssumption DEF Typed
<1>3. (\A e \in Event : Distinct(subscribers[e])) /\ FramesSound /\ ProcessSound
  BY <1>1 DEF Distinct, FramesSound, ProcessSound
<1>. QED BY <1>2, <1>3 DEF IInv

LEMMA NextSound == IInv /\ [Next]_vars => IInv'
<1>. SUFFICES ASSUME IInv, [Next]_vars PROVE IInv'
  OBVIOUS
<1>1. CASE \E c \in Callback : \E e \in Interest[c] : Subscribe(e, c)
  BY <1>1, InterestAssumption, SubscribeStep
<1>2. CASE \E c \in Callback : \E e \in Interest[c] : Unsubscribe(e, c)
  BY <1>2, InterestAssumption, UnsubscribeStep
<1>3. CASE \E e \in Event : Publish(e)
  BY <1>3, PublishStep
<1>4. CASE \E e \in Event : PublishDeferred(e)
  BY <1>4, PublishDeferredStep
<1>5. CASE Process
  BY <1>5, ProcessStep
<1>6. CASE ClearQueue
  BY <1>6, ClearQueueStep
<1>7. CASE PublishLoop
  BY <1>7, PublishLoopStep
<1>8. CASE ProcessLoop
  BY <1>8, ProcessLoopStep
<1>9. CASE Return
  BY <1>9, ReturnStep
<1>10. CASE UNCHANGED vars
  BY <1>10 DEF vars, IInv, Typed, FramesSound, ProcessSound
<1>. QED BY <1>1, <1>2, <1>3, <1>4, <1>5, <1>6, <1>7, <1>8, <1>9, <1>10 DEF Next

LEMMA Sound == Spec => []IInv
<1>. QED BY InitSound, NextSound, PTL DEF Spec

LEMMA Typing == IInv => TypeOK
<1>. SUFFICES ASSUME IInv PROVE TypeOK
  OBVIOUS
<1>1. Typed
  BY DEF IInv
<1>2. ASSUME NEW e \in Event
      PROVE  Len(subscribers[e]) <= MaxSubscribers /\ Elements(subscribers[e]) \subseteq Callback
  BY <1>1 DEF Typed, Elements
<1>3. Elements(queue) \subseteq Event /\ Elements(stack) \subseteq AnyFrame
  BY <1>1 DEF Typed, Elements
<1>. QED BY <1>1, <1>2, <1>3 DEF TypeOK, Typed, AnyFrame

\* The arrays stay within their limits and every frame within what the loops can be at.
THEOREM TypeCorrect == Spec => []TypeOK
<1>. QED BY Sound, Typing, PTL

\* Whatever callbacks subscribe, unsubscribe and publish under a publish, it calls everyone
\* who stays subscribed and is not moved behind it, and nobody twice.
THEOREM CallsOnce == Spec => []CalledOnce
<1>1. ASSUME IInv PROVE CalledOnce
  BY <1>1 DEF IInv, FramesSound, FrameSound, Ahead, CalledOnce, Publishing
<1>. QED BY <1>1, Sound, PTL

-----------------------------------------------------------------------------
\* The deferred queue: what is pending and which event is being published, of any stack
\* and queue.

PendingOf(st, q) ==
    IF \E k \in DOMAIN st : IsProcess(st[k])
    THEN LET k == CHOOSE i \in DOMAIN st : IsProcess(st[i]) IN SubSeq(q, st[k].at, Len(q))
    ELSE q
CurrentOf(st) ==
    IF \E k \in DOMAIN st : IsProcess(st[k])
    THEN LET k == CHOOSE i \in DOMAIN st : IsProcess(st[i])
         IN IF k = Len(st) THEN Nobody ELSE st[k + 1].event
    ELSE Nobody

LEMMA MappedIn ==
    ASSUME NEW st, NEW q, NEW k \in DOMAIN st, IsProcess(st[k]),
           \A l \in DOMAIN st : IsProcess(st[l]) => l = k
    PROVE  /\ PendingOf(st, q) = SubSeq(q, st[k].at, Len(q))
           /\ CurrentOf(st) = IF k = Len(st) THEN Nobody ELSE st[k + 1].event
<1>1. (CHOOSE i \in DOMAIN st : IsProcess(st[i])) = k
  OBVIOUS
<1>. QED BY <1>1 DEF PendingOf, CurrentOf

LEMMA UnmappedIn ==
    ASSUME NEW st, NEW q, \A l \in DOMAIN st : ~IsProcess(st[l])
    PROVE  PendingOf(st, q) = q /\ CurrentOf(st) = Nobody
BY DEF PendingOf, CurrentOf

LEMMA MappedNow ==
    /\ Pending = PendingOf(stack, queue) /\ Current = CurrentOf(stack)
    /\ Pending' = PendingOf(stack', queue') /\ Current' = CurrentOf(stack')
BY DEF Pending, Current, PendingOf, CurrentOf, InProcess

\* Two stacks with the same process in the same place show the same event.
LEMMA SameMapping ==
    ASSUME NEW st, NEW tt, NEW q,
           \A k \in DOMAIN st : IsProcess(st[k]) =>
               /\ k \in DOMAIN tt /\ tt[k] = st[k]
               /\ IF k = Len(st) THEN k = Len(tt) ELSE k # Len(tt) /\ tt[k + 1].event = st[k + 1].event,
           \A k \in DOMAIN tt : IsProcess(tt[k]) => k \in DOMAIN st /\ IsProcess(st[k]),
           \A k, l \in DOMAIN st : IsProcess(st[k]) /\ IsProcess(st[l]) => k = l
    PROVE  PendingOf(tt, q) = PendingOf(st, q) /\ CurrentOf(tt) = CurrentOf(st)
<1>1. CASE \A l \in DOMAIN st : ~IsProcess(st[l])
  <2>1. \A l \in DOMAIN tt : ~IsProcess(tt[l])
    BY <1>1
  <2>. QED BY <1>1, <2>1, UnmappedIn
<1>2. ASSUME NEW k \in DOMAIN st, IsProcess(st[k])
      PROVE  PendingOf(tt, q) = PendingOf(st, q) /\ CurrentOf(tt) = CurrentOf(st)
  <2>1. \A l \in DOMAIN st : IsProcess(st[l]) => l = k
    BY <1>2
  <2>2. /\ k \in DOMAIN tt /\ tt[k] = st[k] /\ IsProcess(tt[k])
        /\ \A l \in DOMAIN tt : IsProcess(tt[l]) => l = k
    BY <1>2, <2>1
  <2>3. /\ PendingOf(st, q) = SubSeq(q, st[k].at, Len(q))
        /\ CurrentOf(st) = IF k = Len(st) THEN Nobody ELSE st[k + 1].event
    BY <1>2, <2>1, MappedIn
  <2>4. /\ PendingOf(tt, q) = SubSeq(q, tt[k].at, Len(q))
        /\ CurrentOf(tt) = IF k = Len(tt) THEN Nobody ELSE tt[k + 1].event
    BY <2>2, MappedIn
  <2>. QED BY <1>2, <2>2, <2>3, <2>4
<1>. QED BY <1>1, <1>2

\* Each step accepts, delivers or ends, or is invisible in the queue.

LEMMA DeferredUnsubscribe ==
    ASSUME IInv, NEW e \in Event, NEW c \in Callback, Unsubscribe(e, c) PROVE UNCHANGED D!vars
<1>1. Typed /\ queue' = queue
  BY DEF IInv, Unsubscribe
<1>2. \A k, l \in DOMAIN stack : IsProcess(stack[k]) /\ IsProcess(stack[l]) => k = l
  BY DEF IInv, ProcessSound
<1>3. /\ Len(stack') = Len(stack) /\ DOMAIN stack' = DOMAIN stack
      /\ DOMAIN stack = 1..Len(stack) /\ Len(stack) \in Nat
      /\ \A k \in DOMAIN stack : /\ IsProcess(stack'[k]) <=> IsProcess(stack[k])
                                 /\ IsProcess(stack[k]) => stack'[k] = stack[k]
                                 /\ ~IsProcess(stack[k]) => stack'[k].event = stack[k].event
  BY <1>1, UnsubscribeFrames DEF Typed
<1>4. ASSUME NEW k \in DOMAIN stack, IsProcess(stack[k]), k # Len(stack)
      PROVE  stack'[k + 1].event = stack[k + 1].event
  <2>1. k + 1 \in DOMAIN stack /\ k + 1 # k
    BY <1>3, <1>4
  <2>2. ~IsProcess(stack[k + 1])
    BY <1>2, <1>4, <2>1
  <2>. QED BY <1>3, <2>1, <2>2
<1>5. ASSUME NEW k \in DOMAIN stack, IsProcess(stack[k])
      PROVE  /\ k \in DOMAIN stack' /\ stack'[k] = stack[k]
             /\ IF k = Len(stack) THEN k = Len(stack')
                ELSE k # Len(stack') /\ stack'[k + 1].event = stack[k + 1].event
  BY <1>3, <1>4, <1>5
<1>6. \A k \in DOMAIN stack' : IsProcess(stack'[k]) => k \in DOMAIN stack /\ IsProcess(stack[k])
  BY <1>3
<1>7. PendingOf(stack', queue) = PendingOf(stack, queue) /\ CurrentOf(stack') = CurrentOf(stack)
  BY <1>2, <1>5, <1>6, SameMapping
<1>. QED BY <1>1, <1>7, MappedNow DEF D!vars

LEMMA DeferredPublish ==
    ASSUME IInv, NEW e \in Event, Publish(e) PROVE UNCHANGED D!vars
<1>1. /\ Typed /\ inCode /\ queue' = queue /\ stack' = Append(stack, Frame(e))
      /\ Frame(e) \in AnyFrame /\ ~IsProcess(Frame(e))
  BY FrameNew, FrameKinds DEF IInv, Publish, AnyFrame
<1>2. /\ DOMAIN stack' = 1..(Len(stack) + 1) /\ DOMAIN stack = 1..Len(stack) /\ Len(stack) \in Nat
      /\ Len(stack') = Len(stack) + 1
      /\ \A k \in 1..Len(stack) : stack'[k] = stack[k]
      /\ stack'[Len(stack) + 1] = Frame(e)
  BY <1>1, AppendIs DEF Typed
<1>3. /\ \A k, l \in DOMAIN stack : IsProcess(stack[k]) /\ IsProcess(stack[l]) => k = l
      /\ \A k \in DOMAIN stack : IsProcess(stack[k]) => k # Len(stack)
  BY <1>1 DEF IInv, ProcessSound
<1>4. ASSUME NEW k \in DOMAIN stack, IsProcess(stack[k])
      PROVE  k \in DOMAIN stack' /\ stack'[k] = stack[k] /\ k # Len(stack')
             /\ stack'[k + 1].event = stack[k + 1].event
  <2>1. k \in 1..Len(stack) /\ k + 1 \in 1..Len(stack) /\ k \in 1..(Len(stack) + 1) /\ k # Len(stack) + 1
    BY <1>2, <1>3, <1>4
  <2>. QED BY <1>2, <2>1
<1>5. \A k \in DOMAIN stack' : IsProcess(stack'[k]) => k \in DOMAIN stack /\ IsProcess(stack[k])
  <2>1. \A k \in DOMAIN stack' : k = Len(stack) + 1 \/ k \in 1..Len(stack)
    BY <1>2
  <2>. QED BY <1>1, <1>2, <2>1
<1>6. PendingOf(stack', queue) = PendingOf(stack, queue) /\ CurrentOf(stack') = CurrentOf(stack)
  BY <1>3, <1>4, <1>5, SameMapping
<1>. QED BY <1>1, <1>6, MappedNow DEF D!vars

\* A call keeps the event; the end of a publish is the end of a delivery if process started it.
LEMMA DeferredPublishLoop ==
    ASSUME IInv, PublishLoop PROVE UNCHANGED D!vars \/ D!Done
<1>. DEFINE n == Len(stack)
<1>1. ~inCode /\ ~IsProcess(Top) /\ queue' = queue
  BY DEF PublishLoop
<1>2. /\ Typed /\ stack # <<>> /\ n \in DOMAIN stack /\ n \in Nat
      /\ Top \in PublishFrame /\ Top.event \in Event
      /\ FrameSound(Top, subscribers[Top.event])
      /\ subscribers[Top.event] \in Seq(Callback) /\ Distinct(subscribers[Top.event])
      /\ Len(subscribers[Top.event]) <= MaxSubscribers
  BY <1>1, RunningFrame
<1>3. /\ DOMAIN stack = 1..n /\ Top = stack[n] /\ n > 0
  BY <1>2, BelowIs
<1>4. /\ \A k, l \in DOMAIN stack : IsProcess(stack[k]) /\ IsProcess(stack[l]) => k = l
      /\ \A k \in DOMAIN stack : IsProcess(stack[k]) => k # n
  BY <1>1, <1>3 DEF IInv, ProcessSound
<1>5. CASE Top.at <= Len(subscribers[Top.event])
  <2>. DEFINE s == subscribers[Top.event]
              g == [Top EXCEPT !.at = @ + 1, !.due = @ \ {s[Top.at]}, !.called = @ \cup {s[Top.at]}]
  <2>1. Len(s) \in Nat /\ Top.at \in Nat
    BY <1>2, FrameKinds
  <2>2. stack' = WithTop(g)
    BY <1>5, <2>1 DEF PublishLoop
  <2>3. g \in PublishFrame /\ g \in AnyFrame /\ g.event = Top.event
    BY <1>2, <1>5, FrameAfterCall DEF AnyFrame
  <2>. HIDE DEF g
  <2>4. ~IsProcess(g)
    BY <2>3, FrameKinds
  <2>5. /\ Len(stack') = n /\ DOMAIN stack' = 1..n
        /\ \A k \in 1..(n - 1) : stack'[k] = stack[k]
        /\ stack'[n] = g
    BY <1>2, <2>2, <2>3, WithTopIs
  <2>. HIDE DEF n
  <2>6. ASSUME NEW k \in DOMAIN stack, IsProcess(stack[k])
        PROVE  k \in DOMAIN stack' /\ stack'[k] = stack[k] /\ k # Len(stack')
               /\ stack'[k + 1].event = stack[k + 1].event
    <3>1. k \in 1..(n - 1) /\ k \in DOMAIN stack' /\ k # n /\ (k + 1 = n \/ k + 1 \in 1..(n - 1))
      BY <1>2, <1>3, <1>4, <2>5, <2>6
    <3>. QED BY <1>3, <2>3, <2>5, <3>1
  <2>7. \A k \in DOMAIN stack' : IsProcess(stack'[k]) => k \in DOMAIN stack /\ IsProcess(stack[k])
    <3>1. \A k \in DOMAIN stack' : k = n \/ k \in 1..(n - 1)
      BY <1>2, <2>5
    <3>. QED BY <1>3, <2>4, <2>5, <3>1
  <2>8. PendingOf(stack', queue) = PendingOf(stack, queue) /\ CurrentOf(stack') = CurrentOf(stack)
    BY <1>4, <2>6, <2>7, SameMapping DEF n
  <2>. QED BY <1>1, <2>8, MappedNow DEF D!vars
<1>6. CASE ~(Top.at <= Len(subscribers[Top.event]))
  <2>1. stack' = Below
    BY <1>6 DEF PublishLoop
  <2>2. /\ Len(stack') = n - 1 /\ DOMAIN stack' = 1..(n - 1)
        /\ \A k \in 1..(n - 1) : stack'[k] = stack[k]
    BY <1>2, <2>1, BelowIs
  <2>. HIDE DEF n
  <2>3. \A k \in DOMAIN stack' : k \in DOMAIN stack /\ stack'[k] = stack[k]
    BY <1>2, <1>3, <2>2
  <2>4. \A k \in DOMAIN stack : IsProcess(stack[k]) => k \in DOMAIN stack' /\ stack'[k] = stack[k]
    BY <1>2, <1>3, <1>4, <2>2
  <2>5. CASE n - 1 \in DOMAIN stack /\ IsProcess(stack[n - 1])
    <3>1. /\ \A l \in DOMAIN stack : IsProcess(stack[l]) => l = n - 1
          /\ n - 1 \in DOMAIN stack' /\ IsProcess(stack'[n - 1]) /\ stack'[n - 1] = stack[n - 1]
          /\ \A l \in DOMAIN stack' : IsProcess(stack'[l]) => l = n - 1
      BY <1>4, <2>3, <2>4, <2>5
    <3>2. n - 1 # n /\ n - 1 + 1 = n
      BY <1>2
    <3>3. /\ PendingOf(stack, queue) = SubSeq(queue, stack[n - 1].at, Len(queue))
          /\ CurrentOf(stack) = IF n - 1 = Len(stack) THEN Nobody ELSE stack[n - 1 + 1].event
      BY <2>5, <3>1, MappedIn
    <3>4. /\ PendingOf(stack', queue) = SubSeq(queue, stack'[n - 1].at, Len(queue))
          /\ CurrentOf(stack') = IF n - 1 = Len(stack') THEN Nobody ELSE stack'[n - 1 + 1].event
      BY <3>1, MappedIn
    <3>5. CurrentOf(stack) = Top.event /\ CurrentOf(stack') = Nobody
      BY <1>3, <2>2, <3>2, <3>3, <3>4 DEF n
    <3>6. PendingOf(stack', queue') = PendingOf(stack, queue)
      BY <1>1, <3>1, <3>3, <3>4
    <3>7. D!Done
      BY <1>2, <3>5, <3>6, MappedNow, NobodyAssumption DEF D!Done
    <3>. QED BY <3>7
  <2>6. CASE ~(n - 1 \in DOMAIN stack /\ IsProcess(stack[n - 1]))
    <3>1. ASSUME NEW k \in DOMAIN stack, IsProcess(stack[k])
          PROVE  k \in DOMAIN stack' /\ stack'[k] = stack[k] /\ k # Len(stack')
                 /\ stack'[k + 1].event = stack[k + 1].event
      <4>1. k # n - 1 /\ k # n /\ k \in 1..n
        BY <1>3, <1>4, <2>6, <3>1
      <4>2. k + 1 \in 1..(n - 1) /\ k \in 1..(n - 1)
        BY <1>2, <4>1
      <4>. QED BY <2>2, <4>1, <4>2
    <3>2. PendingOf(stack', queue) = PendingOf(stack, queue) /\ CurrentOf(stack') = CurrentOf(stack)
      BY <1>4, <2>3, <3>1, SameMapping DEF n
    <3>. QED BY <1>1, <3>2, MappedNow DEF D!vars
  <2>. QED BY <2>5, <2>6
<1>. QED BY <1>5, <1>6

\* The pending part of a queue from a slot on.
LEMMA PendingFrom ==
    ASSUME NEW q \in Seq(Event), NEW i \in 1..(Len(q) + 1)
    PROVE  /\ SubSeq(q, i, Len(q)) \in Seq(Event)
           /\ i = 1 => SubSeq(q, i, Len(q)) = q
           /\ i = Len(q) + 1 => SubSeq(q, i, Len(q)) = <<>>
           /\ i <= Len(q) => /\ SubSeq(q, i, Len(q)) # <<>>
                             /\ Head(SubSeq(q, i, Len(q))) = q[i]
                             /\ Tail(SubSeq(q, i, Len(q))) = SubSeq(q, i + 1, Len(q))
           /\ \A e \in Event : SubSeq(Append(q, e), i, Len(Append(q, e))) = Append(SubSeq(q, i, Len(q)), e)
<1>1. Len(q) \in Nat /\ i \in Nat /\ i >= 1 /\ i <= Len(q) + 1
  OBVIOUS
<1>2. SubSeq(q, i, Len(q)) \in Seq(Event)
  BY <1>1
<1>3. i = 1 => SubSeq(q, i, Len(q)) = q
  BY <1>1
<1>4. i = Len(q) + 1 => SubSeq(q, i, Len(q)) = <<>>
  BY <1>1
<1>5. ASSUME i <= Len(q) PROVE SubSeq(q, i, Len(q)) # <<>> /\ Head(SubSeq(q, i, Len(q))) = q[i]
  BY <1>1, <1>5
<1>6. ASSUME i <= Len(q) PROVE Tail(SubSeq(q, i, Len(q))) = SubSeq(q, i + 1, Len(q))
  BY <1>1, <1>6
<1>7. ASSUME NEW e \in Event
      PROVE  SubSeq(Append(q, e), i, Len(Append(q, e))) = Append(SubSeq(q, i, Len(q)), e)
  BY <1>1
<1>. QED BY <1>2, <1>3, <1>4, <1>5, <1>6, <1>7

LEMMA DeferredAccept ==
    ASSUME IInv, NEW e \in Event, PublishDeferred(e) PROVE D!Accept(e)
<1>1. queue \in Seq(Event) /\ Len(queue) \in Nat /\ queue' = Append(queue, e) /\ stack' = stack
  BY DEF IInv, Typed, PublishDeferred
<1>2. CASE \A k \in DOMAIN stack : ~IsProcess(stack[k])
  <2>1. PendingOf(stack, queue) = queue /\ PendingOf(stack, queue') = queue'
    BY <1>2, UnmappedIn
  <2>. QED BY <1>1, <2>1, MappedNow DEF D!Accept
<1>3. ASSUME NEW k \in DOMAIN stack, IsProcess(stack[k]) PROVE D!Accept(e)
  <2>1. \A l \in DOMAIN stack : IsProcess(stack[l]) => l = k
    BY <1>3 DEF IInv, ProcessSound
  <2>2. stack[k].at \in 1..(Len(queue) + 1)
    <3>1. stack[k].at \in 1..(MaxQueued + 1) /\ MaxQueued \in Nat
      BY <1>3, FrameKinds, LimitAssumption DEF IInv, Typed
    <3>2. stack[k].at <= Len(queue) + 1
      BY <1>3 DEF IInv, ProcessSound
    <3>. QED BY <1>1, <3>1, <3>2
  <2>3. /\ PendingOf(stack, queue) = SubSeq(queue, stack[k].at, Len(queue))
        /\ PendingOf(stack, queue') = SubSeq(queue', stack[k].at, Len(queue'))
    BY <1>3, <2>1, MappedIn
  <2>4. PendingOf(stack, queue') = Append(PendingOf(stack, queue), e)
    <3>1. SubSeq(Append(queue, e), stack[k].at, Len(Append(queue, e)))
            = Append(SubSeq(queue, stack[k].at, Len(queue)), e)
      BY <1>1, <2>2, PendingFrom, Zenon
    <3>. QED BY <1>1, <2>3, <3>1, Zenon
  <2>. QED BY <1>1, <2>4, MappedNow DEF D!Accept
<1>. QED BY <1>2, <1>3

LEMMA DeferredProcess == ASSUME IInv, Process PROVE UNCHANGED D!vars
<1>. DEFINE p == [at |-> 1]
<1>1. /\ queue \in Seq(Event) /\ queue' = queue /\ ~InProcess /\ stack \in Seq(AnyFrame)
      /\ stack' = Append(stack, p)
  BY DEF IInv, Typed, Process
<1>2. p \in AnyFrame /\ IsProcess(p) /\ p.at = 1
  <2>1. 1 \in 1..(MaxQueued + 1)
    BY LimitAssumption
  <2>. QED BY <2>1 DEF ProcessFrame, IsProcess, AnyFrame
<1>. HIDE DEF p
<1>3. /\ Len(stack) \in Nat /\ Len(stack') = Len(stack) + 1 /\ DOMAIN stack' = 1..(Len(stack) + 1)
      /\ DOMAIN stack = 1..Len(stack)
      /\ \A k \in 1..Len(stack) : stack'[k] = stack[k]
      /\ stack'[Len(stack) + 1] = p
  BY <1>1, <1>2, AppendIs
<1>4. \A k \in DOMAIN stack : ~IsProcess(stack[k])
  BY <1>1 DEF InProcess
<1>5. /\ Len(stack') \in DOMAIN stack' /\ stack'[Len(stack')] = p
      /\ \A k \in DOMAIN stack' : IsProcess(stack'[k]) => k = Len(stack')
  <2>1. \A k \in DOMAIN stack' : k = Len(stack) + 1 \/ k \in 1..Len(stack)
    BY <1>3
  <2>2. Len(stack) + 1 \in 1..(Len(stack) + 1)
    BY <1>3
  <2>. QED BY <1>3, <1>4, <2>1, <2>2
<1>6. PendingOf(stack, queue) = queue /\ CurrentOf(stack) = Nobody
  BY <1>4, UnmappedIn
<1>7. /\ PendingOf(stack', queue) = SubSeq(queue, stack'[Len(stack')].at, Len(queue))
      /\ CurrentOf(stack') = Nobody
  BY <1>2, <1>5, MappedIn
<1>8. 1 \in 1..(Len(queue) + 1)
  BY <1>1
<1>9. PendingOf(stack', queue) = queue
  BY <1>1, <1>2, <1>5, <1>7, <1>8, PendingFrom
<1>. QED BY <1>1, <1>6, <1>7, <1>9, MappedNow DEF D!vars

LEMMA DeferredProcessLoop == ASSUME IInv, ProcessLoop PROVE UNCHANGED D!vars \/ D!Deliver
<1>. DEFINE n == Len(stack)
<1>1. /\ ~inCode /\ IsProcess(Top) /\ queue \in Seq(Event) /\ Len(queue) \in Nat
  BY DEF ProcessLoop, IInv, Typed
<1>2. /\ Typed /\ stack # <<>> /\ n \in DOMAIN stack /\ n \in Nat /\ Top.at \in 1..(Len(queue) + 1)
      /\ \A k \in DOMAIN stack : IsProcess(stack[k]) => k = n
  BY <1>1, RunningFrame
<1>3. Top = stack[n]
  BY <1>2, BelowIs
<1>4. /\ PendingOf(stack, queue) = SubSeq(queue, Top.at, Len(queue))
      /\ CurrentOf(stack) = Nobody
  BY <1>1, <1>2, <1>3, MappedIn
<1>5. CASE MoreQueued(Top.at)
  <2>1. /\ Top.at \in 1..Len(queue) /\ queue[Top.at] \in Event /\ queue' = queue
        /\ Len(stack') = n + 1 /\ DOMAIN stack' = 1..(n + 1)
        /\ IsProcess(stack'[n]) /\ stack'[n].at = Top.at + 1
        /\ stack'[n + 1] = Frame(queue[Top.at])
        /\ \A k \in DOMAIN stack' : IsProcess(stack'[k]) => k = n
    BY <1>5, DeliverIs
  <2>2. n \in DOMAIN stack' /\ n # Len(stack')
    <3>1. n > 0
      BY <1>2, BelowIs
    <3>. QED BY <1>2, <2>1, <3>1
  <2>3. /\ PendingOf(stack', queue) = SubSeq(queue, Top.at + 1, Len(queue))
        /\ CurrentOf(stack') = stack'[n + 1].event
    BY <2>1, <2>2, MappedIn
  <2>4. CurrentOf(stack') = queue[Top.at]
    BY <2>1, <2>3 DEF Frame
  <2>5. Top.at <= Len(queue)
    BY <1>1, <2>1
  <2>6. /\ PendingOf(stack, queue) # <<>> /\ Head(PendingOf(stack, queue)) = queue[Top.at]
        /\ Tail(PendingOf(stack, queue)) = PendingOf(stack', queue)
    <3>. DEFINE rest == SubSeq(queue, Top.at, Len(queue))
    <3>1. /\ rest # <<>> /\ Head(rest) = queue[Top.at]
          /\ Tail(rest) = SubSeq(queue, Top.at + 1, Len(queue))
      BY <1>1, <1>2, <2>5, PendingFrom, Zenon
    <3>. QED BY <1>4, <2>3, <3>1, Zenon
  <2>. QED BY <1>4, <2>1, <2>4, <2>6, MappedNow DEF D!Deliver
<1>6. CASE ~MoreQueued(Top.at)
  <2>1. queue' = <<>> /\ stack' = Below
    BY <1>6 DEF ProcessLoop
  <2>2. Top.at = Len(queue) + 1
    BY <1>1, <1>2, <1>6 DEF MoreQueued
  <2>3. PendingOf(stack, queue) = <<>>
    BY <1>1, <1>2, <1>4, <2>2, PendingFrom
  <2>4. \A k \in DOMAIN stack' : ~IsProcess(stack'[k])
    <3>1. /\ DOMAIN stack = 1..n /\ DOMAIN stack' = 1..(n - 1)
          /\ \A k \in 1..(n - 1) : stack'[k] = stack[k]
      BY <1>2, <2>1, BelowIs
    <3>2. \A k \in 1..(n - 1) : k \in 1..n /\ k # n
      BY <1>2
    <3>. QED BY <1>2, <3>1, <3>2
  <2>5. PendingOf(stack', queue') = queue' /\ CurrentOf(stack') = Nobody
    BY <2>4, UnmappedIn
  <2>. QED BY <1>4, <2>1, <2>3, <2>5, MappedNow DEF D!vars
<1>. QED BY <1>5, <1>6

LEMMA DeferredClear == ASSUME IInv, ClearQueue PROVE D!Clear
<1>1. queue' = <<>> /\ stack' = stack /\ \A k \in DOMAIN stack : ~IsProcess(stack[k])
  BY DEF ClearQueue, InProcess
<1>2. CurrentOf(stack) = Nobody /\ PendingOf(stack, queue') = queue'
  BY <1>1, UnmappedIn
<1>. QED BY <1>1, <1>2, MappedNow DEF D!Clear

LEMMA DeferredStep ==
    IInv /\ [Next]_vars => [D!Next \/ (ClearQueue /\ D!Clear)]_(D!vars)
<1>. SUFFICES ASSUME IInv, [Next]_vars PROVE D!Next \/ (ClearQueue /\ D!Clear) \/ UNCHANGED D!vars
  OBVIOUS
<1>. USE DEF D!Next
<1>1. CASE \E c \in Callback : \E e \in Interest[c] : Subscribe(e, c)
  <2>1. stack' = stack /\ queue' = queue
    BY <1>1 DEF Subscribe
  <2>. QED BY <2>1, MappedNow DEF D!vars
<1>2. CASE \E c \in Callback : \E e \in Interest[c] : Unsubscribe(e, c)
  BY <1>2, InterestAssumption, DeferredUnsubscribe
<1>3. CASE \E e \in Event : Publish(e)
  BY <1>3, DeferredPublish
<1>4. CASE \E e \in Event : PublishDeferred(e)
  BY <1>4, DeferredAccept
<1>5. CASE Process
  BY <1>5, DeferredProcess
<1>6. CASE ClearQueue
  BY <1>6, DeferredClear
<1>7. CASE PublishLoop
  BY <1>7, DeferredPublishLoop
<1>8. CASE ProcessLoop
  BY <1>8, DeferredProcessLoop
<1>9. CASE Return
  <2>1. stack' = stack /\ queue' = queue
    BY <1>9 DEF Return
  <2>. QED BY <2>1, MappedNow DEF D!vars
<1>10. CASE UNCHANGED vars
  <2>1. stack' = stack /\ queue' = queue
    BY <1>10 DEF vars
  <2>. QED BY <2>1, MappedNow DEF D!vars
<1>. QED BY <1>1, <1>2, <1>3, <1>4, <1>5, <1>6, <1>7, <1>8, <1>9, <1>10 DEF Next

\* The event system implements the deferred queue: what publish_deferred accepted is
\* published once and in order, and only clear_queue drops it.
THEOREM DeliversInOrder == Spec => DeferredInOrder
<1>1. Init => D!Init
  BY MappedNow, UnmappedIn DEF Init, D!Init
<1>. QED BY <1>1, Sound, DeferredStep, PTL DEF Spec, DeferredInOrder
=============================================================================
