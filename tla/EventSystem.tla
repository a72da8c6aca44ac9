----------------------------- MODULE EventSystem -----------------------------
(***************************************************************************)
(* One event system of the runtime library (lib/src/event_system.c) and the   *)
(* program around it.  A publish calls the subscribers one by one, and a       *)
(* callback may use the system again before it returns: it may subscribe,     *)
(* unsubscribe, publish and defer while the loops that led to it are still     *)
(* under way.  Those loops are the frames of a stack; the top one either runs  *)
(* or waits for the code it called.                                          *)
(***************************************************************************)
EXTENDS Integers, Sequences

CONSTANTS
    Event,
    Callback,      \* the functions a program subscribes, with their data
    Interest,      \* the events it subscribes each of them to
    Nobody,        \* no event
    MaxSubscribers,  \* MAX_SUBSCRIBERS_PER_EVENT
    MaxQueued,       \* MAX_QUEUED_EVENTS
    MaxDepth         \* bound: how many loops are under way at once

ASSUME NobodyAssumption == Nobody \notin Event
ASSUME InterestAssumption == Interest \in [Callback -> SUBSET Event]
ASSUME LimitAssumption ==
    /\ MaxSubscribers \in Nat \ {0} /\ MaxQueued \in Nat \ {0}
    /\ MaxDepth \in Nat /\ MaxDepth >= 2

VARIABLES
    subscribers,   \* per event: event_types[id].subscribers[0..subscriber_count-1]
    queue,         \* event_queue[0..queue_size-1]
    stack,         \* the loops of publish and process that are under way
    inCode         \* the program or a callback runs, and not the loop on top of the stack

vars == <<subscribers, queue, stack, inCode>>

Elements(s) == {s[k] : k \in DOMAIN s}

\* at: the slot the loop looks at next.  due and called are history: who must still be
\* called, being subscribed since the loop began and not moved behind it, and who of the
\* subscribers was called.
PublishFrame ==
    [event : Event, at : 1..(MaxSubscribers + 1),
     due : SUBSET Callback, called : SUBSET Callback]
ProcessFrame == [at : 1..(MaxQueued + 1)]
IsProcess(f) == f \in ProcessFrame

TypeOK ==
    /\ DOMAIN subscribers = Event
    /\ \A e \in Event : /\ Len(subscribers[e]) <= MaxSubscribers
                        /\ Elements(subscribers[e]) \subseteq Callback
    /\ Len(queue) <= MaxQueued
    /\ Elements(queue) \subseteq Event
    /\ Len(stack) <= MaxDepth
    /\ Elements(stack) \subseteq PublishFrame \cup ProcessFrame
    /\ inCode \in BOOLEAN

Init ==
    /\ subscribers = [e \in Event |-> <<>>]
    /\ queue = <<>>
    /\ stack = <<>>
    /\ inCode = TRUE

Top == stack[Len(stack)]
Below == SubSeq(stack, 1, Len(stack) - 1)
WithTop(f) == Append(Below, f)
InProcess == \E k \in DOMAIN stack : IsProcess(stack[k])

-----------------------------------------------------------------------------
\* The program subscribes a callback to an event once.
Subscribe(e, callback) ==
    /\ inCode
    /\ callback \notin Elements(subscribers[e])
    /\ Len(subscribers[e]) < MaxSubscribers
    /\ subscribers' = [subscribers EXCEPT ![e] = Append(@, callback)]
    /\ UNCHANGED <<queue, stack, inCode>>

\* The entry of a callback.
SlotOf(s, callback) == CHOOSE i \in DOMAIN s : s[i] = callback

\* Mutated: the entries behind the slot move up by one.
RemovedShifting(s, i) == SubSeq(s, 1, i - 1) \o SubSeq(s, i + 1, Len(s))

\* The last entry takes the slot.
Removed(s, i) == SubSeq([s EXCEPT ![i] = s[Len(s)]], 1, Len(s) - 1)

\* Who leaves the frame's sight: the entry removed, and the last one if the loop had
\* still to come to it and is past the slot it moves to.
Unseen(f, s, i) == {s[i]} \cup (IF i < f.at /\ f.at <= Len(s) THEN {s[Len(s)]} ELSE {})

Unsubscribe(e, callback) ==
    LET s == subscribers[e]
        i == SlotOf(s, callback)
    IN /\ inCode
       /\ callback \in Elements(s)
       /\ subscribers' = [subscribers EXCEPT ![e] = Removed(s, i)]
       /\ stack' = [k \in DOMAIN stack |->
                       IF IsProcess(stack[k]) \/ stack[k].event # e THEN stack[k]
                       ELSE [stack[k] EXCEPT !.due = @ \ Unseen(stack[k], s, i),
                                         !.called = @ \ {s[i]}]]
       /\ UNCHANGED <<queue, inCode>>

-----------------------------------------------------------------------------
Frame(e) ==
    [event |-> e, at |-> 1, due |-> Elements(subscribers[e]), called |-> {}]

\* sprite_event_publish and process_immediate; what they pass on is left out.
Publish(e) ==
    /\ inCode /\ Len(stack) < MaxDepth
    /\ stack' = Append(stack, Frame(e))
    /\ inCode' = FALSE
    /\ UNCHANGED <<subscribers, queue>>

\* One turn of the loop over the subscribers, up to the call or to the end.
PublishLoop ==
    /\ ~inCode /\ ~IsProcess(Top)
    /\ \/ /\ Top.at <= Len(subscribers[Top.event])
          /\ LET callback == subscribers[Top.event][Top.at]
             IN stack' = WithTop([Top EXCEPT !.at = @ + 1,
                                             !.due = @ \ {callback},
                                             !.called = @ \cup {callback}])
          /\ inCode' = TRUE
       \/ /\ Top.at > Len(subscribers[Top.event])
          /\ stack' = Below
          /\ inCode' = (Below = <<>> \/ ~IsProcess(Below[Len(Below)]))
    /\ UNCHANGED <<subscribers, queue>>

\* A callback returns to the loop that called it.
Return ==
    /\ inCode /\ stack # <<>>
    /\ inCode' = FALSE
    /\ UNCHANGED <<subscribers, queue, stack>>

-----------------------------------------------------------------------------
\* Mutated: the last place is taken to be one further.
PublishDeferredLate(e) ==
    /\ inCode
    /\ Len(queue) <= MaxQueued
    /\ queue' = Append(queue, e)
    /\ UNCHANGED <<subscribers, stack, inCode>>

\* publish_deferred: refused when the array is full, delivered entries included.
PublishDeferred(e) ==
    /\ inCode
    /\ Len(queue) < MaxQueued
    /\ queue' = Append(queue, e)
    /\ UNCHANGED <<subscribers, stack, inCode>>

\* sprite_event_system_process, of a program whose callbacks do not call it.
Process ==
    /\ inCode /\ ~InProcess /\ Len(stack) + 2 <= MaxDepth
    /\ stack' = Append(stack, [at |-> 1])
    /\ inCode' = FALSE
    /\ UNCHANGED <<subscribers, queue>>

\* Mutated: the loop stops before the last event.
MoreQueuedButLast(i) == i < Len(queue)

\* The size is read anew in every turn.
MoreQueued(i) == i <= Len(queue)

\* Mutated: a delivered event is taken out of the queue, until none is left.
ProcessLoopDraining ==
    /\ ~inCode /\ IsProcess(Top)
    /\ \/ /\ queue # <<>>
          /\ stack' = Append(stack, Frame(queue[1]))
          /\ queue' = Tail(queue)
          /\ UNCHANGED inCode
       \/ /\ queue = <<>>
          /\ stack' = Below
          /\ inCode' = TRUE
          /\ UNCHANGED queue
    /\ UNCHANGED subscribers

ProcessLoop ==
    /\ ~inCode /\ IsProcess(Top)
    /\ \/ /\ MoreQueued(Top.at)
          /\ stack' = Append(WithTop([at |-> Top.at + 1]), Frame(queue[Top.at]))
          /\ UNCHANGED <<queue, inCode>>
       \/ /\ ~MoreQueued(Top.at)
          /\ queue' = <<>>
          /\ stack' = Below
          /\ inCode' = TRUE
    /\ UNCHANGED subscribers

\* clear_queue, of a program whose callbacks do not call it from process.
ClearQueue ==
    /\ inCode /\ ~InProcess
    /\ queue' = <<>>
    /\ UNCHANGED <<subscribers, stack, inCode>>

Next ==
    \/ \E callback \in Callback : \E e \in Interest[callback] : Subscribe(e, callback)
    \/ \E callback \in Callback : \E e \in Interest[callback] : Unsubscribe(e, callback)
    \/ \E e \in Event : Publish(e)
    \/ \E e \in Event : PublishDeferred(e)
    \/ Process
    \/ ClearQueue
    \/ PublishLoop
    \/ ProcessLoop
    \/ Return

\* The loops run on, and a callback, whatever it does before, returns in the end.
Fairness ==
    /\ WF_vars(PublishLoop) /\ WF_vars(ProcessLoop)
    /\ \A n \in 1..MaxDepth : SF_vars(Return /\ Len(stack) = n)

Spec == Init /\ [][Next]_vars /\ Fairness

-----------------------------------------------------------------------------
Publishing == {k \in DOMAIN stack : ~IsProcess(stack[k])}

\* A publish calls everyone who stays subscribed and nobody twice for one subscription,
\* however the array is rearranged under it: ahead of the loop stand all who are due, and
\* none it has called.  Exempt is whom an unsubscribe from within it moves behind the loop.
CalledOnce ==
    \A k \in Publishing :
        LET f == stack[k]
            s == subscribers[f.event]
            ahead == {s[j] : j \in f.at..Len(s)}
        IN f.due \subseteq ahead /\ ahead \cap f.called = {}

\* What process has not yet come to, and the event it is publishing.
Pending ==
    IF InProcess THEN LET k == CHOOSE i \in DOMAIN stack : IsProcess(stack[i])
                      IN SubSeq(queue, stack[k].at, Len(queue))
    ELSE queue
Current ==
    IF InProcess THEN LET k == CHOOSE i \in DOMAIN stack : IsProcess(stack[i])
                      IN IF k = Len(stack) THEN Nobody ELSE stack[k + 1].event
    ELSE Nobody

D == INSTANCE DeferredQueue WITH Message <- Event, pending <- Pending, current <- Current

\* An event that publish_deferred accepted, before a process or from within it, is
\* published once and in order, although the queue is only emptied at the end; nothing
\* but clear_queue drops one.
DeferredInOrder == D!Init /\ [][D!Next \/ (ClearQueue /\ D!Clear)]_(D!vars)

\* Every publish and every process ends, although callbacks subscribe and defer more
\* while it runs: both arrays are bounded, and neither loop goes back.
LoopsEnd == stack # <<>> ~> stack = <<>>
=============================================================================
