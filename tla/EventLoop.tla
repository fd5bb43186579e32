----------------------------- MODULE EventLoop -----------------------------
(***************************************************************************)
(* The event loops of the C++ reactor library (Loop, LoopThread and        *)
(* ThreadPool in src/ReactorService/src; the storage servers have copies). *)
(* A loop thread sleeps in epoll_wait, calls the handlers of the ready     *)
(* events and runs the functors that any thread may queue for it.  The     *)
(* queue is behind a mutex, the wake-up is a write to an eventfd made      *)
(* after the mutex is released.                                            *)
(***************************************************************************)
EXTENDS Sequences

CONSTANTS Base,     \* the loop of the main thread
          Pool,     \* loops of the thread pool, each with a thread of its own
          Others,   \* threads without a loop
          Tasks,    \* functors; each is queued once at most
          Null      \* a LoopThread's loop_ before its thread has set it

Loops   == Pool \cup {Base}
Threads == Loops \cup Others

ASSUME ThreadAssumption == /\ Base \notin Pool \cup Others
                           /\ Pool \cap Others = {}
                           /\ Null \notin Threads

VARIABLES
  pc,            \* pc[l]: where loop thread l is
  Functors,      \* Functors[l]: Functors_, the queue
  batch,         \* batch[l]: the functors doFunctors took and has yet to run
  callFunctors,  \* callFunctors[l]: callFunctors_
  eventfd,       \* eventfd[l]: the counter of wakeupFd_ is not 0
  woken,         \* woken[l]: the eventfd is among the active events
  quit,          \* quit[l]: quit_
  waking,        \* waking[t]: the loop that thread t has yet to wake up
  loops,         \* ThreadPool's loops_
  starting,      \* the LoopThread that startLoop waits for
  queued, ran    \* histories of each loop: functors queued, functors run

startup == <<loops, starting>>
vars == <<pc, Functors, batch, callFunctors, eventfd, woken, quit, waking,
          loops, starting, queued, ran>>

\* ctor, start: before and after threadFunc has published the loop.
PCs == {"none", "ctor", "pool", "startLoop", "wait", "notified", "start",
        "check", "poll", "events", "run", "stopped"}

TypeOK == /\ pc \in [Loops -> PCs]
          /\ Functors \in [Loops -> Seq(Tasks)]
          /\ batch \in [Loops -> Seq(Tasks)]
          /\ callFunctors \in [Loops -> BOOLEAN]
          /\ eventfd \in [Loops -> BOOLEAN]
          /\ woken \in [Loops -> BOOLEAN]
          /\ quit \in [Loops -> BOOLEAN]
          /\ waking \in [Threads -> Loops \cup {Null}]
          /\ loops \subseteq Pool \cup {Null}
          /\ starting \in Pool \cup {Null}
          /\ queued \in [Loops -> Seq(Tasks)]
          /\ ran \in [Loops -> Seq(Tasks)]

Init == /\ pc = [l \in Loops |-> IF l = Base THEN "pool" ELSE "none"]
        /\ Functors = [l \in Loops |-> <<>>]
        /\ batch = [l \in Loops |-> <<>>]
        /\ callFunctors = [l \in Loops |-> FALSE]
        /\ eventfd = [l \in Loops |-> FALSE]
        /\ woken = [l \in Loops |-> FALSE]
        /\ quit = [l \in Loops |-> FALSE]
        /\ waking = [t \in Threads |-> Null]
        /\ loops = {} /\ starting = Null
        /\ queued = [l \in Loops |-> <<>>]
        /\ ran = [l \in Loops |-> <<>>]
-----------------------------------------------------------------------------
Goto(l, from, to) == /\ pc[l] = from
                     /\ pc' = [pc EXCEPT ![l] = to]

(* ThreadPool::start, in the main thread before its loop: one LoopThread   *)
(* after the other is created and its startLoop called.                    *)

Unstarted == {l \in Pool : pc[l] = "none"}

NewLoopThread(l) ==
  /\ pc[Base] = "pool" /\ l \in Unstarted
  /\ pc' = [pc EXCEPT ![Base] = "startLoop", ![l] = "ctor"]
  /\ starting' = l
  /\ UNCHANGED <<Functors, batch, callFunctors, eventfd, woken, quit, waking,
                 loops, queued, ran>>

\* startLoop takes the mutex and waits, whether the loop is there or not.
StartLoopWait ==
  /\ Goto(Base, "startLoop", "wait")
  /\ UNCHANGED <<Functors, batch, callFunctors, eventfd, woken, quit, waking,
                 startup, queued, ran>>

\* threadFunc: the loop is published under the mutex; notify_one reaches a
\* thread only if it is waiting already.
Publish(l) ==
  /\ pc[l] = "ctor"
  /\ pc' = [pc EXCEPT ![l] = "start",
                      ![Base] = IF @ = "wait" /\ starting = l THEN "notified" ELSE @]
  /\ UNCHANGED <<Functors, batch, callFunctors, eventfd, woken, quit, waking,
                 startup, queued, ran>>

\* startLoop returns loop_ as it is; the wait may also end for no reason.
StartLoopReturn ==
  /\ pc[Base] \in {"notified", "wait"}
  /\ pc' = [pc EXCEPT ![Base] = "pool"]
  /\ loops' = loops \cup {IF pc[starting] = "ctor" THEN Null ELSE starting}
  /\ UNCHANGED <<Functors, batch, callFunctors, eventfd, woken, quit, waking,
                 starting, queued, ran>>

PoolStarted ==
  /\ Unstarted = {}
  /\ Goto(Base, "pool", "start")
  /\ UNCHANGED <<Functors, batch, callFunctors, eventfd, woken, quit, waking,
                 startup, queued, ran>>
-----------------------------------------------------------------------------
(* Loop::loop *)

Enter(l) ==
  /\ Goto(l, "start", "check")
  /\ quit' = [quit EXCEPT ![l] = FALSE]
  /\ UNCHANGED <<Functors, batch, callFunctors, eventfd, woken, waking,
                 startup, queued, ran>>

Check(l) ==
  /\ Goto(l, "check", IF quit[l] THEN "stopped" ELSE "poll")
  /\ UNCHANGED <<Functors, batch, callFunctors, eventfd, woken, quit, waking,
                 startup, queued, ran>>

\* epoll_wait returns: the eventfd is readable, another event is ready, or
\* the 10 s are over.
Poll(l) ==
  /\ Goto(l, "poll", "events")
  /\ woken' = [woken EXCEPT ![l] = eventfd[l]]
  /\ UNCHANGED <<Functors, batch, callFunctors, eventfd, quit, waking,
                 startup, queued, ran>>

HandleRead(l) ==
  /\ pc[l] = "events" /\ woken[l] /\ waking[l] = Null
  /\ eventfd' = [eventfd EXCEPT ![l] = FALSE]
  /\ woken' = [woken EXCEPT ![l] = FALSE]
  /\ UNCHANGED <<pc, Functors, batch, callFunctors, quit, waking,
                 startup, queued, ran>>

\* Mistaken: the queue is copied and not emptied.
DoFunctorsCopy(l) ==
  /\ Goto(l, "events", "run")
  /\ ~woken[l] /\ waking[l] = Null
  /\ callFunctors' = [callFunctors EXCEPT ![l] = TRUE]
  /\ batch' = [batch EXCEPT ![l] = Functors[l]]
  /\ UNCHANGED <<Functors, eventfd, woken, quit, waking, startup, queued, ran>>

\* doFunctors: every active event is handled; the queue is taken as a whole.
DoFunctors(l) ==
  /\ Goto(l, "events", "run")
  /\ ~woken[l] /\ waking[l] = Null
  /\ callFunctors' = [callFunctors EXCEPT ![l] = TRUE]
  /\ batch' = [batch EXCEPT ![l] = Functors[l]]
  /\ Functors' = [Functors EXCEPT ![l] = <<>>]
  /\ UNCHANGED <<eventfd, woken, quit, waking, startup, queued, ran>>

\* A functor has run; what it queued, it queued before.
RunFunctor(l) ==
  /\ pc[l] = "run" /\ waking[l] = Null
  /\ batch[l] # <<>>
  /\ ran' = [ran EXCEPT ![l] = Append(@, Head(batch[l]))]
  /\ batch' = [batch EXCEPT ![l] = Tail(@)]
  /\ UNCHANGED <<pc, Functors, callFunctors, eventfd, woken, quit, waking,
                 startup, queued>>

\* Mistaken: the wake-ups that came while the functors ran are taken back.
FunctorsDoneDrain(l) ==
  /\ batch[l] = <<>> /\ waking[l] = Null
  /\ Goto(l, "run", "check")
  /\ callFunctors' = [callFunctors EXCEPT ![l] = FALSE]
  /\ eventfd' = [eventfd EXCEPT ![l] = FALSE]
  /\ UNCHANGED <<Functors, batch, woken, quit, waking, startup, queued, ran>>

FunctorsDone(l) ==
  /\ batch[l] = <<>> /\ waking[l] = Null
  /\ Goto(l, "run", "check")
  /\ callFunctors' = [callFunctors EXCEPT ![l] = FALSE]
  /\ UNCHANGED <<Functors, batch, eventfd, woken, quit, waking, startup,
                 queued, ran>>
-----------------------------------------------------------------------------
(* What handlers, functors and other threads call. *)

\* A loop thread calls from an event handler or a functor.
Calling(t) == /\ waking[t] = Null
              /\ t \in Loops => \/ pc[t] = "events"
                                \/ pc[t] = "run" /\ batch[t] # <<>>

\* Connections are given to loops of the pool, or to the base loop; threads
\* get to know a loop from a connection, so the base loop is running.
Callable(l) == /\ pc[Base] \in {"check", "poll", "events", "run"}
               /\ l = Base \/ l \in loops
               /\ pc[l] # "stopped"

In(k, s) == \E i \in DOMAIN s : s[i] = k

Fresh(k) == \A l \in Loops : ~In(k, queued[l])

\* Mistaken: a functor queued by another functor wakes nobody up.
ToWakeQuiet(t, l) == IF t # l THEN l ELSE Null

ToWake(t, l) == IF t # l \/ callFunctors[l] THEN l ELSE Null

\* queueInLoop, and runInLoop from another thread.  In its own thread
\* runInLoop is a plain call.
QueueInLoop(t, l, k) ==
  /\ Calling(t) /\ Callable(l) /\ Fresh(k)
  /\ Functors' = [Functors EXCEPT ![l] = Append(@, k)]
  /\ queued' = [queued EXCEPT ![l] = Append(@, k)]
  /\ waking' = [waking EXCEPT ![t] = ToWake(t, l)]
  /\ UNCHANGED <<pc, batch, callFunctors, eventfd, woken, quit, startup, ran>>

Quit(t, l) ==
  /\ Calling(t) /\ Callable(l) /\ ~quit[l]
  /\ quit' = [quit EXCEPT ![l] = TRUE]
  /\ waking' = [waking EXCEPT ![t] = IF t # l THEN l ELSE Null]
  /\ UNCHANGED <<pc, Functors, batch, callFunctors, eventfd, woken, startup,
                 queued, ran>>

Wakeup(t) ==
  /\ waking[t] # Null
  /\ eventfd' = [eventfd EXCEPT ![waking[t]] = TRUE]
  /\ waking' = [waking EXCEPT ![t] = Null]
  /\ UNCHANGED <<pc, Functors, batch, callFunctors, woken, quit, startup,
                 queued, ran>>
-----------------------------------------------------------------------------
StartStep == \/ \E l \in Pool : NewLoopThread(l)
             \/ StartLoopWait \/ StartLoopReturn \/ PoolStarted

LoopStep(l) == \/ Enter(l) \/ Check(l) \/ Poll(l) \/ HandleRead(l)
               \/ DoFunctors(l) \/ RunFunctor(l) \/ FunctorsDone(l)

Next == \/ StartStep
        \/ \E l \in Pool : Publish(l)
        \/ \E l \in Loops : LoopStep(l)
        \/ \E t \in Threads : \/ Wakeup(t)
                              \/ \E l \in Loops : Quit(t, l)
                              \/ \E l \in Loops, k \in Tasks : QueueInLoop(t, l, k)

Spec == Init /\ [][Next]_vars

\* Threads are scheduled, but no help comes from the timeout of epoll_wait,
\* from other events or from a wait that ends for no reason.
Prompt(l) == \/ Enter(l) \/ Check(l) \/ HandleRead(l)
             \/ DoFunctors(l) \/ RunFunctor(l) \/ FunctorsDone(l)
             \/ eventfd[l] /\ Poll(l)

Started == \/ \E l \in Pool : NewLoopThread(l) \/ Publish(l)
           \/ StartLoopWait \/ PoolStarted
           \/ pc[Base] = "notified" /\ StartLoopReturn

FairSpec == /\ Spec
            /\ \A l \in Loops : WF_vars(Prompt(l))
            /\ \A t \in Threads : WF_vars(Wakeup(t))
            /\ WF_vars(Started)
-----------------------------------------------------------------------------
(* Properties *)

Announced(l) == eventfd[l] \/ \E t \in Threads : waking[t] = l

\* No loop sleeps in epoll_wait over a queued functor or a call of quit,
\* unless a thread is on its way to wake it up.  The queue, the flag
\* callFunctors_ and the eventfd are changed apart from one another, and the
\* eventfd is reset before the queue is taken.
NoSleepOverWork ==
  \A l \in Loops :
    pc[l] = "poll" /\ (Functors[l] # <<>> \/ quit[l]) => Announced(l)

\* Why: a functor may be queued silently only while the loop handles events,
\* before it takes the queue; at any other time a wake-up is in the eventfd or
\* on its way, whoever queued the functor.
LoopInOrder(l) ==
  /\ pc[l] # "events" /\ Functors[l] # <<>> => Announced(l)
  /\ pc[l] = "poll" /\ quit[l] => Announced(l)
  /\ pc[l] = "run" => callFunctors[l]
  /\ pc[l] # "run" => batch[l] = <<>>

LoopsInOrder == \A l \in Loops : LoopInOrder(l)

\* Functors run in the order in which they were queued, each once, none is
\* lost between the queue and the batch.
RunInOrder == \A l \in Loops : queued[l] = ran[l] \o batch[l] \o Functors[l]

\* Every functor is run, or its loop is told to quit, without waiting for the
\* timeout of epoll_wait.
EveryFunctorRuns ==
  \A l \in Loops, k \in Tasks : In(k, Functors[l]) ~> In(k, ran[l]) \/ quit[l]
=============================================================================
