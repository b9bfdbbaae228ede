------------------------ MODULE EventPipelineProofs ------------------------
(***************************************************************************)
(* Theorems about EventPipeline, for every set of requests, everything     *)
(* they may turn out to be, and every limit.                               *)
(***************************************************************************)
EXTENDS EventPipeline, TruncationProofs

-----------------------------------------------------------------------------
(***************************************************************************)
(* What requests, the heap and the queue keep.                             *)
(***************************************************************************)
PipelineSteps == {"idle", "resolve", "build", "hook", "snapshot", "done"}
States        == {"built", "edited", "broken"}

Distinct(seq) == \A i, j \in 1..Len(seq) : seq[i] = seq[j] => i = j

\* todo is what is left of the plan: its end.
IsRest(todo, plan) ==
    /\ Len(todo) <= Len(plan)
    /\ \A i \in 1..Len(todo) : todo[i] = plan[Len(plan) - Len(todo) + i]

AnswersTo(lives) == (UNION {life.resolves : life \in lives}) \cup {Empty}

WorkStates(lives) ==
    [pc       : PipelineSteps,
     life     : lives \cup {NoLifecycle},
     resolved : AnswersTo(lives),
     used     : [EventKinds -> AnswersTo(lives)],
     todo     : Seq(EventKinds),
     returned : Refs \cup {<<>>}]

\* The local state of a request: once it has begun, it has a life, and a rest of its
\* plan to work on, which is not over while an event is at work.
IsWork(w, lives) ==
    /\ w \in WorkStates(lives)
    /\ w.pc = "idle" => w = IdleWork
    /\ w.pc # "idle" => /\ w.life \in lives
                        /\ w.resolved \in w.life.resolves \cup {Empty}
                        /\ w.used \in [EventKinds -> w.life.resolves \cup {Empty}]
                        /\ IsRest(w.todo, Plan(w.life))
                        /\ Distinct(w.todo)
    /\ w.pc = "resolve" => w.todo = Plan(w.life)
    /\ w.pc \in {"build", "hook", "snapshot"} => w.todo # <<>>
    /\ w.pc = "done" => w.todo = <<>>
    /\ w.pc # "snapshot" => w.returned = <<>>

Pending(w)    == {w.todo[i] : i \in 1..Len(w.todo)}
Planned(life) == {Plan(life)[i] : i \in 1..Len(Plan(life))}

\* A place of the heap belongs to an event of the plan that the request is done with, or
\* is at: then it was taken only if the step that takes it is over.
IsPlace(ref, w) ==
    /\ w.pc \notin {"idle", "resolve"}
    /\ ref[2] \in Planned(w.life)
    /\ ref[2] \in Pending(w) =>
          /\ ref[2] = w.todo[1]
          /\ \/ ref[3] = "event" /\ w.pc \in {"hook", "snapshot"}
             \/ ref[3] = "own" /\ w.pc = "snapshot"

\* What is offered is what was built, and fits.
IsBuilt(ref, event, w) ==
    ref[3] = "event" => event = Built(w.life, w.used[ref[2]], ref[2]) /\ Fits(event)

IsCell(c) == c = [event |-> c.event, state |-> c.state] /\ c.state \in States

WorkInv == \A r \in Requests : IsWork(work[r], Lifecycles[r])

HeapInv ==
    /\ DOMAIN heap \subseteq Refs
    /\ \A ref \in DOMAIN heap :
          /\ IsCell(heap[ref])
          /\ IsPlace(ref, work[ref[1]])
          /\ IsBuilt(ref, heap[ref].event, work[ref[1]])
    /\ \A r \in Requests :
          work[r].pc = "snapshot" =>
             work[r].returned \in DOMAIN heap /\ work[r].returned[3] # "wire"

\* The client was given copies only.
QueueInv ==
    /\ queue \in Seq([source : Requests, kind : EventKinds, ref : Refs])
    /\ \A i \in 1..Len(queue) : queue[i].ref \in DOMAIN heap /\ queue[i].ref[3] = "wire"

PipelineInv ==
    /\ DOMAIN work = Requests
    /\ WorkInv
    /\ HeapInv
    /\ QueueInv

\* The plan of a lifecycle has no kind twice.
LEMMA PlanType ==
    ASSUME NEW life
    PROVE  /\ Plan(life) \in Seq(EventKinds)
           /\ Plan(life) # <<>>
           /\ Distinct(Plan(life))
<1>1. Plan(life) \in {<<"custom">>, <<"identify", "main", "exception">>, <<"identify", "main">>,
                     <<"main", "exception">>, <<"main">>}
  BY DEF Plan
<1>2. {"custom", "identify", "main", "exception"} \subseteq EventKinds
  BY DEF EventKinds
<1>3. CASE Plan(life) = <<"custom">>
  BY <1>2, <1>3 DEF Distinct
<1>4. CASE Plan(life) = <<"identify", "main", "exception">>
  BY <1>2, <1>4 DEF Distinct
<1>5. CASE Plan(life) = <<"identify", "main">>
  BY <1>2, <1>5 DEF Distinct
<1>6. CASE Plan(life) = <<"main", "exception">>
  BY <1>2, <1>6 DEF Distinct
<1>7. CASE Plan(life) = <<"main">>
  BY <1>2, <1>7 DEF Distinct
<1> QED BY <1>1, <1>3, <1>4, <1>5, <1>6, <1>7

\* Custom events are those of Capture.
LEMMA PlannedKinds ==
    ASSUME NEW life, NEW kind \in Planned(life)
    PROVE  kind = "custom" <=> life.custom
<1>1. CASE life.custom
  <2>1. Plan(life) = <<"custom">>
    BY <1>1 DEF Plan
  <2> QED BY <1>1, <2>1 DEF Planned
<1>2. CASE ~life.custom
  <2>1. Plan(life) \in {<<"identify", "main", "exception">>, <<"identify", "main">>,
                       <<"main", "exception">>, <<"main">>}
    BY <1>2 DEF Plan
  <2>2. CASE Plan(life) = <<"identify", "main", "exception">>
    BY <1>2, <2>2 DEF Planned
  <2>3. CASE Plan(life) = <<"identify", "main">>
    BY <1>2, <2>3 DEF Planned
  <2>4. CASE Plan(life) = <<"main", "exception">>
    BY <1>2, <2>4 DEF Planned
  <2>5. CASE Plan(life) = <<"main">>
    BY <1>2, <2>5 DEF Planned
  <2> QED BY <2>1, <2>2, <2>3, <2>4, <2>5
<1> QED BY <1>1, <1>2

\* Once its current event is settled, a request has its next one at work, if any.
LEMMA SettledWork ==
    ASSUME NEW r \in Requests, IsWork(work[r], Lifecycles[r]),
           work[r].pc \in {"build", "hook", "snapshot"}
    PROVE  /\ IsWork(Settled(r), Lifecycles[r])
           /\ Settled(r).life = work[r].life /\ Settled(r).resolved = work[r].resolved
           /\ Settled(r).used = work[r].used
           /\ Settled(r).pc \in {"build", "done"}
           /\ Len(Settled(r).todo) = Len(work[r].todo) - 1
           /\ Len(work[r].todo) > 0 /\ Kind(r) = work[r].todo[1] /\ Kind(r) \in EventKinds
           /\ Kind(r) \in Planned(work[r].life)
           /\ Pending(Settled(r)) = Pending(work[r]) \ {Kind(r)}
<1> DEFINE w == work[r]
           n == Settled(r)
           k == Len(w.todo)
<1>0. w \in WorkStates(Lifecycles[r])
  BY DEF IsWork
<1>1. /\ w.todo \in Seq(EventKinds) /\ w.todo # <<>> /\ IsRest(w.todo, Plan(w.life))
      /\ Distinct(w.todo) /\ w.life \in Lifecycles[r]
      /\ w.resolved \in w.life.resolves \cup {Empty}
      /\ w.used \in [EventKinds -> w.life.resolves \cup {Empty}]
  BY DEF IsWork, WorkStates
<1>2. /\ k \in Nat /\ k > 0 /\ Kind(r) = w.todo[1] /\ Kind(r) \in EventKinds
      /\ Tail(w.todo) \in Seq(EventKinds) /\ Len(Tail(w.todo)) = k - 1
      /\ \A i \in 1..(k - 1) : Tail(w.todo)[i] = w.todo[i + 1]
  BY <1>1 DEF Kind
<1>3. /\ n \in WorkStates(Lifecycles[r])
      /\ n.pc = IF Tail(w.todo) = <<>> THEN "done" ELSE "build"
      /\ n.life = w.life /\ n.resolved = w.resolved /\ n.used = w.used
      /\ n.todo = Tail(w.todo) /\ n.returned = <<>>
  <2> DEFINE t    == Tail(w.todo)
             step == IF t = <<>> THEN "done" ELSE "build"
             end  == <<>>
  <2>1. n = [w EXCEPT !.todo = t, !.returned = end, !.pc = step]
    BY DEF Settled
  <2>2. t \in Seq(EventKinds) /\ step \in PipelineSteps /\ end \in Refs \cup {<<>>}
    BY <1>2 DEF PipelineSteps
  <2>3. \A v \in WorkStates(Lifecycles[r]) :
           LET x == [v EXCEPT !.todo = t, !.returned = end, !.pc = step]
           IN  /\ x \in WorkStates(Lifecycles[r])
               /\ x.pc = step /\ x.life = v.life /\ x.resolved = v.resolved
               /\ x.used = v.used /\ x.todo = t /\ x.returned = end
    <3> HIDE DEF t, step, end
    <3> QED BY <2>2 DEF WorkStates
  <2> QED BY <1>0, <2>1, <2>3
<1>4. Len(Plan(w.life)) \in Nat
  BY PlanType
<1>5. IsRest(n.todo, Plan(w.life))
  <2>1. n.todo = Tail(w.todo) /\ Len(n.todo) = k - 1
    BY <1>2, <1>3
  <2>0. k <= Len(Plan(w.life))
    BY <1>1 DEF IsRest
  <2>2. \A i \in 1..(k - 1) :
           /\ i + 1 \in 1..k
           /\ Len(Plan(w.life)) - k + (i + 1) = Len(Plan(w.life)) - (k - 1) + i
    BY <1>2, <1>4
  <2>3. ASSUME NEW i \in 1..(k - 1)
        PROVE  n.todo[i] = Plan(w.life)[Len(Plan(w.life)) - (k - 1) + i]
    <3>1. w.todo[i + 1] = Plan(w.life)[Len(Plan(w.life)) - k + (i + 1)]
      BY <1>1, <2>2 DEF IsRest
    <3> QED BY <1>2, <2>1, <2>2, <3>1
  <2>4. Len(n.todo) <= Len(Plan(w.life))
    BY <1>2, <1>4, <2>0, <2>1
  <2>5. \A i \in 1..Len(n.todo) :
           n.todo[i] = Plan(w.life)[Len(Plan(w.life)) - Len(n.todo) + i]
    BY <2>1, <2>3
  <2> QED BY <2>4, <2>5 DEF IsRest
<1>6. Distinct(n.todo)
  BY <1>1, <1>2, <1>3 DEF Distinct
<1>7. IsWork(n, Lifecycles[r])
  <2>1. n \in WorkStates(Lifecycles[r])
    BY <1>3
  <2> QED BY <1>1, <1>2, <1>3, <1>5, <1>6, <2>1 DEF IsWork
<1>8. Pending(n) = Pending(w) \ {Kind(r)}
  <2>1. ASSUME NEW x \in Pending(n)  PROVE x \in Pending(w) /\ x # Kind(r)
    <3>1. PICK i \in 1..(k - 1) : x = w.todo[i + 1]
      BY <1>2, <1>3 DEF Pending
    <3>2. i + 1 \in 1..k /\ 1 \in 1..k /\ i + 1 # 1
      BY <1>2, <3>1
    <3>3. x # w.todo[1]
      BY <1>1, <3>1, <3>2 DEF Distinct
    <3> QED BY <1>2, <3>1, <3>2, <3>3 DEF Pending
  <2>2. ASSUME NEW x \in Pending(w), x # Kind(r)  PROVE x \in Pending(n)
    <3>1. PICK i \in 1..k : x = w.todo[i]
      BY DEF Pending
    <3>2. i - 1 \in 1..(k - 1) /\ Tail(w.todo)[i - 1] = x
      BY <1>2, <2>2, <3>1
    <3>3. n.todo = Tail(w.todo) /\ Len(n.todo) = k - 1
      BY <1>2, <1>3
    <3> QED BY <3>2, <3>3 DEF Pending
  <2> QED BY <2>1, <2>2
<1>9. n.life = w.life /\ n.resolved = w.resolved /\ n.pc \in {"build", "done"}
      /\ n.used = w.used /\ n.todo = Tail(w.todo)
  BY <1>3
<1>10. Kind(r) \in Planned(w.life)
  <2>1. k <= Len(Plan(w.life)) /\ w.todo[1] = Plan(w.life)[Len(Plan(w.life)) - k + 1]
    <3>1. 1 \in 1..k
      BY <1>2
    <3>2. \A i \in 1..k : w.todo[i] = Plan(w.life)[Len(Plan(w.life)) - k + i]
      BY <1>1 DEF IsRest
    <3> QED BY <1>1, <3>1, <3>2 DEF IsRest
  <2>2. Len(Plan(w.life)) - k + 1 \in 1..Len(Plan(w.life))
    BY <1>2, <1>4, <2>1
  <2> QED BY <1>2, <2>1, <2>2 DEF Planned
<1> QED BY <1>2, <1>7, <1>8, <1>9, <1>10

\* Reading the map of EventProperties for an event notes what it holds, for that event.
LEMMA ReadWork ==
    ASSUME NEW r \in Requests, IsWork(work[r], Lifecycles[r]), work[r].pc = "build"
    PROVE  /\ Read(r).used \in [EventKinds -> work[r].life.resolves \cup {Empty}]
           /\ Read(r).used \in [EventKinds -> AnswersTo(Lifecycles[r])]
           /\ Read(r).used[Kind(r)] = work[r].resolved
           /\ \A kind \in EventKinds \ {Kind(r)} : Read(r).used[kind] = work[r].used[kind]
           /\ Read(r) = [work[r] EXCEPT !.used = Read(r).used]
<1> DEFINE w == work[r]
           u == [w.used EXCEPT ![Kind(r)] = w.resolved]
<1>1. /\ w \in WorkStates(Lifecycles[r]) /\ w.resolved \in w.life.resolves \cup {Empty}
      /\ w.used \in [EventKinds -> w.life.resolves \cup {Empty}]
      /\ w.used \in [EventKinds -> AnswersTo(Lifecycles[r])]
      /\ w.resolved \in AnswersTo(Lifecycles[r])
  BY DEF IsWork, WorkStates
<1>2. Kind(r) \in EventKinds
  BY SettledWork
<1>3. /\ u \in [EventKinds -> w.life.resolves \cup {Empty}]
      /\ u \in [EventKinds -> AnswersTo(Lifecycles[r])]
      /\ u[Kind(r)] = w.resolved
      /\ \A kind \in EventKinds \ {Kind(r)} : u[kind] = w.used[kind]
  BY <1>1, <1>2
<1>4. Read(r) = [w EXCEPT !.used = u]
  BY DEF Read
<1>5. \A v \in WorkStates(Lifecycles[r]) : [v EXCEPT !.used = u].used = u
  BY DEF WorkStates
<1> HIDE DEF u
<1>6. Read(r).used = u
  BY <1>1, <1>4, <1>5
<1> QED BY <1>3, <1>4, <1>6

\* Its current event is settled: by the step that built it, if it was given up.
Settles(r) ==
    \/ work' = [work EXCEPT ![r] = Settled(r)]
    \/ AtStep(r, "build") /\ work' = [work EXCEPT ![r] = GivenUp(r)]

LEMMA SettlesFacts ==
    ASSUME PipelineInv, NEW r \in Requests,
           work[r].pc \in {"build", "hook", "snapshot"}, Settles(r)
    PROVE  /\ DOMAIN work' = Requests /\ \A q \in Requests \ {r} : work'[q] = work[q]
           /\ IsWork(work'[r], Lifecycles[r])
           /\ work'[r].life = work[r].life /\ work'[r].pc \in {"build", "done"}
           /\ Len(work'[r].todo) = Len(work[r].todo) - 1
           /\ Len(work[r].todo) > 0 /\ Kind(r) = work[r].todo[1] /\ Kind(r) \in EventKinds
           /\ Kind(r) \in Planned(work[r].life)
           /\ Pending(work'[r]) = Pending(work[r]) \ {Kind(r)}
           /\ \A kind \in EventKinds :
                 kind # Kind(r) \/ work[r].pc # "build" =>
                    work'[r].used[kind] = work[r].used[kind]
           /\ work' = [work EXCEPT ![r] = GivenUp(r)] /\ work[r].pc = "build" =>
                 work'[r].used[Kind(r)] = work[r].resolved
<1> DEFINE w == work[r]
           s == Settled(r)
<1>0. DOMAIN work = Requests /\ IsWork(w, Lifecycles[r])
  BY DEF PipelineInv, WorkInv
<1>1. /\ IsWork(s, Lifecycles[r]) /\ s.life = w.life /\ s.resolved = w.resolved
      /\ s.used = w.used /\ s.pc \in {"build", "done"} /\ Len(s.todo) = Len(w.todo) - 1
      /\ Len(w.todo) > 0 /\ Kind(r) = w.todo[1] /\ Kind(r) \in EventKinds
      /\ Kind(r) \in Planned(w.life) /\ Pending(s) = Pending(w) \ {Kind(r)}
  BY <1>0, SettledWork
<1> HIDE DEF s
<1>2. DOMAIN work' = Requests /\ \A q \in Requests \ {r} : work'[q] = work[q]
  BY <1>0 DEF Settles
<1>3. ASSUME work' = [work EXCEPT ![r] = GivenUp(r)], w.pc = "build"
      PROVE  /\ IsWork(work'[r], Lifecycles[r]) /\ work'[r].life = s.life
             /\ work'[r].pc = s.pc /\ work'[r].todo = s.todo
             /\ work'[r].used = Read(r).used
  <2> DEFINE u == Read(r).used
             n == work'[r]
  <2>1. /\ u \in [EventKinds -> w.life.resolves \cup {Empty}]
        /\ u \in [EventKinds -> AnswersTo(Lifecycles[r])]
    BY <1>0, <1>3, ReadWork
  <2>2. n = [s EXCEPT !.used = u]
    BY <1>0, <1>3 DEF GivenUp, s
  <2>3. s \in WorkStates(Lifecycles[r])
    BY <1>1 DEF IsWork
  <2> HIDE DEF u, n
  <2>4. \A v \in WorkStates(Lifecycles[r]) :
           LET x == [v EXCEPT !.used = u]
           IN  /\ x \in WorkStates(Lifecycles[r])
               /\ x.pc = v.pc /\ x.life = v.life /\ x.resolved = v.resolved
               /\ x.used = u /\ x.todo = v.todo /\ x.returned = v.returned
    BY <2>1 DEF WorkStates
  <2>5. /\ n \in WorkStates(Lifecycles[r])
        /\ n.pc = s.pc /\ n.life = s.life /\ n.resolved = s.resolved
        /\ n.used = u /\ n.todo = s.todo /\ n.returned = s.returned
    BY <2>2, <2>3, <2>4
  <2>6. IsWork(n, Lifecycles[r])
    BY <1>1, <2>1, <2>5 DEF IsWork
  <2> QED BY <2>5, <2>6 DEF n, u
<1>4. CASE work' = [work EXCEPT ![r] = GivenUp(r)] /\ w.pc = "build"
  <2>1. Pending(work'[r]) = Pending(s)
    BY <1>3, <1>4 DEF Pending
  <2>2. /\ Read(r).used[Kind(r)] = w.resolved
        /\ \A kind \in EventKinds \ {Kind(r)} : Read(r).used[kind] = w.used[kind]
    BY <1>0, <1>4, ReadWork
  <2> QED BY <1>1, <1>2, <1>3, <1>4, <2>1, <2>2
<1>5. CASE ~(work' = [work EXCEPT ![r] = GivenUp(r)] /\ w.pc = "build")
  <2>1. work'[r] = s
    BY <1>0, <1>5 DEF Settles, AtStep, s
  <2> QED BY <1>1, <1>2, <1>5, <2>1
<1> QED BY <1>4, <1>5

\* A step of one request keeps what holds of the others, and of memory, if that holds
\* of its own part.
LEMMA OwnStep ==
    ASSUME PipelineInv, NEW r \in Requests,
           DOMAIN work' = Requests, IsWork(work'[r], Lifecycles[r]),
           \A q \in Requests \ {r} : work'[q] = work[q],
           DOMAIN heap \subseteq DOMAIN heap', DOMAIN heap' \subseteq Refs,
           \A ref \in DOMAIN heap : heap'[ref] = heap[ref],
           \A ref \in DOMAIN heap' :
              /\ ref \notin DOMAIN heap => ref[1] = r /\ IsCell(heap'[ref])
              /\ ref[1] = r => /\ IsPlace(ref, work'[r])
                              /\ IsBuilt(ref, heap'[ref].event, work'[r]),
           work'[r].pc = "snapshot" =>
              work'[r].returned \in DOMAIN heap' /\ work'[r].returned[3] # "wire"
    PROVE  WorkInv' /\ HeapInv'
<1>1. WorkInv'
  BY DEF PipelineInv, WorkInv
<1>2. ASSUME NEW ref \in DOMAIN heap'
      PROVE  /\ IsCell(heap'[ref])
             /\ IsPlace(ref, work'[ref[1]])
             /\ IsBuilt(ref, heap'[ref].event, work'[ref[1]])
  <2>1. ref[1] \in Requests
    BY DEF Refs
  <2>2. CASE ref[1] = r
    BY <2>2 DEF PipelineInv, HeapInv
  <2>3. CASE ref[1] # r
    BY <2>1, <2>3 DEF PipelineInv, HeapInv
  <2> QED BY <2>2, <2>3
<1>3. \A q \in Requests :
         work'[q].pc = "snapshot" =>
            work'[q].returned \in DOMAIN heap' /\ work'[q].returned[3] # "wire"
  BY DEF PipelineInv, HeapInv
<1> QED BY <1>1, <1>2, <1>3 DEF HeapInv

\* Nothing of a request is in memory before it works on its first event, and nothing
\* of an event before it is built; what is new of it is in the place of the step.
LEMMA OwnPlaces ==
    ASSUME PipelineInv, NEW r \in Requests, NEW ref \in DOMAIN heap, ref[1] = r
    PROVE  /\ work[r].pc \notin {"idle", "resolve"}
           /\ IsBuilt(ref, heap[ref].event, work[r]) /\ ref[2] \in Planned(work[r].life)
           /\ work[r].pc = "build" => ref[2] \notin Pending(work[r])
           /\ work[r].pc = "hook" /\ ref[2] \in Pending(work[r]) =>
                 ref[2] = work[r].todo[1] /\ ref[3] = "event"
           /\ ref[2] \in Pending(work[r]) => ref[2] = work[r].todo[1] /\ ref[3] # "wire"
<1>1. IsPlace(ref, work[r]) /\ IsBuilt(ref, heap[ref].event, work[r])
  BY DEF PipelineInv, HeapInv
<1> QED BY <1>1 DEF IsPlace

\* A request has settled an event, with what it left in memory.
LEMMA SettledStep ==
    ASSUME PipelineInv, NEW r \in Requests, work[r].pc \in {"build", "hook", "snapshot"},
           Settles(r),
           \/ heap' = heap
           \/ \E c : IsCell(c) /\ heap' = Put(heap, Ref(r, "wire"), c)
    PROVE  WorkInv' /\ HeapInv' /\ DOMAIN work' = Requests
<1> DEFINE w == work[r]
           n == work'[r]
<1>1. DOMAIN work = Requests /\ IsWork(w, Lifecycles[r]) /\ DOMAIN heap \subseteq Refs
  BY DEF PipelineInv, WorkInv, HeapInv
<1>2. /\ IsWork(n, Lifecycles[r]) /\ n.life = w.life
      /\ n.pc \in {"build", "done"} /\ Kind(r) = w.todo[1] /\ Kind(r) \in EventKinds
      /\ Kind(r) \in Planned(w.life)
      /\ Pending(n) = Pending(w) \ {Kind(r)}
      /\ \A kind \in EventKinds :
            kind # Kind(r) \/ w.pc # "build" => n.used[kind] = w.used[kind]
  BY SettlesFacts
<1>3. DOMAIN work' = Requests /\ \A q \in Requests \ {r} : work'[q] = work[q]
  BY SettlesFacts
<1> HIDE DEF n
<1>4. Ref(r, "wire") \in Refs /\ Ref(r, "wire")[1] = r /\ Ref(r, "wire")[2] = Kind(r)
      /\ Ref(r, "wire")[3] = "wire"
  BY <1>2 DEF Ref, Refs, Places
<1>5. Ref(r, "wire") \notin DOMAIN heap
  <2>1. Kind(r) \in Pending(w)
    BY <1>1, <1>2, SettledWork DEF Pending
  <2> QED BY <1>4, <2>1, OwnPlaces
<1>6. /\ DOMAIN heap \subseteq DOMAIN heap' /\ DOMAIN heap' \subseteq Refs
      /\ \A ref \in DOMAIN heap : heap'[ref] = heap[ref]
      /\ \A ref \in DOMAIN heap' \ DOMAIN heap : ref = Ref(r, "wire") /\ IsCell(heap'[ref])
  BY <1>1, <1>4, <1>5 DEF Put
<1>7. ASSUME NEW ref \in DOMAIN heap', ref[1] = r
      PROVE  IsPlace(ref, n) /\ IsBuilt(ref, heap'[ref].event, n)
  <2>1. CASE ref \in DOMAIN heap
    <3>1. /\ IsBuilt(ref, heap[ref].event, w) /\ ref[2] \notin Pending(n)
          /\ ref[2] \in Planned(w.life) /\ (ref[2] \in Pending(w) => w.pc # "build")
      BY <1>2, <1>7, <2>1, OwnPlaces
    <3>2. Kind(r) \in Pending(w) /\ ref[2] \in EventKinds
      BY <1>1, <1>2, <2>1, SettledWork DEF Pending, Refs
    <3>3. n.used[ref[2]] = w.used[ref[2]]
      BY <1>2, <3>1, <3>2
    <3> QED BY <1>2, <1>6, <2>1, <3>1, <3>3 DEF IsPlace, IsBuilt
  <2>2. CASE ref \notin DOMAIN heap
    BY <1>2, <1>4, <1>6, <2>2 DEF IsPlace, IsBuilt
  <2> QED BY <2>1, <2>2
<1> QED BY <1>2, <1>3, <1>4, <1>6, <1>7, OwnStep DEF n

LEMMA PipelineStart == PipelineInit => PipelineInv
<1> SUFFICES ASSUME PipelineInit PROVE PipelineInv
  OBVIOUS
<1> USE DEF PipelineInit
<1>1. DOMAIN work = Requests /\ DOMAIN heap = {} /\ queue = <<>>
  OBVIOUS
<1>2. ASSUME NEW r \in Requests  PROVE IsWork(work[r], Lifecycles[r])
  <2>1. work[r] = IdleWork
    OBVIOUS
  <2>2. IdleWork \in WorkStates(Lifecycles[r])
    <3>1. /\ Empty \in AnswersTo(Lifecycles[r])
          /\ [kind \in EventKinds |-> Empty] \in [EventKinds -> AnswersTo(Lifecycles[r])]
      BY DEF AnswersTo
    <3> QED BY <3>1 DEF IdleWork, WorkStates, PipelineSteps
  <2>3. IdleWork.pc = "idle" /\ IdleWork.returned = <<>>
    BY DEF IdleWork
  <2> QED BY <2>1, <2>2, <2>3 DEF IsWork
<1>3. \A r \in Requests : work[r].pc = "idle"
  BY DEF IdleWork
<1> QED BY <1>1, <1>2, <1>3 DEF PipelineInv, WorkInv, HeapInv, QueueInv

\* The queue stays what it is while the places in memory stay taken.
LEMMA QueueKept ==
    ASSUME QueueInv, UNCHANGED queue, DOMAIN heap \subseteq DOMAIN heap'
    PROVE  QueueInv'
BY DEF QueueInv

LEMMA BeginStep ==
    ASSUME PipelineInv, NEW r \in Requests, Begin(r)
    PROVE  PipelineInv'
<1> DEFINE w == work[r]
<1>1. /\ DOMAIN work = Requests /\ IsWork(w, Lifecycles[r]) /\ w.pc = "idle"
      /\ w = IdleWork /\ QueueInv /\ DOMAIN heap \subseteq Refs
  BY DEF PipelineInv, WorkInv, HeapInv, Begin, AtStep, IsWork
<1>2. PICK life \in Lifecycles[r] :
         work' = [work EXCEPT ![r] = [@ EXCEPT !.pc = "resolve", !.life = life,
                                               !.todo = Plan(life)]]
  BY DEF Begin
<1> DEFINE n == work'[r]
<1>3. n = [pc |-> "resolve", life |-> life, resolved |-> Empty,
           used |-> [kind \in EventKinds |-> Empty], todo |-> Plan(life), returned |-> <<>>]
  <2>1. n = [w EXCEPT !.pc = "resolve", !.life = life, !.todo = Plan(life)]
    BY <1>1, <1>2
  <2>2. n = [IdleWork EXCEPT !.pc = "resolve", !.life = life, !.todo = Plan(life)]
    BY <1>1, <2>1
  <2> HIDE DEF n
  <2> QED BY <2>2 DEF IdleWork
<1>4. DOMAIN work' = Requests /\ \A q \in Requests \ {r} : work'[q] = work[q]
  BY <1>1, <1>2
<1>5. IsWork(n, Lifecycles[r])
  <2>1. Plan(life) \in Seq(EventKinds) /\ Distinct(Plan(life)) /\ Len(Plan(life)) \in Nat
    BY PlanType
  <2>2. IsRest(n.todo, Plan(n.life))
    BY <1>3, <2>1 DEF IsRest
  <2>3. /\ Empty \in AnswersTo(Lifecycles[r])
        /\ [kind \in EventKinds |-> Empty] \in [EventKinds -> AnswersTo(Lifecycles[r])]
        /\ [kind \in EventKinds |-> Empty] \in [EventKinds -> life.resolves \cup {Empty}]
    BY DEF AnswersTo
  <2>4. n \in WorkStates(Lifecycles[r])
    BY <1>3, <2>1, <2>3 DEF WorkStates, PipelineSteps
  <2> QED BY <1>3, <2>1, <2>2, <2>3, <2>4 DEF IsWork
<1>6. \A ref \in DOMAIN heap : ref[1] # r
  BY <1>1, OwnPlaces
<1>7. UNCHANGED <<heap, queue>>
  BY DEF Begin
<1>8. n.pc # "snapshot"
  BY <1>3
<1>9. WorkInv' /\ HeapInv'
  <2> HIDE DEF n
  <2> QED BY <1>1, <1>4, <1>5, <1>6, <1>7, <1>8, OwnStep DEF n
<1> QED BY <1>1, <1>4, <1>7, <1>9, QueueKept DEF PipelineInv

\* The map of EventProperties is returned, or changed later: an event that is built
\* already has been made from what it held then.
LEMMA ResolveStep ==
    ASSUME PipelineInv, NEW r \in Requests, Resolve(r) \/ ChangeResolved(r)
    PROVE  /\ PipelineInv' /\ UNCHANGED <<heap, queue>>
           /\ work[r].pc \in {"resolve", "build"} /\ work'[r].pc = "build"
           /\ work'[r].life = work[r].life /\ work'[r].todo = work[r].todo
           /\ work'[r].used = work[r].used
           /\ \A q \in Requests \ {r} : work'[q] = work[q]
<1> DEFINE w == work[r]
<1>1. /\ DOMAIN work = Requests /\ IsWork(w, Lifecycles[r]) /\ w.pc \in {"resolve", "build"}
      /\ QueueInv /\ DOMAIN heap \subseteq Refs
  BY DEF PipelineInv, WorkInv, HeapInv, Resolve, ChangeResolved, AtStep
<1> DEFINE n == work'[r]
<1>2. PICK resolved \in w.life.resolves \cup {Empty} :
         /\ n = [w EXCEPT !.pc = "build", !.resolved = resolved]
         /\ DOMAIN work' = Requests /\ \A q \in Requests \ {r} : work'[q] = work[q]
  <2>1. CASE Resolve(r)
    BY <1>1, <2>1 DEF Resolve
  <2>2. CASE ChangeResolved(r)
    <3>1. PICK x \in w.life.resolves \cup {Empty} : work' = [work EXCEPT ![r].resolved = x]
      BY <2>2 DEF ChangeResolved
    <3>2. w \in WorkStates(Lifecycles[r]) /\ w.pc = "build"
      BY <1>1, <2>2 DEF IsWork, ChangeResolved, AtStep
    <3>3. \A v \in WorkStates(Lifecycles[r]) : v.pc = "build" =>
             [v EXCEPT !.resolved = x] = [v EXCEPT !.pc = "build", !.resolved = x]
      BY DEF WorkStates
    <3>4. n = [w EXCEPT !.resolved = x]
      BY <1>1, <3>1
    <3> QED BY <1>1, <3>1, <3>2, <3>3, <3>4
  <2> QED BY <2>1, <2>2
<1>3. /\ w \in WorkStates(Lifecycles[r]) /\ w.life \in Lifecycles[r]
      /\ w.used \in [EventKinds -> w.life.resolves \cup {Empty}]
      /\ IsRest(w.todo, Plan(w.life)) /\ Distinct(w.todo) /\ w.returned = <<>>
      /\ w.todo # <<>>
  BY <1>1, PlanType DEF IsWork
<1>4. /\ n \in WorkStates(Lifecycles[r]) /\ n.pc = "build" /\ n.life = w.life
      /\ n.resolved = resolved /\ n.used = w.used /\ n.todo = w.todo
      /\ n.returned = w.returned
  <2>1. resolved \in AnswersTo(Lifecycles[r]) /\ "build" \in PipelineSteps
    BY <1>2, <1>3 DEF AnswersTo, PipelineSteps
  <2>2. \A v \in WorkStates(Lifecycles[r]) :
           LET x == [v EXCEPT !.pc = "build", !.resolved = resolved]
           IN  /\ x \in WorkStates(Lifecycles[r])
               /\ x.pc = "build" /\ x.life = v.life /\ x.resolved = resolved
               /\ x.used = v.used /\ x.todo = v.todo /\ x.returned = v.returned
    BY <2>1 DEF WorkStates
  <2>3. n = [w EXCEPT !.pc = "build", !.resolved = resolved] /\ w \in WorkStates(Lifecycles[r])
    BY <1>2, <1>3
  <2> HIDE DEF n, w
  <2> QED BY <2>2, <2>3, ZenonT(60)
<1>5. IsWork(n, Lifecycles[r])
  BY <1>2, <1>3, <1>4 DEF IsWork
<1>6. UNCHANGED <<heap, queue>>
  BY DEF Resolve, ChangeResolved
<1>7. ASSUME NEW ref \in DOMAIN heap, ref[1] = r
      PROVE  IsPlace(ref, n) /\ IsBuilt(ref, heap[ref].event, n)
  <2>1. /\ w.pc = "build" /\ IsBuilt(ref, heap[ref].event, w)
        /\ ref[2] \in Planned(w.life) /\ ref[2] \notin Pending(w)
    BY <1>1, <1>7, OwnPlaces
  <2>2. Pending(n) = Pending(w)
    BY <1>4 DEF Pending
  <2> HIDE DEF n
  <2> QED BY <1>4, <2>1, <2>2 DEF IsPlace, IsBuilt
<1>8. WorkInv' /\ HeapInv'
  <2> HIDE DEF n
  <2> QED BY <1>1, <1>2, <1>4, <1>5, <1>6, <1>7, OwnStep DEF n
<1> QED BY <1>1, <1>2, <1>4, <1>6, <1>8, QueueKept DEF PipelineInv

\* A request moves on to the next step for the event it is at.
LEMMA MovedWork ==
    ASSUME NEW r \in Requests, DOMAIN work = Requests, IsWork(work[r], Lifecycles[r]),
           work[r].todo # <<>>, work[r].pc # "idle",
           NEW step \in {"hook", "snapshot"}, NEW ref \in Refs \cup {<<>>},
           step = "hook" => ref = <<>>,
           work' = [work EXCEPT ![r].pc = step, ![r].returned = ref]
    PROVE  /\ DOMAIN work' = Requests /\ \A q \in Requests \ {r} : work'[q] = work[q]
           /\ IsWork(work'[r], Lifecycles[r])
           /\ work'[r].pc = step /\ work'[r].returned = ref
           /\ work'[r].life = work[r].life /\ work'[r].resolved = work[r].resolved
           /\ work'[r].used = work[r].used /\ work'[r].todo = work[r].todo
<1> DEFINE w == work[r]
           n == work'[r]
<1>1. /\ w \in WorkStates(Lifecycles[r]) /\ w.life \in Lifecycles[r]
      /\ w.resolved \in w.life.resolves \cup {Empty}
      /\ w.used \in [EventKinds -> w.life.resolves \cup {Empty}]
      /\ IsRest(w.todo, Plan(w.life)) /\ Distinct(w.todo)
  BY DEF IsWork
<1>2. /\ n \in WorkStates(Lifecycles[r]) /\ n.pc = step /\ n.life = w.life
      /\ n.resolved = w.resolved /\ n.used = w.used /\ n.todo = w.todo
      /\ n.returned = ref
  <2>1. step \in PipelineSteps
    BY DEF PipelineSteps
  <2>2. n = [w EXCEPT !.pc = step, !.returned = ref]
    OBVIOUS
  <2>3. \A v \in WorkStates(Lifecycles[r]) :
           LET x == [v EXCEPT !.pc = step, !.returned = ref]
           IN  /\ x \in WorkStates(Lifecycles[r])
               /\ x.pc = step /\ x.life = v.life /\ x.resolved = v.resolved
               /\ x.used = v.used /\ x.todo = v.todo /\ x.returned = ref
    BY <2>1 DEF WorkStates
  <2> QED BY <1>1, <2>2, <2>3
<1>3. IsWork(n, Lifecycles[r])
  BY <1>1, <1>2 DEF IsWork
<1> QED BY <1>2, <1>3

\* A request has put its event together, from what the map of EventProperties held.
LEMMA BuiltWork ==
    ASSUME NEW r \in Requests, DOMAIN work = Requests, IsWork(work[r], Lifecycles[r]),
           work[r].pc = "build", work' = [work EXCEPT ![r] = [Read(r) EXCEPT !.pc = "hook"]]
    PROVE  /\ DOMAIN work' = Requests /\ \A q \in Requests \ {r} : work'[q] = work[q]
           /\ IsWork(work'[r], Lifecycles[r]) /\ work'[r].pc = "hook"
           /\ work'[r].life = work[r].life /\ work'[r].todo = work[r].todo
           /\ work'[r].used[Kind(r)] = work[r].resolved
           /\ \A kind \in EventKinds \ {Kind(r)} : work'[r].used[kind] = work[r].used[kind]
           /\ Pending(work'[r]) = Pending(work[r])
<1> DEFINE w == work[r]
           n == work'[r]
           u == Read(r).used
<1>1. /\ w \in WorkStates(Lifecycles[r]) /\ w.life \in Lifecycles[r]
      /\ w.resolved \in w.life.resolves \cup {Empty}
      /\ IsRest(w.todo, Plan(w.life)) /\ Distinct(w.todo) /\ w.todo # <<>> /\ w.returned = <<>>
  BY DEF IsWork
<1>2. /\ u \in [EventKinds -> w.life.resolves \cup {Empty}]
      /\ u \in [EventKinds -> AnswersTo(Lifecycles[r])]
      /\ u[Kind(r)] = w.resolved
      /\ \A kind \in EventKinds \ {Kind(r)} : u[kind] = w.used[kind]
      /\ Read(r) = [w EXCEPT !.used = u]
  BY ReadWork
<1>3. n = [Read(r) EXCEPT !.pc = "hook"]
  OBVIOUS
<1> HIDE DEF n, u
<1>4. \A v \in WorkStates(Lifecycles[r]) :
         LET x == [[v EXCEPT !.used = u] EXCEPT !.pc = "hook"]
         IN  /\ x \in WorkStates(Lifecycles[r])
             /\ x.pc = "hook" /\ x.life = v.life /\ x.resolved = v.resolved
             /\ x.used = u /\ x.todo = v.todo /\ x.returned = v.returned
  BY <1>2 DEF WorkStates, PipelineSteps
<1>5. /\ n \in WorkStates(Lifecycles[r])
      /\ n.pc = "hook" /\ n.life = w.life /\ n.resolved = w.resolved
      /\ n.used = u /\ n.todo = w.todo /\ n.returned = w.returned
  BY <1>1, <1>2, <1>3, <1>4
<1>6. IsWork(n, Lifecycles[r])
  BY <1>1, <1>2, <1>5 DEF IsWork
<1>7. Pending(n) = Pending(w)
  BY <1>5 DEF Pending
<1> QED BY <1>2, <1>5, <1>6, <1>7 DEF n

LEMMA BuildStep ==
    ASSUME PipelineInv, NEW r \in Requests, Build(r)
    PROVE  PipelineInv'
<1> DEFINE w     == work[r]
           built == Built(w.life, w.resolved, Kind(r))
           ref   == Ref(r, "event")
           cell  == [event |-> built, state |-> "built"]
<1>1. /\ DOMAIN work = Requests /\ IsWork(w, Lifecycles[r]) /\ w.pc = "build"
      /\ QueueInv /\ DOMAIN heap \subseteq Refs /\ UNCHANGED queue
  BY DEF PipelineInv, WorkInv, HeapInv, Build, AtStep
<1>2. CASE ~Fits(built)
  <2>1. Settles(r) /\ UNCHANGED heap
    BY <1>2 DEF Build, Settles
  <2> QED BY <1>1, <2>1, SettledStep, QueueKept DEF PipelineInv
<1>3. CASE Fits(built)
  <2>1. /\ heap' = Put(heap, ref, cell)
        /\ work' = [work EXCEPT ![r] = [Read(r) EXCEPT !.pc = "hook"]]
    BY <1>3 DEF Build
  <2>2. /\ Kind(r) = w.todo[1] /\ Kind(r) \in EventKinds /\ Kind(r) \in Pending(w)
        /\ Kind(r) \in Planned(w.life)
    BY <1>1, SettledWork DEF Pending
  <2>3. ref \in Refs /\ ref[1] = r /\ ref[2] = Kind(r) /\ ref[3] = "event"
    BY <2>2 DEF Ref, Refs, Places
  <2>4. /\ DOMAIN work' = Requests /\ \A q \in Requests \ {r} : work'[q] = work[q]
        /\ IsWork(work'[r], Lifecycles[r]) /\ work'[r].pc = "hook"
        /\ work'[r].life = w.life /\ work'[r].todo = w.todo
        /\ work'[r].used[Kind(r)] = w.resolved
        /\ \A kind \in EventKinds \ {Kind(r)} : work'[r].used[kind] = w.used[kind]
        /\ Pending(work'[r]) = Pending(w)
    BY <1>1, <2>1, BuiltWork
  <2>5. ref \notin DOMAIN heap
    BY <1>1, <2>2, <2>3, OwnPlaces
  <2> HIDE DEF w, ref, built
  <2>6. /\ DOMAIN heap \subseteq DOMAIN heap' /\ DOMAIN heap' \subseteq Refs
        /\ \A x \in DOMAIN heap : heap'[x] = heap[x]
        /\ \A x \in DOMAIN heap' \ DOMAIN heap : x = ref
        /\ heap'[ref] = cell
    BY <1>1, <2>1, <2>3, <2>5 DEF Put
  <2>7. IsCell(cell) /\ cell.event = built
    BY DEF IsCell, States
  <2>8. ASSUME NEW x \in DOMAIN heap', x[1] = r
        PROVE  IsPlace(x, work'[r]) /\ IsBuilt(x, heap'[x].event, work'[r])
    <3>1. CASE x \in DOMAIN heap
      <4>1. /\ IsBuilt(x, heap[x].event, w) /\ x[2] \notin Pending(w)
            /\ x[2] \in Planned(w.life)
        BY <1>1, <2>8, <3>1, OwnPlaces DEF w
      <4>2. x[2] \in EventKinds \ {Kind(r)}
        BY <1>1, <2>2, <3>1, <4>1 DEF Refs
      <4>3. work'[r].used[x[2]] = w.used[x[2]]
        BY <2>4, <4>2
      <4> QED BY <2>4, <2>6, <3>1, <4>1, <4>3 DEF IsPlace, IsBuilt
    <3>2. CASE x \notin DOMAIN heap
      <4>1. x = ref /\ heap'[x].event = built
        BY <2>6, <2>7, <3>2
      <4>2. IsPlace(ref, work'[r])
        BY <2>2, <2>3, <2>4 DEF IsPlace
      <4>3. IsBuilt(ref, built, work'[r])
        BY <1>3, <2>3, <2>4 DEF IsBuilt, built
      <4> QED BY <4>1, <4>2, <4>3
    <3> QED BY <3>1, <3>2
  <2>9. WorkInv' /\ HeapInv'
    BY <2>3, <2>4, <2>6, <2>7, <2>8, OwnStep
  <2> QED BY <1>1, <2>4, <2>6, <2>9, QueueKept DEF PipelineInv
<1> QED BY <1>2, <1>3

LEMMA HookReturnsStep ==
    ASSUME PipelineInv, NEW r \in Requests, HookReturns(r)
    PROVE  PipelineInv'
<1> DEFINE w == work[r]
<1>1. /\ DOMAIN work = Requests /\ IsWork(w, Lifecycles[r]) /\ w.pc = "hook" /\ w.todo # <<>>
      /\ QueueInv /\ DOMAIN heap \subseteq Refs /\ UNCHANGED <<heap, queue>>
  BY DEF PipelineInv, WorkInv, HeapInv, HookReturns, AtStep, IsWork
<1>2. PICK ref \in {held \in Held : held[1] = r} :
         work' = [work EXCEPT ![r].pc = "snapshot", ![r].returned = ref]
  BY DEF HookReturns
<1>3. ref \in DOMAIN heap /\ ref \in Refs /\ ref[3] # "wire"
  BY <1>1, <1>2 DEF Held
<1>4. /\ DOMAIN work' = Requests /\ \A q \in Requests \ {r} : work'[q] = work[q]
      /\ IsWork(work'[r], Lifecycles[r]) /\ work'[r].pc = "snapshot"
      /\ work'[r].returned = ref /\ work'[r].life = w.life
      /\ work'[r].used = w.used /\ work'[r].todo = w.todo
  BY <1>1, <1>2, <1>3, MovedWork
<1>5. ASSUME NEW x \in DOMAIN heap, x[1] = r
      PROVE  IsPlace(x, work'[r]) /\ IsBuilt(x, heap[x].event, work'[r])
  <2>1. /\ IsBuilt(x, heap[x].event, w) /\ x[2] \in Planned(w.life)
        /\ x[2] \in Pending(w) => x[2] = w.todo[1] /\ x[3] = "event"
    BY <1>1, <1>5, OwnPlaces
  <2>2. Pending(work'[r]) = Pending(w)
    BY <1>4 DEF Pending
  <2> QED BY <1>4, <2>1, <2>2 DEF IsPlace, IsBuilt
<1>6. WorkInv' /\ HeapInv'
  BY <1>1, <1>3, <1>4, <1>5, OwnStep
<1> QED BY <1>1, <1>4, <1>6, QueueKept DEF PipelineInv

LEMMA HookReplacesStep ==
    ASSUME PipelineInv, NEW r \in Requests, HookReplaces(r)
    PROVE  PipelineInv'
<1> DEFINE w    == work[r]
           ref  == Ref(r, "own")
           cell == [event |-> CustomersOwn, state |-> "built"]
<1>1. /\ DOMAIN work = Requests /\ IsWork(w, Lifecycles[r]) /\ w.pc = "hook" /\ w.todo # <<>>
      /\ QueueInv /\ DOMAIN heap \subseteq Refs /\ UNCHANGED queue
  BY DEF PipelineInv, WorkInv, HeapInv, HookReplaces, AtStep, IsWork
<1>2. /\ heap' = Put(heap, ref, cell)
      /\ work' = [work EXCEPT ![r].pc = "snapshot", ![r].returned = ref]
  BY DEF HookReplaces
<1>3. /\ Kind(r) = w.todo[1] /\ Kind(r) \in EventKinds
      /\ Kind(r) \in Pending(w) /\ Kind(r) \in Planned(w.life)
  BY <1>1, SettledWork DEF Pending
<1>4. ref \in Refs /\ ref[1] = r /\ ref[2] = Kind(r) /\ ref[3] = "own"
  BY <1>3 DEF Ref, Refs, Places
<1> HIDE DEF ref
<1>5. /\ DOMAIN work' = Requests /\ \A q \in Requests \ {r} : work'[q] = work[q]
      /\ IsWork(work'[r], Lifecycles[r]) /\ work'[r].pc = "snapshot"
      /\ work'[r].returned = ref /\ work'[r].life = w.life
      /\ work'[r].used = w.used /\ work'[r].todo = w.todo
  <2>1. ref \in Refs \cup {<<>>} /\ "snapshot" \in {"hook", "snapshot"}
    BY <1>4
  <2>2. w.todo # <<>> /\ w.pc # "idle" /\ IsWork(w, Lifecycles[r]) /\ DOMAIN work = Requests
    BY <1>1
  <2>3. work' = [work EXCEPT ![r].pc = "snapshot", ![r].returned = ref]
    BY <1>2
  <2> QED BY <2>1, <2>2, <2>3, MovedWork, ZenonT(60)
<1>6. ref \notin DOMAIN heap
  BY <1>1, <1>3, <1>4, OwnPlaces
<1>7. /\ DOMAIN heap \subseteq DOMAIN heap' /\ DOMAIN heap' \subseteq Refs
      /\ \A x \in DOMAIN heap : heap'[x] = heap[x]
      /\ \A x \in DOMAIN heap' \ DOMAIN heap : x = ref
      /\ ref \in DOMAIN heap' /\ heap'[ref] = cell
  BY <1>1, <1>2, <1>4, <1>6 DEF Put
<1>8. IsCell(cell)
  BY DEF IsCell, States
<1>9. ASSUME NEW x \in DOMAIN heap', x[1] = r
      PROVE  IsPlace(x, work'[r]) /\ IsBuilt(x, heap'[x].event, work'[r])
  <2>1. Pending(work'[r]) = Pending(w)
    BY <1>5 DEF Pending
  <2>2. CASE x \in DOMAIN heap
    <3>1. /\ IsBuilt(x, heap[x].event, w) /\ x[2] \in Planned(w.life)
          /\ x[2] \in Pending(w) => x[2] = w.todo[1] /\ x[3] = "event"
      BY <1>1, <1>9, <2>2, OwnPlaces
    <3> QED BY <1>5, <1>7, <2>1, <2>2, <3>1 DEF IsPlace, IsBuilt
  <2>3. CASE x \notin DOMAIN heap
    BY <1>3, <1>4, <1>5, <1>7, <2>3 DEF IsPlace, IsBuilt
  <2> QED BY <2>2, <2>3
<1>10. WorkInv' /\ HeapInv'
  BY <1>4, <1>5, <1>7, <1>8, <1>9, OwnStep
<1> QED BY <1>1, <1>5, <1>7, <1>10, QueueKept DEF PipelineInv

\* What is enqueued is a copy in a place that was free.
LEMMA EnqueueStep ==
    ASSUME PipelineInv, NEW r \in Requests, Enqueue(r)
    PROVE  /\ PipelineInv'
           /\ work[r].pc = "snapshot" /\ Kind(r) = work[r].todo[1]
           /\ Ref(r, "wire") \notin DOMAIN heap
           /\ \A ref \in DOMAIN heap : heap'[ref] = heap[ref]
<1> DEFINE w    == work[r]
           ref  == Ref(r, "wire")
           item == [source |-> r, kind |-> Kind(r), ref |-> ref]
<1>1. /\ DOMAIN work = Requests /\ IsWork(w, Lifecycles[r]) /\ w.pc = "snapshot"
      /\ QueueInv /\ HeapInv
  BY DEF PipelineInv, WorkInv, Enqueue, AtStep
<1>2. /\ heap' = Put(heap, ref, Returned(r))
      /\ queue' = Append(queue, item)
      /\ work' = [work EXCEPT ![r] = Settled(r)]
  BY DEF Enqueue
<1>3. Kind(r) = w.todo[1] /\ Kind(r) \in EventKinds /\ Kind(r) \in Pending(w)
  BY <1>1, SettledWork DEF Pending
<1>4. ref \in Refs /\ ref[1] = r /\ ref[2] = Kind(r) /\ ref[3] = "wire"
  BY <1>3 DEF Ref, Refs, Places
<1>5. ref \notin DOMAIN heap
  BY <1>1, <1>3, <1>4, OwnPlaces
<1>6. IsCell(Returned(r))
  BY <1>1 DEF HeapInv, Returned
<1>7. WorkInv' /\ HeapInv' /\ DOMAIN work' = Requests
  BY <1>1, <1>2, <1>6, SettledStep DEF Settles
<1> HIDE DEF ref
<1>8. DOMAIN heap' = DOMAIN heap \cup {ref} /\ \A x \in DOMAIN heap : heap'[x] = heap[x]
  BY <1>2, <1>5 DEF Put
<1>9. QueueInv'
  <2>1. item \in [source : Requests, kind : EventKinds, ref : Refs] /\ item.ref = ref
    BY <1>3, <1>4
  <2> HIDE DEF item
  <2>2. queue' \in Seq([source : Requests, kind : EventKinds, ref : Refs])
    BY <1>1, <1>2, <2>1 DEF QueueInv
  <2>3. ASSUME NEW i \in 1..Len(queue')
        PROVE  queue'[i].ref \in DOMAIN heap' /\ queue'[i].ref[3] = "wire"
    <3>1. CASE i \in 1..Len(queue)
      BY <1>1, <1>2, <1>8, <2>1, <3>1 DEF QueueInv
    <3>2. CASE i = Len(queue) + 1
      BY <1>1, <1>2, <1>4, <1>8, <2>1, <3>2 DEF QueueInv
    <3> QED BY <1>1, <1>2, <2>1, <3>1, <3>2 DEF QueueInv
  <2> QED BY <2>2, <2>3 DEF QueueInv
<1> QED BY <1>1, <1>3, <1>5, <1>7, <1>8, <1>9 DEF PipelineInv, ref

\* An event is lost.
LEMMA LostStep ==
    ASSUME PipelineInv, NEW r \in Requests, HookDrops(r) \/ EnqueueFails(r)
    PROVE  PipelineInv'
<1>1. /\ work[r].pc \in {"hook", "snapshot"}
      /\ work' = [work EXCEPT ![r] = Settled(r)] /\ UNCHANGED <<heap, queue>>
  BY DEF HookDrops, EnqueueFails, AtStep
<1> QED BY <1>1, SettledStep, QueueKept DEF PipelineInv, Settles

\* The customer changes events it holds only, which are no copies.
LEMMA ScribbleStep ==
    ASSUME PipelineInv, Scribble
    PROVE  /\ PipelineInv'
           /\ \A ref \in DOMAIN heap : ref[3] = "wire" => heap'[ref] = heap[ref]
<1>1. PICK ref \in Held, state \in {"edited", "broken"} :
         heap' = [heap EXCEPT ![ref].state = state]
  BY DEF Scribble
<1>2. /\ UNCHANGED <<work, queue>> /\ ref \in DOMAIN heap /\ ref[3] # "wire"
      /\ DOMAIN heap' = DOMAIN heap /\ IsCell(heap[ref])
      /\ \A x \in DOMAIN heap \ {ref} : heap'[x] = heap[x]
      /\ heap'[ref] = [heap[ref] EXCEPT !.state = state]
  BY <1>1 DEF Scribble, Held, PipelineInv, HeapInv
<1>3. IsCell(heap'[ref]) /\ heap'[ref].event = heap[ref].event
  BY <1>1, <1>2 DEF IsCell, States
<1>4. HeapInv'
  <2>1. ASSUME NEW x \in DOMAIN heap'
        PROVE  /\ IsCell(heap'[x]) /\ IsPlace(x, work'[x[1]])
               /\ IsBuilt(x, heap'[x].event, work'[x[1]])
    <3>1. IsCell(heap[x]) /\ IsPlace(x, work[x[1]]) /\ IsBuilt(x, heap[x].event, work[x[1]])
      BY <1>2 DEF PipelineInv, HeapInv
    <3>2. IsCell(heap'[x]) /\ heap'[x].event = heap[x].event
      BY <1>2, <1>3, <3>1
    <3> QED BY <1>2, <3>1, <3>2
  <2> QED BY <1>2, <2>1 DEF PipelineInv, HeapInv
<1> QED BY <1>2, <1>4, QueueKept DEF PipelineInv, WorkInv

LEMMA PipelineInvStep == PipelineInv /\ [PipelineNext]_pipelineVars => PipelineInv'
<1> SUFFICES ASSUME PipelineInv, [PipelineNext]_pipelineVars PROVE PipelineInv'
  OBVIOUS
<1>1. CASE UNCHANGED pipelineVars
  BY <1>1 DEF pipelineVars, PipelineInv, WorkInv, HeapInv, QueueInv
<1>2. CASE Scribble
  BY <1>2, ScribbleStep
<1>3. ASSUME NEW r \in Requests, Begin(r) \/ PipelineStep(r)  PROVE PipelineInv'
  BY <1>3, BeginStep, ResolveStep, BuildStep, HookReturnsStep, HookReplacesStep, LostStep,
     EnqueueStep DEF PipelineStep
<1> QED BY <1>1, <1>2, <1>3 DEF PipelineNext

THEOREM PipelineInvariant == PipelineSpec => []PipelineInv
BY PipelineStart, PipelineInvStep, PTL DEF PipelineSpec
-----------------------------------------------------------------------------
(***************************************************************************)
(* The types of the state, and the promise of EventFeed.                   *)
(***************************************************************************)
\* Every variable holds what the code can put there, for every set of requests: what
\* EventProperties returned are values, what a hook has returned is in memory and is
\* not the client's copy.
THEOREM PipelineTypes == PipelineSpec => []PipelineTypeOK
<1>1. ASSUME PipelineInv  PROVE PipelineTypeOK
  <2>1. ASSUME NEW r \in Requests
        PROVE  /\ work[r].pc \in {"idle", "resolve", "build", "hook", "snapshot", "done"}
               /\ work[r].life \in Lifecycles[r] \cup {NoLifecycle}
               /\ work[r].todo \in Seq(EventKinds)
    <3>1. work[r] \in WorkStates(Lifecycles[r])
      BY <1>1 DEF PipelineInv, WorkInv, IsWork
    <3> QED BY <3>1 DEF WorkStates, PipelineSteps
  <2>2. ASSUME NEW r \in Requests
        PROVE  /\ IsAnswer(work[r].resolved) /\ DOMAIN work[r].used = EventKinds
               /\ \A kind \in EventKinds : IsAnswer(work[r].used[kind])
    <3>1. IsWork(work[r], Lifecycles[r])
      BY <1>1 DEF PipelineInv, WorkInv
    <3>2. IsAnswer(Empty)
      BY DEF Empty, IsAnswer
    <3>3. CASE work[r].pc = "idle"
      BY <3>1, <3>2, <3>3 DEF IsWork, IdleWork
    <3>4. CASE work[r].pc # "idle"
      <4>1. /\ work[r].life \in Lifecycles[r]
            /\ work[r].resolved \in work[r].life.resolves \cup {Empty}
            /\ work[r].used \in [EventKinds -> work[r].life.resolves \cup {Empty}]
        BY <3>1, <3>4 DEF IsWork
      <4>2. \A resolved \in work[r].life.resolves : IsAnswer(resolved)
        BY <4>1, PipelineAssumption DEF IsLifecycle, IsTree, IsLeaf, IsAnswer
      <4> QED BY <3>2, <4>1, <4>2
    <3> QED BY <3>3, <3>4
  <2>3. ASSUME NEW r \in Requests
        PROVE  work[r].returned \in IF AtStep(r, "snapshot") THEN Held ELSE {<<>>}
    BY <1>1 DEF PipelineInv, WorkInv, HeapInv, IsWork, AtStep, Held
  <2>4. DOMAIN heap \subseteq Refs /\ \A ref \in DOMAIN heap : heap[ref].state \in States
    BY <1>1 DEF PipelineInv, HeapInv, IsCell
  <2>5. \A i \in DOMAIN queue : queue[i].ref \in DOMAIN heap
    BY <1>1 DEF PipelineInv, QueueInv
  <2> QED BY <2>1, <2>2, <2>3, <2>4, <2>5 DEF PipelineTypeOK, States
<1> QED BY <1>1, PipelineInvariant, PTL

\* What the customer may do to memory never reaches the client's copies.
LEMMA CopiesKept ==
    ASSUME PipelineInv, PipelineInv', [PipelineNext]_pipelineVars
    PROVE  \A ref \in DOMAIN heap : ref[3] = "wire" => heap'[ref] = heap[ref]
<1>1. CASE UNCHANGED pipelineVars
  BY <1>1 DEF pipelineVars
<1>2. CASE Scribble
  BY <1>2, ScribbleStep
<1>3. ASSUME NEW r \in Requests, Begin(r) \/ PipelineStep(r)
      PROVE  \A ref \in DOMAIN heap : ref[3] = "wire" => heap'[ref] = heap[ref]
  <2>1. CASE Begin(r) \/ Resolve(r) \/ ChangeResolved(r) \/ HookReturns(r) \/ HookDrops(r)
            \/ EnqueueFails(r)
    BY <2>1 DEF Begin, Resolve, ChangeResolved, HookReturns, HookDrops, EnqueueFails
  <2>2. CASE Build(r) \/ HookReplaces(r)
    BY <2>2 DEF Build, HookReplaces, Put, Ref
  <2>3. CASE Enqueue(r)
    BY <2>3, EnqueueStep
  <2> QED BY <1>3, <2>1, <2>2, <2>3 DEF PipelineStep
<1> QED BY <1>1, <1>2, <1>3 DEF PipelineNext

\* What EventFeed sees of the state.
FeedOf == [i \in DOMAIN queue |-> [source  |-> queue[i].source,
                                   kind    |-> queue[i].kind,
                                   content |-> heap[queue[i].ref]]]
PlanOf == [r \in Requests |-> IF AtStep(r, "idle") THEN <<>> ELSE Plan(work[r].life)]
SettledOf == [r \in Requests |-> IF AtStep(r, "idle") THEN 0
                                 ELSE Len(Plan(work[r].life)) - Len(work[r].todo)]

\* No step but Enqueue changes the feed.
LEMMA FeedKept ==
    ASSUME PipelineInv, PipelineInv', [PipelineNext]_pipelineVars, UNCHANGED queue
    PROVE  FeedOf' = FeedOf
<1>1. \A i \in DOMAIN queue : queue[i].ref \in DOMAIN heap /\ queue[i].ref[3] = "wire"
  BY DEF PipelineInv, QueueInv
<1>2. \A i \in DOMAIN queue : heap'[queue[i].ref] = heap[queue[i].ref]
  BY <1>1, CopiesKept
<1> QED BY <1>2 DEF FeedOf

\* The local state of the others, as EventFeed sees it, stays as it is.
LEMMA OthersKept ==
    ASSUME NEW r \in Requests, NEW q \in Requests, work'[q] = work[q]
    PROVE  PlanOf'[q] = PlanOf[q] /\ SettledOf'[q] = SettledOf[q]
BY DEF PlanOf, SettledOf, AtStep

\* Settling an event advances its request by one.
LEMMA SettledAdvances ==
    ASSUME PipelineInv, NEW r \in Requests, work[r].pc \in {"build", "hook", "snapshot"},
           Settles(r)
    PROVE  /\ SettledOf[r] \in Nat /\ SettledOf[r] < Len(PlanOf[r])
           /\ SettledOf' = [SettledOf EXCEPT ![r] = @ + 1]
           /\ PlanOf' = PlanOf
           /\ work[r].todo[1] = PlanOf[r][SettledOf[r] + 1]
<1> DEFINE w == work[r]
           n == work'[r]
<1>1. DOMAIN work = Requests /\ IsWork(w, Lifecycles[r])
  BY DEF PipelineInv, WorkInv
<1>2. /\ n.life = w.life /\ n.pc \in {"build", "done"} /\ Len(n.todo) = Len(w.todo) - 1
      /\ Len(w.todo) > 0
  BY SettlesFacts
<1>3. \A q \in Requests \ {r} : work'[q] = work[q]
  BY SettlesFacts
<1>4. w.todo \in Seq(EventKinds) /\ IsRest(w.todo, Plan(w.life)) /\ Len(Plan(w.life)) \in Nat
  BY <1>1, PlanType DEF IsWork, WorkStates
<1>5. PlanOf[r] = Plan(w.life) /\ SettledOf[r] = Len(Plan(w.life)) - Len(w.todo)
  BY DEF PlanOf, SettledOf, AtStep
<1>6. PlanOf'[r] = Plan(w.life) /\ SettledOf'[r] = Len(Plan(w.life)) - (Len(w.todo) - 1)
  BY <1>2, <1>3 DEF PlanOf, SettledOf, AtStep
<1>7. \A q \in Requests \ {r} : PlanOf'[q] = PlanOf[q] /\ SettledOf'[q] = SettledOf[q]
  BY <1>3, OthersKept
<1>8. /\ PlanOf = [q \in Requests |-> PlanOf[q]] /\ PlanOf' = [q \in Requests |-> PlanOf'[q]]
      /\ SettledOf = [q \in Requests |-> SettledOf[q]]
      /\ SettledOf' = [q \in Requests |-> SettledOf'[q]]
  BY DEF PlanOf, SettledOf
<1>9. SettledOf[r] \in Nat /\ SettledOf[r] < Len(PlanOf[r]) /\ SettledOf'[r] = SettledOf[r] + 1
  <2>1. Len(w.todo) \in Nat /\ Len(w.todo) <= Len(Plan(w.life))
    BY <1>4 DEF IsRest
  <2>2. \A a, b \in Nat : b > 0 /\ b <= a =>
           a - b \in Nat /\ a - b < a /\ a - (b - 1) = (a - b) + 1
    OBVIOUS
  <2>3. Len(PlanOf[r]) = Len(Plan(w.life))
    BY <1>5
  <2> QED BY <1>2, <1>4, <1>5, <1>6, <2>1, <2>2, <2>3
<1>10. SettledOf' = [SettledOf EXCEPT ![r] = @ + 1] /\ PlanOf' = PlanOf
  BY <1>5, <1>6, <1>7, <1>8, <1>9
<1>11. w.todo[1] = PlanOf[r][SettledOf[r] + 1]
  <2>1. 1 \in 1..Len(w.todo)
    BY <1>2, <1>4
  <2>2. w.todo[1] = Plan(w.life)[Len(Plan(w.life)) - Len(w.todo) + 1]
    BY <1>4, <2>1 DEF IsRest
  <2> QED BY <1>5, <2>2
<1> QED BY <1>9, <1>10, <1>11

\* A request that moves on with the event it is at looks the same.
LEMMA MoveStutters ==
    ASSUME PipelineInv, PipelineInv', NEW r \in Requests,
           \/ Resolve(r) \/ ChangeResolved(r) \/ HookReturns(r) \/ HookReplaces(r)
           \/ Build(r) /\ work' = [work EXCEPT ![r] = [Read(r) EXCEPT !.pc = "hook"]]
    PROVE  PlanOf' = PlanOf /\ SettledOf' = SettledOf /\ UNCHANGED queue
<1>1. DOMAIN work = Requests /\ work[r] \in WorkStates(Lifecycles[r])
  BY DEF PipelineInv, WorkInv, IsWork
<1>2. /\ work[r].pc # "idle" /\ work'[r].pc # "idle"
      /\ work'[r].life = work[r].life /\ work'[r].todo = work[r].todo
      /\ \A q \in Requests \ {r} : work'[q] = work[q]
      /\ UNCHANGED queue
  <2>1. CASE Resolve(r) \/ ChangeResolved(r)
    BY <2>1, ResolveStep
  <2>2. CASE Build(r) /\ work' = [work EXCEPT ![r] = [Read(r) EXCEPT !.pc = "hook"]]
    BY <2>2, BuiltWork DEF PipelineInv, WorkInv, Build, AtStep
  <2>3. CASE HookReturns(r)
    <3>1. PICK x : work' = [work EXCEPT ![r].pc = "snapshot", ![r].returned = x]
      BY <2>3 DEF HookReturns
    <3> QED BY <1>1, <2>3, <3>1 DEF HookReturns, AtStep, WorkStates
  <2>4. CASE HookReplaces(r)
    <3>1. PICK x : work' = [work EXCEPT ![r].pc = "snapshot", ![r].returned = x]
      BY <2>4 DEF HookReplaces
    <3> QED BY <1>1, <2>4, <3>1 DEF HookReplaces, AtStep, WorkStates
  <2> QED BY <2>1, <2>2, <2>3, <2>4
<1>3. ASSUME NEW q \in Requests  PROVE PlanOf'[q] = PlanOf[q] /\ SettledOf'[q] = SettledOf[q]
  <2>1. CASE q = r
    BY <1>2, <2>1 DEF PlanOf, SettledOf, AtStep
  <2>2. CASE q # r
    BY <1>2, <2>2, OthersKept
  <2> QED BY <2>1, <2>2
<1>4. /\ PlanOf = [q \in Requests |-> PlanOf[q]] /\ PlanOf' = [q \in Requests |-> PlanOf'[q]]
      /\ SettledOf = [q \in Requests |-> SettledOf[q]]
      /\ SettledOf' = [q \in Requests |-> SettledOf'[q]]
  BY DEF PlanOf, SettledOf
<1> QED BY <1>2, <1>3, <1>4

LEMMA BeginStarts ==
    ASSUME PipelineInv, PipelineInv', NEW r \in Requests, Begin(r)
    PROVE  Feed!Start(r)
<1> DEFINE w == work[r]
<1>1. DOMAIN work = Requests /\ w.pc = "idle" /\ w = IdleWork
  BY DEF PipelineInv, WorkInv, Begin, AtStep, IsWork
<1>2. PICK life \in Lifecycles[r] :
         work' = [work EXCEPT ![r] = [@ EXCEPT !.pc = "resolve", !.life = life,
                                               !.todo = Plan(life)]]
  BY DEF Begin
<1>3. work'[r].pc = "resolve" /\ work'[r].life = life /\ work'[r].todo = Plan(life)
  <2>1. work'[r] = [IdleWork EXCEPT !.pc = "resolve", !.life = life, !.todo = Plan(life)]
    BY <1>1, <1>2
  <2> QED BY <2>1 DEF IdleWork
<1>4. \A q \in Requests \ {r} : work'[q] = work[q]
  BY <1>1, <1>2
<1>5. PlanOf[r] = <<>> /\ SettledOf[r] = 0
  BY <1>1 DEF PlanOf, SettledOf, AtStep
<1>6. PlanOf'[r] = Plan(life) /\ SettledOf'[r] = 0
  BY <1>3, PlanType DEF PlanOf, SettledOf, AtStep
<1>7. \A q \in Requests \ {r} : PlanOf'[q] = PlanOf[q] /\ SettledOf'[q] = SettledOf[q]
  BY <1>4, OthersKept
<1>8. /\ PlanOf = [q \in Requests |-> PlanOf[q]] /\ PlanOf' = [q \in Requests |-> PlanOf'[q]]
      /\ SettledOf = [q \in Requests |-> SettledOf[q]]
      /\ SettledOf' = [q \in Requests |-> SettledOf'[q]]
  BY DEF PlanOf, SettledOf
<1>9. PlanOf' = [PlanOf EXCEPT ![r] = Plan(life)] /\ SettledOf' = SettledOf
  BY <1>5, <1>6, <1>7, <1>8
<1>10. Plan(life) \in UNION {{Plan(l) : l \in Lifecycles[q]} : q \in Requests}
  OBVIOUS
<1>11. FeedOf' = FeedOf
  BY FeedKept DEF Begin, PipelineNext
<1> QED BY <1>5, <1>9, <1>10, <1>11 DEF Feed!Start, PlanOf, SettledOf, FeedOf

LEMMA SettledIsLost ==
    ASSUME PipelineInv, PipelineInv', [PipelineNext]_pipelineVars, NEW r \in Requests,
           work[r].pc \in {"build", "hook", "snapshot"},
           Settles(r), UNCHANGED queue
    PROVE  Feed!Lose(r)
<1>1. FeedOf' = FeedOf
  BY FeedKept
<1> QED BY <1>1, SettledAdvances DEF Feed!Lose, Feed!Settle, PlanOf, SettledOf, FeedOf

LEMMA EnqueueSends ==
    ASSUME PipelineInv, PipelineInv', NEW r \in Requests, Enqueue(r)
    PROVE  Feed!Send(r)
<1>1. /\ work[r].pc = "snapshot" /\ Kind(r) = work[r].todo[1]
      /\ \A ref \in DOMAIN heap : heap'[ref] = heap[ref]
  BY EnqueueStep
<1>2. queue \in Seq([source : Requests, kind : EventKinds, ref : Refs])
      /\ \A i \in 1..Len(queue) : queue[i].ref \in DOMAIN heap
  BY DEF PipelineInv, QueueInv
<1>3. work' = [work EXCEPT ![r] = Settled(r)]
      /\ queue' = Append(queue, [source |-> r, kind |-> Kind(r), ref |-> Ref(r, "wire")])
  BY DEF Enqueue
<1> DEFINE item == [source |-> r, kind |-> Kind(r), ref |-> Ref(r, "wire")]
           n == Len(queue)
<1>4. /\ n \in Nat /\ DOMAIN queue = 1..n /\ DOMAIN queue' = 1..(n + 1)
      /\ \A i \in 1..n : queue'[i] = queue[i]
      /\ queue'[n + 1] = item /\ item.source = r /\ item.kind = Kind(r)
  BY <1>2, <1>3
<1>5. Len(FeedOf) = n /\ Len(FeedOf') = n + 1
  BY <1>4 DEF FeedOf
<1>6. ASSUME NEW i \in 1..n  PROVE FeedOf'[i] = FeedOf[i]
  BY <1>1, <1>2, <1>4 DEF FeedOf
<1>7. FeedOf'[n + 1].source = r /\ FeedOf'[n + 1].kind = work[r].todo[1]
  BY <1>1, <1>4 DEF FeedOf
<1>8. /\ SettledOf[r] < Len(PlanOf[r]) /\ SettledOf' = [SettledOf EXCEPT ![r] = @ + 1]
      /\ PlanOf' = PlanOf /\ work[r].todo[1] = PlanOf[r][SettledOf[r] + 1]
  BY <1>1, <1>3, SettledAdvances DEF Settles
<1>9. /\ Len(FeedOf') = Len(FeedOf) + 1
      /\ \A i \in 1..Len(FeedOf) : FeedOf'[i] = FeedOf[i]
      /\ FeedOf'[Len(FeedOf')].source = r
      /\ FeedOf'[Len(FeedOf')].kind = PlanOf[r][SettledOf[r] + 1]
  BY <1>5, <1>6, <1>7, <1>8
<1> QED BY <1>8, <1>9 DEF Feed!Send, Feed!Settle, PlanOf, SettledOf, FeedOf

LEMMA PipelineStepRefines ==
    PipelineInv /\ PipelineInv' /\ [PipelineNext]_pipelineVars => [Feed!Next]_(Feed!feedVars)
<1> SUFFICES ASSUME PipelineInv, PipelineInv', [PipelineNext]_pipelineVars
             PROVE  Feed!Next \/ UNCHANGED <<FeedOf, PlanOf, SettledOf>>
  BY DEF Feed!feedVars, FeedOf, PlanOf, SettledOf
<1>1. CASE UNCHANGED pipelineVars
  BY <1>1 DEF pipelineVars, FeedOf, PlanOf, SettledOf, AtStep
<1>2. CASE Scribble
  <2>1. FeedOf' = FeedOf /\ UNCHANGED work
    BY <1>2, FeedKept DEF Scribble
  <2> QED BY <2>1 DEF PlanOf, SettledOf, AtStep
<1>3. ASSUME NEW r \in Requests, Begin(r) \/ PipelineStep(r)
      PROVE  Feed!Next \/ UNCHANGED <<FeedOf, PlanOf, SettledOf>>
  <2>1. CASE Begin(r)
    BY <2>1, BeginStarts DEF Feed!Next
  <2>2. CASE Resolve(r) \/ ChangeResolved(r) \/ HookReturns(r) \/ HookReplaces(r)
    BY <2>2, MoveStutters, FeedKept
  <2>3. CASE Build(r)
    <3>1. CASE work' = [work EXCEPT ![r] = GivenUp(r)]
      BY <2>3, <3>1, SettledIsLost DEF Build, AtStep, Settles, Feed!Next
    <3>2. CASE work' = [work EXCEPT ![r] = [Read(r) EXCEPT !.pc = "hook"]]
      BY <2>3, <3>2, MoveStutters, FeedKept DEF Build
    <3> QED BY <2>3, <3>1, <3>2 DEF Build
  <2>4. CASE HookDrops(r) \/ EnqueueFails(r)
    BY <2>4, SettledIsLost DEF HookDrops, EnqueueFails, AtStep, Settles, Feed!Next
  <2>5. CASE Enqueue(r)
    BY <2>5, EnqueueSends DEF Feed!Next
  <2> QED BY <1>3, <2>1, <2>2, <2>3, <2>4, <2>5 DEF PipelineStep
<1> QED BY <1>1, <1>2, <1>3 DEF PipelineNext

\* The client's feed is what EventFeed promises, for any number of requests: of the
\* events of a request each is sent once or lost, in the order of its plan, and what
\* was sent never changes, whatever a hook keeps and does to the events it has seen.
THEOREM PipelineImplementsEventFeed == PipelineSpec => ImplementsEventFeed
<1>1. PipelineInit => Feed!Init
  BY DEF PipelineInit, IdleWork, AtStep, Feed!Init
<1>2. PipelineSpec => Feed!FeedSpec
  BY <1>1, PipelineInvariant, PipelineStepRefines, PTL DEF PipelineSpec, Feed!FeedSpec
<1> QED BY <1>2 DEF ImplementsEventFeed
-----------------------------------------------------------------------------
(***************************************************************************)
(* The properties of an event are a tree.                                  *)
(***************************************************************************)
LEMMA PathConcat ==
    ASSUME NEW key \in Int, NEW q \in Paths
    PROVE  LET p == <<key>> \o q
           IN  /\ p \in Paths /\ Len(p) = Len(q) + 1 /\ p[1] = key
               /\ \A i \in 1..Len(q) : p[i + 1] = q[i]
<1> DEFINE p == <<key>> \o q
<1>1. <<key>> \in Seq(Int) /\ q \in Seq(Int) /\ Len(<<key>>) = 1 /\ <<key>>[1] = key
  BY DEF Paths
<1>2. Len(q) \in Nat \ {0}
  BY PathParent
<1>3. /\ p \in Seq(Int) /\ Len(p) = 1 + Len(q)
      /\ \A i \in 1..(1 + Len(q)) : p[i] = IF i <= 1 THEN <<key>>[i] ELSE q[i - 1]
  BY <1>1, ConcatProperties
<1> HIDE DEF p
<1>4. p # <<>>
  BY <1>2, <1>3, EmptySeq
<1>5. p[1] = key
  BY <1>1, <1>2, <1>3
<1>6. ASSUME NEW i \in 1..Len(q)  PROVE p[i + 1] = q[i]
  <2>1. i + 1 \in 1..(1 + Len(q)) /\ ~(i + 1 <= 1) /\ (i + 1) - 1 = i
    BY <1>2
  <2> QED BY <1>3, <2>1
<1>7. Len(p) = Len(q) + 1
  BY <1>2, <1>3
<1> QED BY <1>3, <1>4, <1>5, <1>6, <1>7 DEF p, Paths

LEMMA PathTail ==
    ASSUME NEW key \in Int, NEW q \in Paths
    PROVE  LET p == <<key>> \o q
           IN  /\ p \in Paths /\ Len(p) > 1 /\ p[1] = key /\ Tail(p) = q
               /\ Parent(p) = IF Len(q) = 1 THEN <<key>> ELSE <<key>> \o Parent(q)
<1> DEFINE p == <<key>> \o q
           n == Len(q)
<1>1. /\ p \in Paths /\ Len(p) = n + 1 /\ p[1] = key
      /\ \A i \in 1..n : p[i + 1] = q[i]
  BY PathConcat
<1>2. n \in Nat \ {0} /\ q \in Seq(Int) /\ p \in Seq(Int) /\ p # <<>>
  BY <1>1, PathParent DEF Paths
<1> HIDE DEF p, n
<1>3. Tail(p) = q
  <2>1. Len(p) - 1 = n
    BY <1>1, <1>2
  <2>2. Tail(p) \in Seq(Int) /\ Len(Tail(p)) = n /\ \A i \in 1..n : Tail(p)[i] = p[i + 1]
    BY <1>2, <2>1, HeadTailProperties
  <2> QED BY <1>1, <1>2, <2>2, SeqEqual DEF n
<1>4. /\ Parent(p) \in Seq(Int) /\ Len(Parent(p)) = n /\ \A i \in 1..n : Parent(p)[i] = p[i]
  <2>1. Len(p) - 1 = n
    BY <1>1, <1>2
  <2> QED BY <1>1, <2>1, PathParent
<1>5. Len(p) > 1
  BY <1>1, <1>2
<1>6. CASE n = 1
  <2>1. Parent(p) = <<key>>
    BY <1>1, <1>4, <1>6
  <2> QED BY <1>1, <1>3, <1>5, <1>6, <2>1 DEF p, n
<1>7. CASE n # 1
  <2> DEFINE s == <<key>> \o Parent(q)
  <2>1. n > 1
    BY <1>2, <1>7
  <2>2. Parent(q) \in Paths /\ Len(Parent(q)) = n - 1 /\ \A i \in 1..(n - 1) : Parent(q)[i] = q[i]
    BY <2>1, PathParent DEF n
  <2>3. /\ s \in Seq(Int) /\ Len(s) = (n - 1) + 1 /\ s[1] = key
        /\ \A i \in 1..(n - 1) : s[i + 1] = Parent(q)[i]
    BY <2>2, PathConcat DEF Paths
  <2> HIDE DEF s
  <2>4. Len(s) = n
    BY <1>2, <2>3
  <2>5. ASSUME NEW i \in 1..n  PROVE Parent(p)[i] = s[i]
    <3>1. CASE i = 1
      BY <1>1, <1>4, <2>3, <3>1
    <3>2. CASE i # 1
      <4>1. PICK j \in 1..(n - 1) : i = j + 1 /\ j \in 1..n
        <5>1. i - 1 \in 1..(n - 1) /\ i - 1 \in 1..n /\ i = (i - 1) + 1
          BY <1>2, <3>2
        <5> QED BY <5>1
      <4>2. s[i] = q[j]
        BY <2>2, <2>3, <4>1
      <4>3. Parent(p)[i] = q[j]
        BY <1>1, <1>4, <4>1
      <4> QED BY <4>2, <4>3
    <3> QED BY <3>1, <3>2
  <2>6. Parent(p) = s
    BY <1>4, <2>3, <2>4, <2>5, SeqEqual
  <2> QED BY <1>1, <1>3, <1>5, <1>7, <2>6 DEF p, n, s
<1> QED BY <1>6, <1>7 DEF n

LEMMA AtTree ==
    ASSUME NEW key \in Int, NEW v, IsLeaf(v)
    PROVE  /\ IsTree(At(key, v)) /\ DOMAIN At(key, v) = {<<key>>} /\ At(key, v)[<<key>>] = v
           /\ \A k : Has(At(key, v), k) <=> k = key
<1> DEFINE t == At(key, v)
<1>1. DOMAIN t = {<<key>>} /\ t[<<key>>] = v /\ <<key>>[1] = key
  BY DEF At
<1> HIDE DEF t
<1>2. IsFiniteSet(DOMAIN t)
  BY <1>1, FS_Singleton
<1>3. <<key>> \in Paths /\ Len(<<key>>) = 1 /\ ~(1 > 1)
  BY TopKey
<1>4. IsTree(t)
  BY <1>1, <1>2, <1>3 DEF IsTree, Paths
<1>5. \A k : Has(t, k) <=> k = key
  BY <1>1 DEF Has
<1> QED BY <1>1, <1>4, <1>5 DEF t

LEMMA EmptyTree == IsTree(Empty) /\ \A k : ~Has(Empty, k)
BY FS_EmptySet DEF Empty, IsTree, Has

\* The first key of a path is that of its parent.
LEMMA SameTop ==
    ASSUME NEW p \in Paths, Len(p) > 1
    PROVE  Parent(p)[1] = p[1]
<1>1. \A n \in Nat \ {0} : n > 1 => 1 \in 1..(n - 1)
  OBVIOUS
<1>2. 1 \in 1..(Len(p) - 1)
  BY <1>1, PathParent
<1> QED BY <1>2, PathParent

LEMMA OverlayTree ==
    ASSUME NEW a, IsTree(a), NEW b, IsTree(b)
    PROVE  LET c == Overlay(a, b)
           IN  /\ IsTree(c)
               /\ \A p \in DOMAIN b : p \in DOMAIN c /\ c[p] = b[p]
<1> DEFINE c == Overlay(a, b)
           Old == {q \in DOMAIN a : ~Has(b, q[1])}
<1>1. /\ DOMAIN c = DOMAIN b \cup Old
      /\ \A p \in DOMAIN c : c[p] = IF p \in DOMAIN b THEN b[p] ELSE a[p]
  BY DEF Overlay
<1> HIDE DEF c
<1>2. IsFiniteSet(DOMAIN c)
  <2>1. IsFiniteSet(DOMAIN a) /\ IsFiniteSet(DOMAIN b) /\ Old \in SUBSET DOMAIN a
    BY TreeFacts
  <2>2. IsFiniteSet(Old)
    BY <2>1, FS_Subset
  <2> HIDE DEF Old
  <2>3. IsFiniteSet(DOMAIN b \cup Old)
    BY <2>1, <2>2, FS_Union
  <2> QED BY <1>1, <2>3
<1>3. ASSUME NEW p \in DOMAIN c
      PROVE  /\ p \in Paths /\ IsLeaf(c[p])
             /\ Len(p) > 1 => Parent(p) \in DOMAIN c /\ IsContainer(c[Parent(p)])
  <2>1. CASE p \in DOMAIN b
    BY <1>1, <2>1, TreeFacts
  <2>2. CASE p \notin DOMAIN b
    <3>1. p \in DOMAIN a /\ ~Has(b, p[1]) /\ p \in Paths /\ c[p] = a[p]
      BY <1>1, <2>2, TreeFacts
    <3>2. ASSUME Len(p) > 1  PROVE Parent(p) \in DOMAIN c /\ IsContainer(c[Parent(p)])
      <4>1. Parent(p) \in DOMAIN a /\ IsContainer(a[Parent(p)]) /\ Parent(p)[1] = p[1]
        BY <3>1, <3>2, TreeFacts, SameTop
      <4>2. Parent(p) \notin DOMAIN b
        BY <3>1, <4>1 DEF Has
      <4> QED BY <1>1, <3>1, <4>1, <4>2
    <3> QED BY <3>1, <3>2, TreeFacts
  <2> QED BY <2>1, <2>2
<1>4. IsTree(c)
  BY <1>2, <1>3 DEF IsTree, Paths
<1> QED BY <1>1, <1>4 DEF c

\* What is left when only some of the keys at the top are kept.
LEMMA OnlyTree ==
    ASSUME NEW t, IsTree(t), NEW K, NEW S, S = {p \in DOMAIN t : p[1] \in K}
    PROVE  IsTree(Only(t, S))
<1> DEFINE c == Only(t, S)
<1>1. DOMAIN c = S /\ \A p \in S : c[p] = t[p]
  BY DEF Only
<1> HIDE DEF c
<1>2. IsFiniteSet(DOMAIN c)
  <2>1. IsFiniteSet(DOMAIN t) /\ S \in SUBSET DOMAIN t
    BY TreeFacts
  <2> QED BY <1>1, <2>1, FS_Subset
<1>3. ASSUME NEW p \in DOMAIN c
      PROVE  /\ p \in Paths /\ IsLeaf(c[p])
             /\ Len(p) > 1 => Parent(p) \in DOMAIN c /\ IsContainer(c[Parent(p)])
  <2>1. p \in DOMAIN t /\ p[1] \in K /\ p \in Paths /\ IsLeaf(t[p]) /\ c[p] = t[p]
    BY <1>1, TreeFacts
  <2>2. ASSUME Len(p) > 1  PROVE Parent(p) \in DOMAIN c /\ IsContainer(c[Parent(p)])
    <3>1. Parent(p) \in DOMAIN t /\ IsContainer(t[Parent(p)]) /\ Parent(p)[1] = p[1]
      BY <2>1, <2>2, TreeFacts, SameTop
    <3> QED BY <1>1, <2>1, <3>1
  <2> QED BY <2>1, <2>2
<1>4. IsTree(c)
  BY <1>2, <1>3 DEF IsTree, Paths
<1> QED BY <1>4 DEF c

LEMMA UnderTree ==
    ASSUME NEW key \in Int, NEW t, IsTree(t)
    PROVE  IsTree(Under(key, t)) /\ \A p \in DOMAIN Under(key, t) : p[1] = key
<1> DEFINE c     == Under(key, t)
           f     == [q \in DOMAIN t |-> <<key>> \o q]
           Below == {<<key>> \o q : q \in DOMAIN t}
<1>1. /\ DOMAIN c = {<<key>>} \cup Below
      /\ \A p \in DOMAIN c : c[p] = IF Len(p) = 1 THEN Leaf("map") ELSE t[Tail(p)]
  BY DEF Under
<1>2. IsFiniteSet(DOMAIN t) /\ DOMAIN t \subseteq Paths
  BY TreeFacts
<1>3. IsFiniteSet(Below)
  <2>1. f \in Surjection(DOMAIN t, Below)
    BY DEF Surjection
  <2> QED BY <1>2, <2>1, FS_Surjection
<1> HIDE DEF c
<1>4. IsFiniteSet(DOMAIN c)
  <2>1. IsFiniteSet({<<key>>})
    BY FS_Singleton
  <2> HIDE DEF Below
  <2>2. IsFiniteSet({<<key>>} \cup Below)
    BY <1>3, <2>1, FS_Union
  <2> QED BY <1>1, <2>2
<1>5. /\ <<key>> \in Paths /\ Len(<<key>>) = 1 /\ <<key>>[1] = key /\ ~(1 > 1)
      /\ <<key>> \in DOMAIN c /\ c[<<key>>] = Leaf("map")
  BY <1>1, TopKey
<1>6. IsLeaf(Leaf("map")) /\ IsContainer(Leaf("map"))
  BY LeafType DEF Kinds, IsContainer
<1>7. ASSUME NEW q \in DOMAIN t
      PROVE  LET p == <<key>> \o q
             IN  p \in DOMAIN c /\ c[p] = t[q] /\ p \in Paths /\ Len(p) > 1 /\ p[1] = key
  <2> DEFINE p == <<key>> \o q
  <2>1. p \in Paths /\ Len(p) > 1 /\ p[1] = key /\ Tail(p) = q
    BY <1>2, PathTail
  <2>2. p \in DOMAIN c
    BY <1>1
  <2> HIDE DEF p
  <2>3. Len(p) # 1
    <3>1. \A n \in Nat : n > 1 => n # 1
      OBVIOUS
    <3> QED BY <2>1, <3>1, PathParent
  <2> QED BY <1>1, <2>1, <2>2, <2>3 DEF p
<1>8. ASSUME NEW p \in DOMAIN c
      PROVE  /\ p \in Paths /\ IsLeaf(c[p]) /\ p[1] = key
             /\ Len(p) > 1 => Parent(p) \in DOMAIN c /\ IsContainer(c[Parent(p)])
  <2>1. CASE p = <<key>>
    BY <1>5, <1>6, <2>1
  <2>2. CASE p \in Below
    <3>1. PICK q \in DOMAIN t : p = <<key>> \o q
      BY <2>2
    <3>2. /\ p \in Paths /\ Len(p) > 1 /\ p[1] = key /\ c[p] = t[q] /\ IsLeaf(t[q])
          /\ Parent(p) = IF Len(q) = 1 THEN <<key>> ELSE <<key>> \o Parent(q)
      BY <1>2, <1>7, <3>1, PathTail, TreeFacts
    <3>3. CASE Len(q) = 1
      BY <1>5, <1>6, <3>2, <3>3
    <3>4. CASE Len(q) # 1
      <4>1. Len(q) > 1
        <5>1. \A n \in Nat \ {0} : n # 1 => n > 1
          OBVIOUS
        <5> QED BY <1>2, <3>4, <5>1, PathParent
      <4>2. Parent(q) \in DOMAIN t /\ IsContainer(t[Parent(q)])
        BY <4>1, TreeFacts
      <4> QED BY <1>7, <3>2, <3>4, <4>2
    <3> QED BY <3>3, <3>4
  <2> QED BY <1>1, <2>1, <2>2
<1>9. IsTree(c)
  BY <1>4, <1>8 DEF IsTree, Paths
<1> QED BY <1>8, <1>9 DEF c

\* What an overlay does not have stays.
LEMMA OverlayKeeps ==
    ASSUME NEW a, NEW b, NEW p \in DOMAIN a, ~Has(b, p[1])
    PROVE  p \in DOMAIN Overlay(a, b) /\ Overlay(a, b)[p] = a[p]
<1>1. p \notin DOMAIN b
  BY DEF Has
<1> QED BY <1>1 DEF Overlay

LEMMA TextLeaf ==
    ASSUME NEW n \in Nat
    PROVE  IsLeaf(Text(n))
<1>1. /\ Text(n) = [Leaf("text") EXCEPT !.len = n] /\ Leaf("text") \in Leaves
      /\ Leaf("text").secret = 0 /\ Leaf("text").names = "other"
  BY LeafType DEF Text, Kinds, IsLeaf
<1>2. \A w \in Leaves : LET x == [w EXCEPT !.len = n]
                        IN  x \in Leaves /\ x.secret = w.secret /\ x.names = w.names
  BY DEF Leaves
<1>3. Text(n) \in Leaves /\ Text(n).secret = 0 /\ Text(n).names = "other"
  BY <1>1, <1>2
<1> QED BY <1>3 DEF IsLeaf

LEMMA ExceptionTree == IsTree(ExceptionList)
<1> DEFINE t == ExceptionList
           p1 == <<ExceptionKey>>
           p2 == <<ExceptionKey, 1>>
           p3 == <<ExceptionKey, 1, ValueKey>>
<1>1. /\ p1 \in Paths /\ p2 \in Paths /\ p3 \in Paths
      /\ Len(p1) = 1 /\ Len(p2) = 2 /\ Len(p3) = 3
      /\ p2[1] = ExceptionKey /\ p3[1] = ExceptionKey /\ p3[2] = 1
  BY DEF Paths, ExceptionKey, ValueKey
<1>2. Parent(p2) = p1
  <2>1. /\ Parent(p2) \in Seq(Int) /\ Len(Parent(p2)) = 1
        /\ \A i \in 1..1 : Parent(p2)[i] = p2[i]
    <3>1. Len(p2) - 1 = 1
      BY <1>1
    <3> QED BY <1>1, <3>1, PathParent
  <2> HIDE DEF p2
  <2>2. Parent(p2)[1] = ExceptionKey
    BY <1>1, <2>1
  <2> QED BY <2>1, <2>2
<1>3. Parent(p3) = p2
  <2>1. /\ Parent(p3) \in Seq(Int) /\ Len(Parent(p3)) = 2
        /\ \A i \in 1..2 : Parent(p3)[i] = p3[i]
    <3>1. Len(p3) - 1 = 2
      BY <1>1
    <3> QED BY <1>1, <3>1, PathParent
  <2> HIDE DEF p3
  <2>2. Parent(p3)[1] = ExceptionKey /\ Parent(p3)[2] = 1
    BY <1>1, <2>1
  <2> QED BY <2>1, <2>2
<1>4. DOMAIN t = {p1, p2, p3}
  BY DEF ExceptionList
<1>5. t[p1] = Leaf("slice") /\ t[p2] = Leaf("map") /\ t[p3] = Text(4000)
  <2>1. t[p1] = Leaf("slice")
    BY <1>1 DEF ExceptionList
  <2>2. t[p2] = Leaf("map")
    BY <1>1 DEF ExceptionList
  <2>3. t[p3] = Text(4000)
    BY <1>1 DEF ExceptionList
  <2> QED BY <2>1, <2>2, <2>3
<1> HIDE DEF t, p1, p2, p3
<1>6. /\ IsLeaf(t[p1]) /\ IsLeaf(t[p2]) /\ IsLeaf(t[p3])
      /\ IsContainer(t[p1]) /\ IsContainer(t[p2])
  BY <1>5, LeafType, TextLeaf DEF Kinds, IsContainer
<1>7. IsFiniteSet(DOMAIN t)
  <2>1. IsFiniteSet({p1}) /\ IsFiniteSet({p2}) /\ IsFiniteSet({p3})
    BY FS_Singleton
  <2>2. IsFiniteSet({p1} \cup {p2})
    BY <2>1, FS_Union
  <2>3. IsFiniteSet(({p1} \cup {p2}) \cup {p3})
    BY <2>1, <2>2, FS_Union
  <2>4. {p1, p2, p3} = ({p1} \cup {p2}) \cup {p3}
    OBVIOUS
  <2> QED BY <1>4, <2>3, <2>4
<1>8. ASSUME NEW p \in DOMAIN t
      PROVE  /\ p \in Paths /\ IsLeaf(t[p])
             /\ Len(p) > 1 => Parent(p) \in DOMAIN t /\ IsContainer(t[Parent(p)])
  <2>1. CASE p = p1
    <3>1. ~(1 > 1)
      OBVIOUS
    <3> QED BY <1>1, <1>6, <2>1, <3>1, Zenon
  <2>2. CASE p = p2
    BY <1>1, <1>2, <1>4, <1>6, <2>2
  <2>3. CASE p = p3
    BY <1>1, <1>3, <1>4, <1>6, <2>3
  <2> QED BY <1>4, <2>1, <2>2, <2>3
<1>9. IsTree(t)
  BY <1>7, <1>8 DEF IsTree, Paths
<1> QED BY <1>9 DEF t
-----------------------------------------------------------------------------
(***************************************************************************)
(* The event that captureEvent merges.                                     *)
(***************************************************************************)
\* The texts that sanitizing has nothing to do with.
LEMMA PlainFacts ==
    ASSUME NEW v, IsPlain(v)
    PROVE  IsLeaf(v) /\ IsSteady(v) /\ TruncateUTF8(SanitizeString(v), MaxStringBytes) = v
<1>1. IsLeaf(v) /\ v.len \in Nat /\ v.kind = "text" /\ v.len <= ShortestLimit
  BY LeafFields DEF IsPlain
<1>2. SanitizeString(v) = v
  <2>1. ~v.binary /\ ~(0 > 0) /\ v.secret = 0
    BY DEF IsPlain
  <2> QED BY <2>1 DEF SanitizeString
<1>3. v.len <= MaxStringBytes
  BY <1>1, SanitizerAssumption DEF ShortestLimit
<1>4. TruncateUTF8(v, MaxStringBytes) = v
  BY <1>3 DEF TruncateUTF8
<1>5. Normalized(v) = v
  <2> DEFINE u == [v EXCEPT !.kind = IF @ = "mark" THEN @ ELSE "text"]
             text == "text"
             w == [v EXCEPT !.kind = text]
  <2>1. u = w
    BY <1>1
  <2>2. w = v
    <3>1. text \in Kinds /\ text = v.kind
      BY <1>1 DEF Kinds
    <3> HIDE DEF text
    <3> QED BY <1>1, <3>1, LeafOfKind
  <2>3. Normalized(v) = TruncateUTF8(SanitizeString(u), MaxStringBytes)
    BY <1>1, Zenon DEF Normalized, IsString
  <2> QED BY <1>2, <1>4, <2>1, <2>2, <2>3
<1> QED BY <1>1, <1>2, <1>4, <1>5 DEF IsSteady

LEMMA FalseFacts == IsLeaf(False) /\ IsSteady(False)
<1>1. IsLeaf(False) /\ False.kind = "scalar" /\ False.len = 0
  BY LeafType DEF False, Kinds
<1>2. Normalized(False) = False
  BY <1>1 DEF Normalized, IsString
<1> QED BY <1>1, <1>2 DEF IsSteady, ShortestLimit

\* applyToEvent sets the session, and the mark of an event without a person.
LEMMA AttributionFacts ==
    ASSUME NEW life, IsLifecycle(life)
    PROVE  LET a == Attribution(life)
           IN  /\ IsTree(a)
               /\ <<SessionKey>> \in DOMAIN a /\ a[<<SessionKey>>] = life.session
               /\ ~IsIdentified(life) => <<ProfileKey>> \in DOMAIN a /\ a[<<ProfileKey>>] = False
<1> DEFINE s == At(SessionKey, life.session)
           b == IF ~IsIdentified(life) THEN At(ProfileKey, False)
                ELSE IF life.person.set = Empty THEN Empty
                ELSE Under(SetKey, life.person.set)
           a == Attribution(life)
<1>1. a = Overlay(s, b)
  BY DEF Attribution
<1>2. /\ SessionKey \in Int /\ ProfileKey \in Int /\ SetKey \in Int
      /\ SessionKey # ProfileKey /\ SessionKey # SetKey
      /\ IsLeaf(life.session) /\ IsTree(life.person.set)
  BY PlainFacts DEF IsLifecycle, SessionKey, ProfileKey, SetKey
<1>3. IsTree(s) /\ DOMAIN s = {<<SessionKey>>} /\ s[<<SessionKey>>] = life.session
  BY <1>2, AtTree
<1>4. /\ IsTree(b) /\ ~Has(b, SessionKey)
      /\ ~IsIdentified(life) => <<ProfileKey>> \in DOMAIN b /\ b[<<ProfileKey>>] = False
  <2>1. CASE ~IsIdentified(life)
    <3>1. b = At(ProfileKey, False)
      BY <2>1
    <3>2. IsLeaf(False)
      BY FalseFacts
    <3>3. /\ IsTree(At(ProfileKey, False)) /\ DOMAIN At(ProfileKey, False) = {<<ProfileKey>>}
          /\ At(ProfileKey, False)[<<ProfileKey>>] = False
          /\ \A k : Has(At(ProfileKey, False), k) <=> k = ProfileKey
      BY <1>2, <3>2, AtTree
    <3>4. ~Has(At(ProfileKey, False), SessionKey)
      BY <1>2, <3>3
    <3> QED BY <3>1, <3>3, <3>4
  <2>2. CASE IsIdentified(life) /\ life.person.set = Empty
    <3>1. b = Empty
      BY <2>2
    <3> QED BY <2>2, <3>1, EmptyTree
  <2>3. CASE IsIdentified(life) /\ life.person.set # Empty
    <3>1. b = Under(SetKey, life.person.set)
      BY <2>3
    <3>2. IsTree(b) /\ \A p \in DOMAIN b : p[1] = SetKey
      BY <1>2, <3>1, UnderTree
    <3> QED BY <1>2, <2>3, <3>2 DEF Has
  <2> QED BY <2>1, <2>2, <2>3
<1> HIDE DEF s, b, a
<1>5. IsTree(a) /\ \A p \in DOMAIN b : p \in DOMAIN a /\ a[p] = b[p]
  BY <1>1, <1>3, <1>4, OverlayTree
<1>6. <<SessionKey>> \in DOMAIN a /\ a[<<SessionKey>>] = life.session
  <2>1. <<SessionKey>>[1] = SessionKey
    OBVIOUS
  <2> QED BY <1>1, <1>3, <1>4, <2>1, OverlayKeeps
<1> QED BY <1>4, <1>5, <1>6 DEF a

LEMMA OwnTree ==
    ASSUME NEW life, IsLifecycle(life), NEW kind \in EventKinds
    PROVE  IsTree(OwnProperties(life, kind))
<1> DEFINE tool    == At(ToolKey, Text(8))
           failure == At(IsErrorKey, False)
           inputs  == Under(ParametersKey, life.body)
           request == Overlay(Overlay(tool, failure), inputs)
           main    == Overlay(request, Attribution(life))
           K       == {SessionKey, ToolKey, ProfileKey}
           copied  == {p \in DOMAIN main : p[1] \in K}
           anon    == At(AnonKey, life.session)
           own     == OwnProperties(life, kind)
<1>1. /\ kind = "identify" => own = Overlay(anon, Attribution(life))
      /\ kind = "main" => own = main
      /\ kind = "exception" => own = Overlay(Only(main, copied), ExceptionList)
      /\ kind = "custom" => own = life.body
  BY DEF OwnProperties
<1>2. /\ ToolKey \in Int /\ IsErrorKey \in Int /\ ParametersKey \in Int /\ AnonKey \in Int
      /\ IsTree(life.body) /\ IsLeaf(life.session)
  BY PlainFacts DEF IsLifecycle, ToolKey, IsErrorKey, ParametersKey, AnonKey
<1>3. IsTree(tool) /\ IsTree(failure) /\ IsTree(anon)
  <2>1. IsLeaf(False) /\ IsLeaf(Text(8))
    BY FalseFacts, TextLeaf
  <2>2. IsTree(tool)
    BY <1>2, <2>1, AtTree
  <2>3. IsTree(failure)
    BY <1>2, <2>1, AtTree
  <2>4. IsTree(anon)
    BY <1>2, AtTree
  <2> QED BY <2>2, <2>3, <2>4
<1>4. IsTree(inputs) /\ IsTree(Attribution(life))
  BY <1>2, UnderTree, AttributionFacts
<1> HIDE DEF tool, failure, inputs, anon, own
<1>5. IsTree(Overlay(tool, failure))
  BY <1>3, OverlayTree
<1>6. IsTree(request)
  BY <1>4, <1>5, OverlayTree
<1> HIDE DEF request
<1>7. IsTree(main)
  BY <1>4, <1>6, OverlayTree
<1> HIDE DEF main
<1>8. IsTree(Only(main, copied))
  <2> HIDE DEF K
  <2> QED BY <1>7, OnlyTree
<1>9. IsTree(Overlay(Only(main, copied), ExceptionList))
  BY <1>8, ExceptionTree, OverlayTree
<1>10. IsTree(Overlay(anon, Attribution(life)))
  BY <1>3, <1>4, OverlayTree
<1> QED BY <1>1, <1>2, <1>7, <1>9, <1>10 DEF own, EventKinds

\* The session and the mark of an event of nobody stay, if they are there.
LEMMA AnonymizedFacts ==
    ASSUME NEW id, IsLeaf(id), NEW t, IsTree(t)
    PROVE  LET s == Anonymized(id, t)
           IN  /\ IsTree(s)
               /\ <<SessionKey>> \in DOMAIN t =>
                     <<SessionKey>> \in DOMAIN s /\ s[<<SessionKey>>] = t[<<SessionKey>>]
               /\ <<SessionKey>> \in DOMAIN t /\ <<ProfileKey>> \in DOMAIN t =>
                     <<ProfileKey>> \in DOMAIN s /\ s[<<ProfileKey>>] \in {t[<<ProfileKey>>], False}
<1> DEFINE session == At(SessionKey, id)
           known   == IF Has(t, SessionKey) THEN t ELSE Overlay(t, session)
           profile == At(ProfileKey, False)
           marked  == Overlay(known, profile)
<1>1. Anonymized(id, t) \in {known, marked}
  BY DEF Anonymized
<1>2. /\ SessionKey \in Int /\ ProfileKey \in Int /\ SessionKey # ProfileKey
      /\ IsLeaf(False) /\ <<SessionKey>>[1] = SessionKey
  BY FalseFacts DEF SessionKey, ProfileKey
<1>3. IsTree(session)
  BY <1>2, AtTree
<1>4. /\ IsTree(profile) /\ DOMAIN profile = {<<ProfileKey>>}
      /\ profile[<<ProfileKey>>] = False /\ ~Has(profile, SessionKey)
  <2>1. \A k : Has(profile, k) <=> k = ProfileKey
    BY <1>2, AtTree
  <2> QED BY <1>2, <2>1, AtTree
<1> HIDE DEF session, profile
<1>5. IsTree(known) /\ (<<SessionKey>> \in DOMAIN t => known = t)
  <2>1. <<SessionKey>> \in DOMAIN t => Has(t, SessionKey)
    BY <1>2 DEF Has
  <2> QED BY <1>3, <2>1, OverlayTree
<1> HIDE DEF known
<1>6. IsTree(marked) /\ <<ProfileKey>> \in DOMAIN marked /\ marked[<<ProfileKey>>] = False
  BY <1>4, <1>5, OverlayTree
<1>7. ASSUME <<SessionKey>> \in DOMAIN t
      PROVE  <<SessionKey>> \in DOMAIN marked /\ marked[<<SessionKey>>] = t[<<SessionKey>>]
  BY <1>2, <1>4, <1>5, <1>7, OverlayKeeps
<1> HIDE DEF marked
<1> QED BY <1>1, <1>5, <1>6, <1>7

\* Whatever the caller and EventProperties put into it, what is merged is an event, and
\* one with an attribution carries it.
LEMMA MergedFacts ==
    ASSUME NEW life, IsLifecycle(life), NEW resolved \in life.resolves \cup {Empty},
           NEW kind \in EventKinds
    PROVE  LET e == MergedEvent(life, resolved, kind)
           IN  /\ IsEvent(e) /\ IsTree(e.properties) /\ IsTree(e.groups)
               /\ IsLeaf(e.distinctID) /\ IsLeaf(e.name) /\ e.name.kind = "text"
               /\ TruncateUTF8(SanitizeString(e.distinctID), MaxStringBytes) = e.distinctID
               /\ life.attributed =>
                     /\ e.distinctID = IF IsIdentified(life) THEN life.person.distinctID
                                       ELSE life.session
                     /\ <<SessionKey>> \in DOMAIN e.properties
                     /\ e.properties[<<SessionKey>>] = life.session
                     /\ ~IsIdentified(life) =>
                           /\ <<ProfileKey>> \in DOMAIN e.properties
                           /\ e.properties[<<ProfileKey>>] = False
<1> DEFINE e      == MergedEvent(life, resolved, kind)
           id     == IF life.attributed /\ IsIdentified(life) THEN life.person.distinctID
                     ELSE life.session
           own    == Overlay(resolved, OwnProperties(life, kind))
           source == Overlay(own, At(SourceKey, Text(21)))
           claim  == IF life.attributed THEN Overlay(source, Attribution(life)) ELSE source
           props  == Anonymized(id, claim)
           groups == IF life.attributed THEN Groups(life) ELSE Empty
<1>1. /\ IsEvent(e) /\ e.properties = props /\ e.groups = groups /\ e.distinctID = id
  BY DEF MergedEvent, IsEvent
<1>2. IsTree(resolved) /\ IsTree(life.person.groups)
  BY EmptyTree DEF IsLifecycle
<1>3. IsTree(source)
  <2>1. IsTree(own)
    BY <1>2, OwnTree, OverlayTree
  <2>2. IsTree(At(SourceKey, Text(21)))
    <3>1. IsLeaf(Text(21)) /\ SourceKey \in Int
      BY TextLeaf DEF SourceKey
    <3> QED BY <3>1, AtTree
  <2> HIDE DEF own
  <2> QED BY <2>1, <2>2, OverlayTree
<1> HIDE DEF source
<1>4. /\ IsTree(claim)
      /\ life.attributed =>
            \A p \in DOMAIN Attribution(life) :
               p \in DOMAIN claim /\ claim[p] = Attribution(life)[p]
  BY <1>3, AttributionFacts, OverlayTree
<1>5. IsTree(groups)
  <2>1. MaxDepth \in 1..MaxDepth
    BY SanitizerAssumption
  <2>2. IsTree(Groups(life))
    BY <1>2, <2>1, SanitizedTree DEF Groups, IsSanitized
  <2> QED BY <2>2, EmptyTree
<1>6. IsLeaf(id) /\ TruncateUTF8(SanitizeString(id), MaxStringBytes) = id
  BY PlainFacts DEF IsLifecycle, IsSnapshot
<1>7. life.attributed => id = IF IsIdentified(life) THEN life.person.distinctID ELSE life.session
  OBVIOUS
<1>10. IsLeaf(e.name) /\ e.name.kind = "text"
  <2>1. e.name = IF kind = "custom" THEN life.name ELSE Text(16)
    BY DEF MergedEvent
  <2>2. IsLeaf(Text(16)) /\ Text(16).kind = "text"
    BY TextLeaf DEF Text, Leaf
  <2> QED BY <2>1, <2>2 DEF IsLifecycle
<1> HIDE DEF e, claim, groups, id
<1>8. /\ IsTree(props)
      /\ <<SessionKey>> \in DOMAIN claim =>
            <<SessionKey>> \in DOMAIN props /\ props[<<SessionKey>>] = claim[<<SessionKey>>]
      /\ <<SessionKey>> \in DOMAIN claim /\ <<ProfileKey>> \in DOMAIN claim =>
            <<ProfileKey>> \in DOMAIN props /\ props[<<ProfileKey>>] \in {claim[<<ProfileKey>>], False}
  BY <1>4, <1>6, AnonymizedFacts
<1> HIDE DEF props
<1>9. ASSUME life.attributed
      PROVE  /\ <<SessionKey>> \in DOMAIN props /\ props[<<SessionKey>>] = life.session
             /\ ~IsIdentified(life) =>
                   <<ProfileKey>> \in DOMAIN props /\ props[<<ProfileKey>>] = False
  BY <1>4, <1>8, <1>9, AttributionFacts
<1> QED BY <1>1, <1>5, <1>6, <1>7, <1>8, <1>9, <1>10 DEF e

-----------------------------------------------------------------------------
(***************************************************************************)
(* What the events of a lifecycle share.                                   *)
(***************************************************************************)
Automatic == {"identify", "main", "exception"}

\* The keys that an automatic event of this kind has to itself, or has not.
Unshared(kind) ==
    {AnonKey, ExceptionKey, IsErrorKey, ParametersKey}
        \cup IF kind = "identify" THEN {ToolKey} ELSE {}

PersonID(life) == IF IsIdentified(life) THEN life.person.distinctID ELSE life.session

\* No one has properties of a person for the session, and it stands for the person.
IsNobody(life, resolved) ==
    ~Has(resolved, SetKey) /\ ~Has(Attribution(life), SetKey) /\ life.session = PersonID(life)

\* What any automatic event of a lifecycle has under another key, if anything.
Shared(life, resolved, key) ==
    LET p == <<key>>
    IN  IF key = ProfileKey /\ IsNobody(life, resolved) THEN False
        ELSE IF p \in DOMAIN Attribution(life) THEN Attribution(life)[p]
        ELSE IF key = SourceKey THEN Text(21)
        ELSE IF key = ToolKey THEN Text(8)
        ELSE resolved[p]

LEMMA OverlayHas ==
    ASSUME NEW a, NEW b, NEW key
    PROVE  Has(Overlay(a, b), key) <=> Has(a, key) \/ Has(b, key)
BY DEF Has, Overlay

LEMMA AttributionKeys ==
    ASSUME NEW life, IsLifecycle(life)
    PROVE  \A p \in DOMAIN Attribution(life) : p[1] \in {SessionKey, ProfileKey, SetKey}
<1> DEFINE s == At(SessionKey, life.session)
           b == IF ~IsIdentified(life) THEN At(ProfileKey, False)
                ELSE IF life.person.set = Empty THEN Empty
                ELSE Under(SetKey, life.person.set)
<1>1. Attribution(life) = Overlay(s, b)
  BY DEF Attribution
<1>2. SetKey \in Int /\ IsTree(life.person.set)
  BY DEF IsLifecycle, SetKey
<1>3. \A p \in DOMAIN s : p[1] = SessionKey
  BY DEF At
<1>4. \A p \in DOMAIN At(ProfileKey, False) : p[1] = ProfileKey
  BY DEF At
<1>5. \A p \in DOMAIN Under(SetKey, life.person.set) : p[1] = SetKey
  BY <1>2, UnderTree
<1>6. DOMAIN Empty = {}
  BY DEF Empty
<1>7. \A p \in DOMAIN b : p[1] \in {ProfileKey, SetKey}
  BY <1>4, <1>5, <1>6
<1> HIDE DEF s, b
<1> QED BY <1>1, <1>3, <1>7 DEF Overlay

\* Of an automatic event's own properties only these come from no attribution.
LEMMA OwnShared ==
    ASSUME NEW life, IsLifecycle(life), NEW kind \in Automatic
    PROVE  LET own == OwnProperties(life, kind)
           IN  /\ Has(own, SetKey) => Has(Attribution(life), SetKey)
               /\ \A key : key \notin Unshared(kind) /\ <<key>> \in DOMAIN own =>
                     \/ <<key>> \in DOMAIN Attribution(life)
                     \/ key = ToolKey
               /\ kind # "identify" => <<ToolKey>> \in DOMAIN own /\ own[<<ToolKey>>] = Text(8)
<1> DEFINE a       == Attribution(life)
           tool    == At(ToolKey, Text(8))
           failure == At(IsErrorKey, False)
           inputs  == Under(ParametersKey, life.body)
           request == Overlay(Overlay(tool, failure), inputs)
           main    == Overlay(request, a)
           K       == {SessionKey, ToolKey, ProfileKey}
           copied  == {p \in DOMAIN main : p[1] \in K}
           some    == Only(main, copied)
           anon    == At(AnonKey, life.session)
           own     == OwnProperties(life, kind)
<1>1. /\ kind = "identify" => own = Overlay(anon, a)
      /\ kind = "main" => own = main
      /\ kind = "exception" => own = Overlay(some, ExceptionList)
  BY DEF OwnProperties
<1>2. \A p \in DOMAIN a : p[1] \in {SessionKey, ProfileKey, SetKey}
  BY AttributionKeys
<1>3. /\ DOMAIN tool = {<<ToolKey>>} /\ tool[<<ToolKey>>] = Text(8)
      /\ DOMAIN failure = {<<IsErrorKey>>} /\ DOMAIN anon = {<<AnonKey>>}
  BY DEF At
<1>4. \A p \in DOMAIN inputs : p[1] = ParametersKey
  <2>1. ParametersKey \in Int /\ IsTree(life.body)
    BY DEF IsLifecycle, ParametersKey
  <2> QED BY <2>1, UnderTree
<1>5. \A p \in DOMAIN ExceptionList : p[1] = ExceptionKey
  BY DEF ExceptionList
<1>6. \A key : <<key>>[1] = key
  OBVIOUS
<1> HIDE DEF a, tool, failure, inputs, anon, own
<1>7. /\ \A p \in DOMAIN request : p[1] \in {ToolKey, IsErrorKey, ParametersKey}
      /\ <<ToolKey>> \in DOMAIN request /\ request[<<ToolKey>>] = Text(8)
  <2> DEFINE t == Overlay(tool, failure)
  <2>1. ~Has(failure, ToolKey)
    BY <1>3, <1>6 DEF Has, ToolKey, IsErrorKey
  <2>2. <<ToolKey>> \in DOMAIN t /\ t[<<ToolKey>>] = Text(8)
    BY <1>3, <1>6, <2>1, OverlayKeeps
  <2>3. \A p \in DOMAIN t : p[1] \in {ToolKey, IsErrorKey}
    BY <1>3, <1>6 DEF Overlay
  <2>4. ~Has(inputs, ToolKey)
    BY <1>4 DEF Has, ToolKey, ParametersKey
  <2> HIDE DEF t
  <2>5. <<ToolKey>> \in DOMAIN request /\ request[<<ToolKey>>] = Text(8)
    BY <1>6, <2>2, <2>4, OverlayKeeps DEF t
  <2>6. \A p \in DOMAIN Overlay(t, inputs) : p[1] \in {ToolKey, IsErrorKey, ParametersKey}
    BY <1>4, <2>3 DEF Overlay
  <2> QED BY <2>5, <2>6 DEF t
<1> HIDE DEF request
<1>8. /\ \A p \in DOMAIN main :
            p \in DOMAIN a \/ p[1] \in {ToolKey, IsErrorKey, ParametersKey}
      /\ <<ToolKey>> \in DOMAIN main /\ main[<<ToolKey>>] = Text(8)
  <2>1. ~Has(a, ToolKey)
    BY <1>2 DEF Has, ToolKey, SessionKey, ProfileKey, SetKey
  <2>2. <<ToolKey>> \in DOMAIN main /\ main[<<ToolKey>>] = Text(8)
    BY <1>6, <1>7, <2>1, OverlayKeeps
  <2>3. \A p \in DOMAIN main :
           p \in DOMAIN a \/ p[1] \in {ToolKey, IsErrorKey, ParametersKey}
    BY <1>7 DEF Overlay
  <2> QED BY <2>2, <2>3
<1> HIDE DEF main
<1>9. CASE kind = "identify"
  <2>1. own = Overlay(anon, a)
    BY <1>1, <1>9
  <2>2. \A p \in DOMAIN own : p \in DOMAIN a \/ p[1] = AnonKey
    BY <1>3, <1>6, <2>1 DEF Overlay
  <2>3. Has(own, SetKey) => Has(a, SetKey)
    BY <2>2 DEF Has, AnonKey, SetKey
  <2>4. \A key : key \notin Unshared(kind) /\ <<key>> \in DOMAIN own => <<key>> \in DOMAIN a
    BY <1>6, <2>2 DEF Unshared
  <2> QED BY <1>9, <2>3, <2>4 DEF own, a
<1>10. CASE kind = "main"
  <2>1. own = main
    BY <1>1, <1>10
  <2>2. Has(own, SetKey) => Has(a, SetKey)
    BY <1>8, <2>1 DEF Has, ToolKey, IsErrorKey, ParametersKey, SetKey
  <2>3. \A key : key \notin Unshared(kind) /\ <<key>> \in DOMAIN own =>
           <<key>> \in DOMAIN a \/ key = ToolKey
    BY <1>6, <1>8, <2>1 DEF Unshared
  <2> QED BY <1>8, <2>1, <2>2, <2>3 DEF own, a
<1>11. CASE kind = "exception"
  <2>1. own = Overlay(some, ExceptionList)
    BY <1>1, <1>11
  <2>2. /\ DOMAIN some = copied /\ \A p \in copied : some[p] = main[p]
        /\ <<ToolKey>> \in copied
    BY <1>6, <1>8 DEF Only
  <2>3. ~Has(ExceptionList, ToolKey)
    BY <1>5 DEF Has, ExceptionKey, ToolKey
  <2> HIDE DEF some
  <2>4. <<ToolKey>> \in DOMAIN own /\ own[<<ToolKey>>] = Text(8)
    BY <1>6, <1>8, <2>1, <2>2, <2>3, OverlayKeeps
  <2>5. \A p \in DOMAIN own :
           \/ p[1] = ExceptionKey
           \/ p \in DOMAIN main /\ p[1] \in K
    BY <1>5, <2>1, <2>2 DEF Overlay
  <2>6. ~Has(own, SetKey)
    BY <2>5 DEF Has, ExceptionKey, SessionKey, ToolKey, ProfileKey, SetKey
  <2>7. \A key : key \notin Unshared(kind) /\ <<key>> \in DOMAIN own =>
           <<key>> \in DOMAIN a \/ key = ToolKey
    BY <1>6, <1>8, <2>5 DEF Unshared, SessionKey, ToolKey, ProfileKey, IsErrorKey, ParametersKey
  <2> QED BY <2>4, <2>6, <2>7 DEF own, a
<1> QED BY <1>9, <1>10, <1>11 DEF Automatic

\* What a shared key has in any automatic event, unless EventProperties gave it.
IsFixed(life, key) == <<key>> \in DOMAIN Attribution(life) \/ key \in {SourceKey, ToolKey}

\* The mark that there is no person is always the same.
LEMMA OneMark ==
    ASSUME NEW life, IsLifecycle(life), <<ProfileKey>> \in DOMAIN Attribution(life)
    PROVE  Attribution(life)[<<ProfileKey>>] = False
<1>1. CASE ~IsIdentified(life)
  BY <1>1, AttributionFacts
<1>2. CASE IsIdentified(life)
  <2> DEFINE s == At(SessionKey, life.session)
             b == IF life.person.set = Empty THEN Empty ELSE Under(SetKey, life.person.set)
             p == <<ProfileKey>>
  <2>1. Attribution(life) = Overlay(s, b)
    BY <1>2 DEF Attribution
  <2>2. p[1] = ProfileKey /\ ProfileKey # SessionKey /\ ProfileKey # SetKey
    BY DEF ProfileKey, SessionKey, SetKey
  <2>3. p \notin DOMAIN s
    BY <2>2 DEF At
  <2>4. p \notin DOMAIN b
    <3>1. SetKey \in Int /\ IsTree(life.person.set)
      BY DEF IsLifecycle, SetKey
    <3>2. \A q \in DOMAIN Under(SetKey, life.person.set) : q[1] = SetKey
      BY <3>1, UnderTree
    <3>3. p \notin DOMAIN Under(SetKey, life.person.set)
      BY <2>2, <3>2
    <3>4. DOMAIN Empty = {}
      BY DEF Empty
    <3> QED BY <3>3, <3>4
  <2> HIDE DEF s, b, p
  <2>5. p \notin DOMAIN Attribution(life)
    BY <2>1, <2>3, <2>4 DEF Overlay
  <2> QED BY <2>5 DEF p
<1> QED BY <1>1, <1>2

\* Whichever automatic event it is, what it has under a shared key is the same.
LEMMA SharedValue ==
    ASSUME NEW life, IsLifecycle(life), ~life.custom, NEW resolved, NEW kind \in Automatic,
           NEW key \in Int, key \notin Unshared(kind),
           <<key>> \in DOMAIN MergedEvent(life, resolved, kind).properties
    PROVE  /\ MergedEvent(life, resolved, kind).properties[<<key>>] = Shared(life, resolved, key)
           /\ \/ IsFixed(life, key) \/ <<key>> \in DOMAIN resolved
              \/ key = ProfileKey /\ IsNobody(life, resolved)
<1> DEFINE p      == <<key>>
           a      == Attribution(life)
           id     == PersonID(life)
           mine   == OwnProperties(life, kind)
           own    == Overlay(resolved, mine)
           mark   == At(SourceKey, Text(21))
           source == Overlay(own, mark)
           claim  == Overlay(source, a)
           profile == At(ProfileKey, False)
           marked == Overlay(claim, profile)
           value  == IF p \in DOMAIN a THEN a[p]
                     ELSE IF key = SourceKey THEN Text(21)
                     ELSE IF key = ToolKey THEN Text(8)
                     ELSE resolved[p]
           props  == MergedEvent(life, resolved, kind).properties
<1>1. life.attributed /\ p[1] = key
  BY DEF IsLifecycle
<1>2. props = Anonymized(id, claim)
  BY <1>1 DEF MergedEvent, PersonID
<1>3. <<SessionKey>> \in DOMAIN a /\ a[<<SessionKey>>] = life.session
  BY AttributionFacts
<1>4. /\ Has(mine, SetKey) => Has(a, SetKey)
      /\ p \in DOMAIN mine => p \in DOMAIN a \/ key = ToolKey
      /\ key = ToolKey => p \in DOMAIN mine /\ mine[p] = Text(8)
  BY OwnShared DEF Unshared
<1>5. DOMAIN mark = {<<SourceKey>>} /\ mark[<<SourceKey>>] = Text(21)
  BY DEF At
<1>6. DOMAIN profile = {<<ProfileKey>>} /\ profile[<<ProfileKey>>] = False
  BY DEF At
<1>7. p = <<SourceKey>> <=> key = SourceKey
  OBVIOUS
<1>8. p = <<ProfileKey>> <=> key = ProfileKey
  OBVIOUS
<1> HIDE DEF p, a, mine, mark, profile, id, props
<1>9. /\ p \in DOMAIN claim => claim[p] = value
      /\ p \in DOMAIN claim => \/ p \in DOMAIN a \/ key \in {SourceKey, ToolKey}
                              \/ p \in DOMAIN resolved
  <2>1. /\ p \in DOMAIN own => own[p] = IF p \in DOMAIN mine THEN mine[p] ELSE resolved[p]
        /\ p \in DOMAIN own => p \in DOMAIN mine \/ p \in DOMAIN resolved
    BY DEF Overlay
  <2> HIDE DEF own
  <2>2. /\ p \in DOMAIN source => source[p] = IF p \in DOMAIN mark THEN mark[p] ELSE own[p]
        /\ p \in DOMAIN source /\ p \notin DOMAIN mark => p \in DOMAIN own
    BY DEF Overlay
  <2> HIDE DEF source
  <2>3. /\ p \in DOMAIN claim => claim[p] = IF p \in DOMAIN a THEN a[p] ELSE source[p]
        /\ p \in DOMAIN claim /\ p \notin DOMAIN a => p \in DOMAIN source
    BY DEF Overlay
  <2> HIDE DEF claim
  <2>4. p \in DOMAIN mark <=> key = SourceKey
    BY <1>5, <1>7
  <2>5. key = SourceKey => mark[p] = Text(21)
    BY <1>5, <1>7
  <2> QED BY <1>4, <2>1, <2>2, <2>3, <2>4, <2>5
<1>10. Has(claim, SetKey) <=> Has(resolved, SetKey) \/ Has(a, SetKey)
  <2>1. ~Has(mark, SetKey)
    BY <1>5 DEF Has, SourceKey, SetKey
  <2>2. Has(own, SetKey) <=> Has(resolved, SetKey) \/ Has(mine, SetKey)
    BY OverlayHas
  <2> HIDE DEF own
  <2>3. Has(source, SetKey) <=> Has(own, SetKey) \/ Has(mark, SetKey)
    BY OverlayHas
  <2> HIDE DEF source
  <2>4. Has(claim, SetKey) <=> Has(source, SetKey) \/ Has(a, SetKey)
    BY OverlayHas
  <2> QED BY <1>4, <2>1, <2>2, <2>3, <2>4
<1>11. <<SessionKey>> \in DOMAIN claim /\ claim[<<SessionKey>>] = life.session
  <2> HIDE DEF source
  <2> QED BY <1>3 DEF Overlay
<1> HIDE DEF claim
<1>12. Has(claim, SessionKey)
  <2>1. <<SessionKey>>[1] = SessionKey
    OBVIOUS
  <2> QED BY <1>11, <2>1 DEF Has
<1>13. props = IF IsNobody(life, resolved) THEN marked ELSE claim
  BY <1>2, <1>10, <1>11, <1>12 DEF Anonymized, IsNobody, a, id, profile
<1>14. /\ p \in DOMAIN marked => marked[p] = IF p \in DOMAIN profile THEN profile[p] ELSE claim[p]
       /\ p \in DOMAIN marked /\ p \notin DOMAIN profile => p \in DOMAIN claim
  BY DEF Overlay
<1>15. Shared(life, resolved, key) =
          IF key = ProfileKey /\ IsNobody(life, resolved) THEN False ELSE value
  BY DEF Shared, p, a
<1>16. /\ p \in DOMAIN profile <=> key = ProfileKey
       /\ key = ProfileKey => profile[p] = False
  BY <1>6, <1>8
<1>17. p \in DOMAIN props
  BY DEF p, props
<1> HIDE DEF marked, value
<1>18. props[p] = Shared(life, resolved, key)
  BY <1>9, <1>13, <1>14, <1>15, <1>16, <1>17
<1>19. \/ IsFixed(life, key) \/ p \in DOMAIN resolved
       \/ key = ProfileKey /\ IsNobody(life, resolved)
  BY <1>9, <1>13, <1>14, <1>16, <1>17 DEF IsFixed, a, p
<1> QED BY <1>18, <1>19 DEF props, p

\* The value under a shared key is the same whatever EventProperties says, if it says
\* nothing about that key, or if the key is that of the session.
LEMMA SameValue ==
    ASSUME NEW life, IsLifecycle(life), ~life.custom, NEW ra, NEW rb,
           NEW ka \in Automatic, NEW kb \in Automatic, NEW key \in Int,
           key \notin Unshared(ka), key \notin Unshared(kb),
           <<key>> \in DOMAIN MergedEvent(life, ra, ka).properties,
           <<key>> \in DOMAIN MergedEvent(life, rb, kb).properties,
           key = SessionKey \/ (~Has(ra, key) /\ ~Has(rb, key))
    PROVE  MergedEvent(life, ra, ka).properties[<<key>>] = MergedEvent(life, rb, kb).properties[<<key>>]
<1> DEFINE p == <<key>>
           a == Attribution(life)
<1>1. /\ MergedEvent(life, ra, ka).properties[p] = Shared(life, ra, key)
      /\ \/ IsFixed(life, key) \/ p \in DOMAIN ra \/ (key = ProfileKey /\ IsNobody(life, ra))
  BY SharedValue
<1>2. /\ MergedEvent(life, rb, kb).properties[p] = Shared(life, rb, key)
      /\ \/ IsFixed(life, key) \/ p \in DOMAIN rb \/ (key = ProfileKey /\ IsNobody(life, rb))
  BY SharedValue
<1>3. p[1] = key
  OBVIOUS
<1>4. key # SessionKey => p \notin DOMAIN ra /\ p \notin DOMAIN rb
  BY <1>3 DEF Has
<1>5. key = SessionKey => p \in DOMAIN a /\ key # ProfileKey
  BY AttributionFacts DEF SessionKey, ProfileKey
<1>6. CASE key = ProfileKey
  <2>1. key \notin {SourceKey, ToolKey, SessionKey}
    BY <1>6 DEF ProfileKey, SourceKey, ToolKey, SessionKey
  <2>2. p \in DOMAIN a => a[p] = False
    BY <1>6, OneMark
  <2>3. Shared(life, ra, key) = False
    BY <1>1, <1>4, <1>6, <2>1, <2>2 DEF Shared, IsFixed
  <2>4. Shared(life, rb, key) = False
    BY <1>2, <1>4, <1>6, <2>1, <2>2 DEF Shared, IsFixed
  <2> QED BY <1>1, <1>2, <2>3, <2>4
<1>7. CASE key # ProfileKey
  <2>1. IsFixed(life, key)
    BY <1>1, <1>4, <1>5, <1>7 DEF IsFixed
  <2>2. Shared(life, ra, key) = Shared(life, rb, key)
    BY <1>7, <2>1 DEF Shared, IsFixed
  <2> QED BY <1>1, <1>2, <2>2
<1> QED BY <1>6, <1>7

-----------------------------------------------------------------------------
(***************************************************************************)
(* What BeforeSend sees.                                                   *)
(***************************************************************************)
\* An event that is offered is what sanitizeAndBoundEvent made of the merged one.
LEMMA OfferedFacts ==
    ASSUME PipelineInv, NEW ref \in Offered
    PROVE  LET life   == Life(ref)
               merged == MergedEvent(life, Used(ref), ref[2])
               e      == Carried(ref)
           IN  /\ IsLifecycle(life)
               /\ Used(ref) \in life.resolves \cup {Empty}
               /\ ref = <<ref[1], ref[2], "event">> /\ ref[2] \in EventKinds
               /\ ref[2] \in Planned(life)
               /\ Fits(e) /\ Reduces(merged.properties, e.properties)
               /\ IsSanitized(e.groups) /\ e.groups = SanitizeValue(merged.groups, MaxDepth)
               /\ e.distinctID = merged.distinctID
               /\ IsClean(e.name) /\ IsClean(e.distinctID)
<1> DEFINE r      == ref[1]
           w      == work[r]
           used   == Used(ref)
           merged == MergedEvent(Life(ref), used, ref[2])
           e      == Carried(ref)
<1>1. ref \in DOMAIN heap /\ ref \in Refs /\ ref[3] = "event"
  BY DEF Offered, PipelineInv, HeapInv
<1>2. r \in Requests /\ ref[2] \in EventKinds /\ ref = <<r, ref[2], "event">>
  BY <1>1 DEF Refs
<1>3. /\ e = Built(w.life, used, ref[2]) /\ Fits(e) /\ w.pc # "idle"
      /\ ref[2] \in Planned(w.life)
  BY <1>1 DEF PipelineInv, HeapInv, IsBuilt, IsPlace, Carried, Used
<1>4. w.life \in Lifecycles[r] /\ used \in w.life.resolves \cup {Empty}
  BY <1>2, <1>3 DEF PipelineInv, WorkInv, IsWork, Used
<1>5. IsLifecycle(w.life) /\ Life(ref) = w.life
  BY <1>2, <1>4, PipelineAssumption DEF Life
<1> HIDE DEF w, r, used
<1>6. /\ IsEvent(merged) /\ IsTree(merged.properties) /\ IsTree(merged.groups)
      /\ IsLeaf(merged.distinctID) /\ IsLeaf(merged.name)
      /\ TruncateUTF8(SanitizeString(merged.distinctID), MaxStringBytes) = merged.distinctID
  BY <1>2, <1>4, <1>5, MergedFacts
<1>7. e = SanitizeAndBoundEvent(merged)
  BY <1>3, <1>5 DEF Built
<1> HIDE DEF merged, e
<1>8. /\ Reduces(merged.properties, e.properties)
      /\ IsSanitized(e.groups) /\ e.groups = SanitizeValue(merged.groups, MaxDepth)
      /\ e.distinctID = merged.distinctID /\ IsClean(e.name) /\ IsClean(e.distinctID)
  BY <1>6, <1>7, BoundedEvent
<1> QED BY <1>2, <1>3, <1>4, <1>5, <1>8 DEF merged, e, w, r, used

LEMMA OfferedIsPrivate == PipelineInv => SecretsRedacted
<1> SUFFICES ASSUME PipelineInv, NEW ref \in Offered
             PROVE  /\ IsPrivate(Carried(ref).properties) /\ IsPrivate(Carried(ref).groups)
                    /\ IsClean(Carried(ref).name) /\ IsClean(Carried(ref).distinctID)
  BY DEF SecretsRedacted
<1> QED BY OfferedFacts DEF Reduces, IsSanitized

LEMMA OfferedIsLimited == PipelineInv => LimitsKept
<1> SUFFICES ASSUME PipelineInv, NEW ref \in Offered
             PROVE  /\ IsLimited(Carried(ref).properties) /\ IsLimited(Carried(ref).groups)
                    /\ FieldsAreLimited(Carried(ref).properties)
                    /\ Fits(Carried(ref))
  BY DEF LimitsKept
<1> QED BY OfferedFacts DEF Reduces, IsSanitized

LEMMA OfferedIsAttributed == PipelineInv => EventsAttributed
<1> SUFFICES ASSUME PipelineInv, NEW ref \in Offered, Life(ref).attributed
             PROVE  LET life == Life(ref)  properties == Carried(ref).properties
                    IN  /\ WithinBreadth(ref, SessionKey) =>
                              /\ Has(properties, SessionKey)
                              /\ properties[<<SessionKey>>] = life.session
                        /\ IF IsIdentified(life)
                           THEN Carried(ref).distinctID = life.person.distinctID
                           ELSE /\ Carried(ref).distinctID = life.session
                                /\ WithinBreadth(ref, ProfileKey) =>
                                      /\ Has(properties, ProfileKey)
                                      /\ properties[<<ProfileKey>>] = False
  BY DEF EventsAttributed
<1> DEFINE life   == Life(ref)
           merged == MergedEvent(life, Used(ref), ref[2])
           t      == merged.properties
           s      == Carried(ref).properties
<1>1. /\ IsLifecycle(life) /\ Reduces(t, s) /\ Carried(ref).distinctID = merged.distinctID
      /\ Used(ref) \in life.resolves \cup {Empty} /\ ref[2] \in EventKinds
  BY OfferedFacts
<1>2. /\ merged.distinctID = IF IsIdentified(life) THEN life.person.distinctID ELSE life.session
      /\ <<SessionKey>> \in DOMAIN t /\ t[<<SessionKey>>] = life.session
      /\ ~IsIdentified(life) => <<ProfileKey>> \in DOMAIN t /\ t[<<ProfileKey>>] = False
  BY <1>1, MergedFacts
<1>3. \A key : WithinBreadth(ref, key) <=> Cardinality(Before(t, key)) < MaxBreadth
  BY DEF WithinBreadth, Merged, Before
<1> HIDE DEF life, t, s
<1>4. ASSUME NEW key \in {SessionKey, ProfileKey}, NEW v, IsSteady(v),
             <<key>> \in DOMAIN t, t[<<key>>] = v, WithinBreadth(ref, key)
      PROVE  Has(s, key) /\ s[<<key>>] = v
  <2>1. key \in Int /\ key < EllipsisKey /\ key \notin SensitiveKeys /\ <<key>>[1] = key
    BY DEF SessionKey, ProfileKey, EllipsisKey, SensitiveKeys, PasswordKey
  <2>2. Holds(t, key, v)
    BY <1>3, <1>4, <2>1 DEF Holds
  <2>3. <<key>> \in DOMAIN s /\ s[<<key>>] = v
    BY <1>1, <2>2 DEF Reduces, Holds
  <2> QED BY <2>1, <2>3 DEF Has
<1>5. IsSteady(life.session) /\ IsSteady(False)
  BY <1>1, PlainFacts, FalseFacts DEF IsLifecycle
<1>6. WithinBreadth(ref, SessionKey) => Has(s, SessionKey) /\ s[<<SessionKey>>] = life.session
  BY <1>2, <1>4, <1>5
<1>7. ~IsIdentified(life) /\ WithinBreadth(ref, ProfileKey) =>
         Has(s, ProfileKey) /\ s[<<ProfileKey>>] = False
  BY <1>2, <1>4, <1>5
<1> QED BY <1>1, <1>2, <1>6, <1>7 DEF life, s

\* Two events of one request that are offered.
LEMMA OfferedAgree == PipelineInv => SiblingsAgree
<1> SUFFICES ASSUME PipelineInv, NEW a \in Offered, NEW b \in Offered, a[1] = b[1], a # b
             PROVE  LET x == Carried(a).properties  y == Carried(b).properties
                        merged == Merged(a).properties
                    IN  /\ Carried(a).distinctID = Carried(b).distinctID
                        /\ Carried(a).groups = Carried(b).groups
                        /\ \A p \in DOMAIN x \cap DOMAIN y :
                              /\ Len(p) = 1 /\ p[1] \notin OwnKeys({a[2], b[2]})
                              /\ p \in DOMAIN merged /\ IsStable(merged[p])
                              /\ \/ Used(a) = Used(b)
                                 \/ p[1] = SessionKey
                                 \/ ~Has(Used(a), p[1]) /\ ~Has(Used(b), p[1])
                              => x[p] = y[p]
  BY DEF SiblingsAgree
<1> DEFINE life     == Life(a)
           ua       == Used(a)
           ub       == Used(b)
           m        == MergedEvent(life, ua, a[2])
           n        == MergedEvent(life, ub, b[2])
           x        == Carried(a).properties
           y        == Carried(b).properties
<1>1. Life(b) = life /\ Merged(a) = m
  BY DEF Life, Merged
<1>2. /\ IsLifecycle(life) /\ a = <<a[1], a[2], "event">>
      /\ a[2] \in EventKinds /\ a[2] \in Planned(life)
      /\ Reduces(m.properties, x)
      /\ Carried(a).groups = SanitizeValue(m.groups, MaxDepth)
      /\ Carried(a).distinctID = m.distinctID
  BY OfferedFacts
<1>3. /\ b = <<b[1], b[2], "event">> /\ b[2] \in EventKinds /\ b[2] \in Planned(life)
      /\ Reduces(n.properties, y)
      /\ Carried(b).groups = SanitizeValue(n.groups, MaxDepth)
      /\ Carried(b).distinctID = n.distinctID
  BY <1>1, OfferedFacts
<1>4. a[2] # b[2]
  BY <1>2, <1>3
<1>5. ~life.custom /\ a[2] \in Automatic /\ b[2] \in Automatic
  BY <1>2, <1>3, <1>4, PlannedKinds DEF EventKinds, Automatic
<1>6. m.distinctID = n.distinctID /\ m.groups = n.groups
  BY <1>5 DEF MergedEvent
<1> HIDE DEF life, ua, ub, x, y
<1>7. ASSUME NEW p \in DOMAIN x, p \in DOMAIN y, Len(p) = 1, p[1] \notin OwnKeys({a[2], b[2]}),
             p \in DOMAIN m.properties, IsStable(m.properties[p]),
             ua = ub \/ p[1] = SessionKey \/ (~Has(ua, p[1]) /\ ~Has(ub, p[1]))
      PROVE  x[p] = y[p]
  <2> DEFINE key == p[1]
  <2>1. IsTree(x) /\ IsPrivate(x) /\ IsPrivate(y)
    BY <1>2, <1>3 DEF Reduces, IsSanitized
  <2>2. p \in Paths /\ key \in Int /\ p = <<key>>
    <3>1. p \in Paths
      BY <1>7, <2>1, TreeFacts
    <3> QED BY <1>7, <3>1 DEF Paths
  <2>3. CASE key \in SensitiveKeys
    BY <1>7, <2>1, <2>3 DEF IsPrivate, InMap
  <2>4. CASE key \notin SensitiveKeys
    <3>1. key # EllipsisKey /\ key \notin Unshared(a[2]) /\ key \notin Unshared(b[2])
      BY <1>7 DEF OwnKeys, Unshared
    <3>2. IsSteady(m.properties[p])
      BY <1>7, PlainFacts, FalseFacts DEF IsStable, False
    <3> HIDE DEF m, n
    <3>3. x[p] = m.properties[p]
      BY <1>2, <1>7, <2>2, <2>4, <3>1, <3>2 DEF Reduces, Keeps
    <3>4. p \in DOMAIN n.properties
      BY <1>3, <1>7, <2>2, <2>4, <3>1 DEF Reduces, Keeps
    <3>5. m.properties[p] = n.properties[p]
      <4>1. CASE ua = ub
        <5>1. m.properties[p] = Shared(life, ua, key)
          BY <1>2, <1>5, <1>7, <2>2, <3>1, SharedValue DEF m
        <5>2. n.properties[p] = Shared(life, ub, key)
          BY <1>2, <1>5, <2>2, <3>1, <3>4, SharedValue DEF n
        <5> QED BY <4>1, <5>1, <5>2
      <4>2. CASE key = SessionKey \/ (~Has(ua, key) /\ ~Has(ub, key))
        BY <1>2, <1>5, <1>7, <2>2, <3>1, <3>4, <4>2, SameValue DEF m, n
      <4> QED BY <1>7, <4>1, <4>2
    <3>6. y[p] = n.properties[p]
      BY <1>3, <1>7, <2>2, <2>4, <3>1, <3>2, <3>5 DEF Reduces, Keeps
    <3> QED BY <3>3, <3>5, <3>6
  <2> QED BY <2>3, <2>4
<1> HIDE DEF m, n
<1> QED BY <1>1, <1>2, <1>3, <1>6, <1>7 DEF x, y, ua, ub

\* Whatever the caller, EventProperties and the person's properties hold, BeforeSend gets
\* no bytes, no binary block, no value of a sensitive key, and in no text a token or an
\* encoded binary of Base64SizeGate or more bytes: at no depth of the properties and the
\* groups, in the event's name and in its distinct id.  What the text of an error value
\* holds, and what is encoded in fewer bytes, is left, against SPEC.md:203-204.
THEOREM PipelineRedactsSecrets == PipelineSpec => []SecretsRedacted
<1> QED BY PipelineInvariant, OfferedIsPrivate, PTL

\* And it is within all limits, of depth, breadth, strings, fields and size.
THEOREM PipelineKeepsLimits == PipelineSpec => []LimitsKept
<1> QED BY PipelineInvariant, OfferedIsLimited, PTL

\* No value of the caller or EventProperties, and no cut to fit the budget, takes from an
\* event the session and the person of its request, or the mark that there is none.
THEOREM PipelineAttributesEvents == PipelineSpec => []EventsAttributed
<1> QED BY PipelineInvariant, OfferedIsAttributed, PTL

\* Hooks and other requests run between the events of a request, each is sanitized and
\* cut for itself, and the map of EventProperties, which they share without a copy, may
\* be changed in between.  They still name the same person, session and groups, whatever
\* becomes of the map, and agree in every value they share that no reduction has to do
\* with and the map does not give; in those it gives, while it is not changed.
THEOREM PipelineSiblingsAgree == PipelineSpec => []SiblingsAgree
<1> QED BY PipelineInvariant, OfferedAgree, PTL
-----------------------------------------------------------------------------
(***************************************************************************)
(* Nothing is given up that could be made to fit.                          *)
(***************************************************************************)
\* An event of the plan has had its turn once it is built, or lost.
HasTurn(w, kind) ==
    /\ w.pc \notin {"idle", "resolve"}
    /\ kind \in Planned(w.life)
    /\ ~(kind \in Pending(w) /\ (w.pc = "build" \/ kind # w.todo[1]))

WasOffered(r, kind) ==
    \/ <<r, kind, "event">> \in DOMAIN heap
    \/ ~Fits(Built(work[r].life, work[r].used[kind], kind))

\* Every event that has had its turn was offered, unless it did not fit: what happened to
\* its siblings, their hooks and other requests does not matter.
TurnsInv ==
    \A r \in Requests : \A kind \in EventKinds :
        HasTurn(work[r], kind) => WasOffered(r, kind)

LEMMA TurnsKept ==
    ASSUME TurnsInv, NEW r \in Requests, DOMAIN heap \subseteq DOMAIN heap',
           \A q \in Requests \ {r} : work'[q] = work[q],
           \A kind \in EventKinds : HasTurn(work'[r], kind) => WasOffered(r, kind)'
    PROVE  TurnsInv'
<1> SUFFICES ASSUME NEW q \in Requests, NEW kind \in EventKinds, HasTurn(work'[q], kind)
             PROVE  WasOffered(q, kind)'
  BY DEF TurnsInv
<1>1. CASE q = r
  BY <1>1
<1>2. CASE q # r
  BY <1>2 DEF TurnsInv, WasOffered
<1> QED BY <1>1, <1>2

\* Settling an event gives no other one its turn.
LEMMA SettledTurn ==
    ASSUME PipelineInv, TurnsInv, NEW r \in Requests,
           work[r].pc \in {"build", "hook", "snapshot"},
           Settles(r), DOMAIN heap \subseteq DOMAIN heap',
           work[r].pc = "build" =>
              /\ work' = [work EXCEPT ![r] = GivenUp(r)]
              /\ ~Fits(Built(work[r].life, work[r].resolved, Kind(r)))
    PROVE  TurnsInv'
<1> DEFINE w == work[r]
           n == work'[r]
<1>2. /\ IsWork(n, Lifecycles[r]) /\ n.life = w.life
      /\ n.pc \in {"build", "done"} /\ Kind(r) = w.todo[1] /\ Kind(r) \in Planned(w.life)
      /\ Kind(r) \in EventKinds /\ Pending(n) = Pending(w) \ {Kind(r)}
      /\ \A kind \in EventKinds :
            kind # Kind(r) \/ w.pc # "build" => n.used[kind] = w.used[kind]
      /\ w.pc = "build" => n.used[Kind(r)] = w.resolved
  BY SettlesFacts
<1>3. n.pc = "done" => Pending(n) = {}
  BY <1>2 DEF IsWork, Pending
<1>4. \A q \in Requests \ {r} : work'[q] = work[q]
  BY SettlesFacts
<1> HIDE DEF n
<1>5. ASSUME NEW kind \in EventKinds, HasTurn(n, kind)  PROVE WasOffered(r, kind)'
  <2>1. kind \in Planned(w.life) /\ (kind \notin Pending(w) \/ kind = Kind(r))
    BY <1>2, <1>3, <1>5 DEF HasTurn
  <2>2. HasTurn(w, kind) => WasOffered(r, kind)
    BY DEF TurnsInv
  <2>3. CASE w.pc = "build" /\ kind = Kind(r)
    BY <1>2, <2>3 DEF WasOffered, n
  <2>4. CASE ~(w.pc = "build" /\ kind = Kind(r))
    <3>1. WasOffered(r, kind)
      BY <1>2, <2>1, <2>2, <2>4 DEF HasTurn
    <3> QED BY <1>2, <2>4, <3>1 DEF WasOffered, n
  <2> QED BY <2>3, <2>4
<1> QED BY <1>4, <1>5, TurnsKept DEF n

LEMMA BuildTurns ==
    ASSUME PipelineInv, TurnsInv, NEW r \in Requests, Build(r)
    PROVE  TurnsInv'
<1> DEFINE w     == work[r]
           built == Built(w.life, w.resolved, Kind(r))
<1>1. DOMAIN work = Requests /\ IsWork(w, Lifecycles[r]) /\ w.pc = "build"
  BY DEF PipelineInv, WorkInv, Build, AtStep
<1>2. CASE ~Fits(built)
  <2>1. work' = [work EXCEPT ![r] = GivenUp(r)] /\ UNCHANGED heap
    BY <1>2 DEF Build
  <2> QED BY <1>1, <1>2, <2>1, SettledTurn DEF Settles, AtStep
<1>3. CASE Fits(built)
  <2>1. /\ heap' = Put(heap, Ref(r, "event"), [event |-> built, state |-> "built"])
        /\ work' = [work EXCEPT ![r] = [Read(r) EXCEPT !.pc = "hook"]]
    BY <1>3 DEF Build
  <2>2. Kind(r) = w.todo[1] /\ Ref(r, "event") = <<r, Kind(r), "event">>
    BY <1>1, SettledWork DEF Ref
  <2>3. DOMAIN heap' = DOMAIN heap \cup {<<r, Kind(r), "event">>}
    <3> HIDE DEF built
    <3> QED BY <2>1, <2>2 DEF Put
  <2>4. /\ work'[r].life = w.life /\ work'[r].todo = w.todo /\ work'[r].pc = "hook"
        /\ \A kind \in EventKinds \ {Kind(r)} : work'[r].used[kind] = w.used[kind]
        /\ Pending(work'[r]) = Pending(w)
        /\ \A q \in Requests \ {r} : work'[q] = work[q]
    BY <1>1, <2>1, BuiltWork
  <2>6. ASSUME NEW kind \in EventKinds, HasTurn(work'[r], kind)  PROVE WasOffered(r, kind)'
    <3>1. CASE kind = Kind(r)
      BY <2>3, <3>1 DEF WasOffered
    <3>2. CASE kind # Kind(r)
      <4>1. HasTurn(w, kind)
        BY <1>1, <2>2, <2>4, <2>6, <3>2 DEF HasTurn
      <4>2. WasOffered(r, kind)
        BY <4>1 DEF TurnsInv
      <4> QED BY <2>3, <2>4, <3>2, <4>2 DEF WasOffered
    <3> QED BY <3>1, <3>2
  <2> QED BY <2>3, <2>4, <2>6, TurnsKept
<1> QED BY <1>2, <1>3

LEMMA HookTurns ==
    ASSUME PipelineInv, TurnsInv, NEW r \in Requests, HookReturns(r) \/ HookReplaces(r)
    PROVE  TurnsInv'
<1> DEFINE w == work[r]
<1>1. DOMAIN work = Requests /\ w \in WorkStates(Lifecycles[r]) /\ w.pc = "hook"
  BY DEF PipelineInv, WorkInv, HookReturns, HookReplaces, AtStep, IsWork
<1>2. DOMAIN heap \subseteq DOMAIN heap'
        /\ \E ref : work' = [work EXCEPT ![r].pc = "snapshot", ![r].returned = ref]
  BY DEF HookReturns, HookReplaces, Put
<1>3. PICK ref : work' = [work EXCEPT ![r].pc = "snapshot", ![r].returned = ref]
  BY <1>2
<1>4. /\ work'[r].life = w.life /\ work'[r].used = w.used
      /\ work'[r].todo = w.todo /\ work'[r].pc = "snapshot"
      /\ \A q \in Requests \ {r} : work'[q] = work[q]
  <2>1. \A v \in WorkStates(Lifecycles[r]) :
           LET x == [v EXCEPT !.pc = "snapshot", !.returned = ref]
           IN  x.life = v.life /\ x.used = v.used /\ x.todo = v.todo /\ x.pc = "snapshot"
    BY DEF WorkStates
  <2>2. work'[r] = [w EXCEPT !.pc = "snapshot", !.returned = ref]
        /\ \A q \in Requests \ {r} : work'[q] = work[q]
    BY <1>1, <1>3
  <2> QED BY <1>1, <2>1, <2>2
<1>5. ASSUME NEW kind \in EventKinds, HasTurn(work'[r], kind)  PROVE WasOffered(r, kind)'
  <2>1. HasTurn(w, kind)
    BY <1>1, <1>4, <1>5 DEF HasTurn, Pending
  <2>2. WasOffered(r, kind)
    BY <2>1 DEF TurnsInv
  <2> QED BY <1>2, <1>4, <2>2 DEF WasOffered
<1> QED BY <1>2, <1>4, <1>5, TurnsKept

\* A request that begins, or resolves, has all its events before it; and a change of
\* the map gives none its turn.
LEMMA EarlyTurns ==
    ASSUME PipelineInv, TurnsInv, NEW r \in Requests,
           Begin(r) \/ Resolve(r) \/ ChangeResolved(r)
    PROVE  TurnsInv'
<1> DEFINE w == work[r]
<1>1. /\ DOMAIN work = Requests /\ IsWork(w, Lifecycles[r]) /\ w \in WorkStates(Lifecycles[r])
      /\ UNCHANGED heap
  BY DEF PipelineInv, WorkInv, IsWork, Begin, Resolve, ChangeResolved
<1>2. CASE Begin(r)
  <2>1. PICK life \in Lifecycles[r] :
           work' = [work EXCEPT ![r] = [@ EXCEPT !.pc = "resolve", !.life = life,
                                                 !.todo = Plan(life)]]
    BY <1>2 DEF Begin
  <2>2. work'[r] = [w EXCEPT !.pc = "resolve", !.life = life, !.todo = Plan(life)]
        /\ \A q \in Requests \ {r} : work'[q] = work[q]
    BY <1>1, <2>1
  <2>3. \A v \in WorkStates(Lifecycles[r]) : \A plan :
           [v EXCEPT !.pc = "resolve", !.life = life, !.todo = plan].pc = "resolve"
    BY DEF WorkStates
  <2>4. work'[r].pc = "resolve"
    BY <1>1, <2>2, <2>3
  <2> QED BY <1>1, <2>2, <2>4, TurnsKept DEF HasTurn
<1>3. CASE Resolve(r) \/ ChangeResolved(r)
  <2>1. /\ w.pc \in {"resolve", "build"} /\ work'[r].pc = "build"
        /\ work'[r].life = w.life /\ work'[r].todo = w.todo /\ work'[r].used = w.used
        /\ \A q \in Requests \ {r} : work'[q] = work[q]
    BY <1>3, ResolveStep
  <2>2. Pending(work'[r]) = Pending(w)
    BY <2>1 DEF Pending
  <2>3. ASSUME NEW kind \in EventKinds, HasTurn(work'[r], kind)  PROVE WasOffered(r, kind)'
    <3>1. kind \in Planned(w.life) /\ kind \notin Pending(w)
      BY <2>1, <2>2, <2>3 DEF HasTurn
    <3>2. w.pc # "resolve"
      BY <1>1, <3>1 DEF IsWork, Planned, Pending
    <3>3. WasOffered(r, kind)
      BY <2>1, <3>1, <3>2 DEF TurnsInv, HasTurn
    <3> QED BY <1>1, <2>1, <3>3 DEF WasOffered
  <2> QED BY <1>1, <2>1, <2>3, TurnsKept
<1> QED BY <1>2, <1>3

LEMMA TurnsStep == PipelineInv /\ TurnsInv /\ [PipelineNext]_pipelineVars => TurnsInv'
<1> SUFFICES ASSUME PipelineInv, TurnsInv, [PipelineNext]_pipelineVars  PROVE TurnsInv'
  OBVIOUS
<1>1. CASE UNCHANGED pipelineVars
  BY <1>1 DEF pipelineVars, TurnsInv, WasOffered
<1>2. CASE Scribble
  <2>1. UNCHANGED work /\ DOMAIN heap' = DOMAIN heap
    BY <1>2 DEF Scribble
  <2> QED BY <2>1 DEF TurnsInv, WasOffered
<1>3. ASSUME NEW r \in Requests, Begin(r) \/ PipelineStep(r)  PROVE TurnsInv'
  <2>1. CASE HookDrops(r) \/ Enqueue(r) \/ EnqueueFails(r)
    <3>1. /\ work[r].pc \in {"hook", "snapshot"} /\ Settles(r)
          /\ DOMAIN heap \subseteq DOMAIN heap'
      BY <2>1 DEF HookDrops, Enqueue, EnqueueFails, AtStep, Put, Settles
    <3> QED BY <3>1, SettledTurn
  <2> QED BY <1>3, <2>1, EarlyTurns, BuildTurns, HookTurns DEF PipelineStep
<1> QED BY <1>1, <1>2, <1>3 DEF PipelineNext

LEMMA TurnsStart == PipelineInit => TurnsInv
BY DEF PipelineInit, TurnsInv, HasTurn, IdleWork

\* What a request that is done with has not offered did not fit; and what can be made to
\* fit does.
LEMMA DoneOffered ==
    ASSUME FewAndShort, PipelineInv, TurnsInv
    PROVE  ReducibleIsOffered
<1> SUFFICES ASSUME NEW r \in Requests, AtStep(r, "done"),
                    NEW i \in DOMAIN Plan(work[r].life)
             PROVE  LET kind   == Plan(work[r].life)[i]
                        merged == MergedEvent(work[r].life, work[r].used[kind], kind)
                    IN  \/ <<r, kind, "event">> \in DOMAIN heap
                        \/ Has(merged.properties, EventKey)
                        \/ Irreducible(merged) > MaxEventBytes
  BY DEF ReducibleIsOffered
<1> DEFINE w      == work[r]
           kind   == Plan(w.life)[i]
           merged == MergedEvent(w.life, w.used[kind], kind)
<1>1. /\ IsWork(w, Lifecycles[r]) /\ w.pc = "done" /\ w.todo = <<>>
      /\ w.life \in Lifecycles[r] /\ w.used \in [EventKinds -> w.life.resolves \cup {Empty}]
  BY DEF PipelineInv, WorkInv, IsWork, AtStep
<1>2. kind \in Planned(w.life) /\ kind \in EventKinds
  BY PlanType DEF Planned
<1>3. WasOffered(r, kind)
  <2>1. Pending(w) = {}
    BY <1>1 DEF Pending
  <2> QED BY <1>1, <1>2, <2>1 DEF TurnsInv, HasTurn
<1>4. IsLifecycle(w.life)
  BY <1>1, PipelineAssumption
<1>5. /\ IsEvent(merged) /\ IsTree(merged.properties) /\ IsTree(merged.groups)
      /\ IsLeaf(merged.distinctID) /\ IsLeaf(merged.name) /\ merged.name.kind = "text"
  <2>1. w.used[kind] \in w.life.resolves \cup {Empty}
    BY <1>1, <1>2
  <2> HIDE DEF kind, w
  <2> QED BY <1>2, <1>4, <2>1, MergedFacts
<1>7. CASE <<EventKey>> \in DOMAIN merged.properties
  BY <1>7 DEF Has
<1>8. CASE <<EventKey>> \notin DOMAIN merged.properties /\ ~(Irreducible(merged) > MaxEventBytes)
  <2>1. Fits(SanitizeAndBoundEvent(merged))
    BY <1>5, <1>8, ReducibleFits
  <2>2. Fits(Built(w.life, w.used[kind], kind))
    BY <2>1 DEF Built
  <2> QED BY <1>3, <2>2 DEF WasOffered
<1> QED BY <1>7, <1>8

\* A request that is done has offered every event of its plan that could be made to fit,
\* with strings as long as the code's and up to ten times its breadth: truncation never
\* stops too early, and no failure of a sibling, or of its hook, takes the turn of
\* another event.
THEOREM PipelineOffersReducible ==
    ASSUME FewAndShort
    PROVE  PipelineSpec => []ReducibleIsOffered
<1>1. PipelineInv /\ TurnsInv => ReducibleIsOffered
  BY DoneOffered
<1> QED BY <1>1, PipelineInvariant, TurnsStart, TurnsStep, PTL DEF PipelineSpec
=============================================================================
