----------------------------- MODULE EventFeed -----------------------------
(***************************************************************************)
(* What the PostHog client is promised: a feed of events that only grows.  *)
(* A source plans its events once; each is then either sent, or lost, in   *)
(* the order of the plan.  What was sent stays what it was: nobody changes *)
(* an event of the feed, takes it back, or sends it again.                 *)
(***************************************************************************)
EXTENDS Naturals, Sequences

CONSTANTS
    Sources,      \* who sends events
    Plans         \* the sequences of kinds of events a source may plan

VARIABLES
    feed,         \* the events sent so far
    plan,         \* the kinds of event each source produces, <<>> before it starts
    settled       \* how many of them have been sent or lost

feedVars == <<feed, plan, settled>>

Init ==
    /\ feed = <<>>
    /\ plan = [s \in Sources |-> <<>>]
    /\ settled = [s \in Sources |-> 0]

Start(s) ==
    /\ plan[s] = <<>>
    /\ \E kinds \in Plans : plan' = [plan EXCEPT ![s] = kinds]
    /\ UNCHANGED <<feed, settled>>

Settle(s) ==
    /\ settled[s] < Len(plan[s])
    /\ settled' = [settled EXCEPT ![s] = @ + 1]
    /\ UNCHANGED plan

\* The event may carry anything, but is of the kind that is next.
Send(s) ==
    /\ Settle(s)
    /\ Len(feed') = Len(feed) + 1
    /\ \A i \in 1..Len(feed) : feed'[i] = feed[i]
    /\ feed'[Len(feed')].source = s
    /\ feed'[Len(feed')].kind = plan[s][settled[s] + 1]

Lose(s) == Settle(s) /\ UNCHANGED feed

Next == \E s \in Sources : Start(s) \/ Send(s) \/ Lose(s)

FeedSpec == Init /\ [][Next]_feedVars
=============================================================================
