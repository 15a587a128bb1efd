----------------------------- MODULE ScaleToZero -----------------------------
(***************************************************************************)
(* What sleepy mode promises, without a clock: a builder runs while the    *)
(* stamp it was last used at is fresh, or while it has none, and stamps    *)
(* expire one after the other at some time.  This is how BuilderController *)
(* has it; SleepyScaling, which has the clock and the timer, implements it.*)
(***************************************************************************)
EXTENDS Naturals

CONSTANT None

VARIABLES
  lastUsed,  \* the annotation: None, 0 when it cannot be parsed, or a stamp
  known,     \* the same in the controller's cache
  hand,      \* <<stamp>> while a reconcile works with it, <<>> otherwise
  stamps,    \* stamps issued so far
  expired,   \* the stamps up to this one are older than the timeout
  replicas

vars == <<lastUsed, known, hand, stamps, expired, replicas>>

Fresh(stamp) == stamp = None \/ (stamp # 0 /\ stamp > expired)

Init ==
  /\ lastUsed = None /\ known = None /\ hand = <<>>
  /\ stamps = 0 /\ expired = 0 /\ replicas = 0

\* A cache that is up to date may see a change at once.
Annotate(value) == lastUsed' = value /\ known' \in {known, value}

\* A stamp is expired from the start when the timeout is not positive.
Use ==
  /\ stamps' = stamps + 1 /\ Annotate(stamps')
  /\ expired' \in expired..stamps'
  /\ UNCHANGED <<hand, replicas>>

Edit ==
  /\ Annotate(None) \/ Annotate(0)
  /\ UNCHANGED <<hand, stamps, expired, replicas>>

Catch == known' = lastUsed /\ UNCHANGED <<lastUsed, hand, stamps, expired, replicas>>

Expire ==
  /\ expired' \in (expired + 1)..stamps
  /\ UNCHANGED <<lastUsed, known, hand, stamps, replicas>>

Take ==
  /\ hand = <<>> /\ hand' = <<known>>
  /\ UNCHANGED <<lastUsed, known, stamps, expired, replicas>>

\* The reconcile may end with this step.
Scale ==
  /\ hand # <<>> /\ hand' \in {hand, <<>>}
  /\ replicas' = IF Fresh(hand[1]) THEN 1 ELSE 0
  /\ UNCHANGED <<lastUsed, known, stamps, expired>>

\* The reconcile ends, or its process with it: the next one has a new cache.
Finish ==
  /\ hand' = <<>> /\ known' \in {known, lastUsed}
  /\ UNCHANGED <<lastUsed, stamps, expired, replicas>>

Next == Use \/ Edit \/ Catch \/ Expire \/ Take \/ Scale \/ Finish

Safety == Init /\ [][Next]_vars

\* The controller looks again and again, and does what it then finds.
Fairness == WF_vars(Catch) /\ WF_vars(Take) /\ SF_vars(Scale)

Spec == Safety /\ Fairness

=============================================================================
