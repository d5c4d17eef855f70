---------------------------- MODULE CommandQueue ----------------------------
(***************************************************************************)
(* What qrenderdoc/Code/ReplayManager.h promises those who invoke on the   *)
(* replay thread, without threads, locks or connections: commands wait in  *)
(* the order they were submitted, the oldest runs next, one at a time and  *)
(* only while a capture is open, a later request may preempt waiting ones, *)
(* and closing the capture drops everything that still waits.              *)
(***************************************************************************)
EXTENDS Sublists

CONSTANTS Commands, Tags, NoTag

VARIABLES
  waiting,  \* the commands not yet started and their tags, oldest first
  outcome,  \* "new", "waiting", "running" or "settled" (run or dropped)
  open      \* a capture is open

vars == <<waiting, outcome, open>>

Init ==
  /\ waiting = <<>>
  /\ outcome = [c \in Commands |-> "new"]
  /\ open = FALSE

Resolve(S, to) == [c \in Commands |-> IF c \in S THEN to ELSE outcome[c]]

\* A command submitted with no capture open may have to wait for the next one.
Submit(c, t) ==
  /\ outcome[c] = "new"
  /\ waiting' = Append(waiting, [cmd |-> c, tag |-> t])
  /\ outcome' = Resolve({c}, "waiting")
  /\ UNCHANGED open

Refuse(c) ==
  /\ outcome[c] = "new"
  /\ outcome' = Resolve({c}, "settled")
  /\ UNCHANGED <<waiting, open>>

\* A new request drops all that wait with its tag.
Preempt(t) ==
  /\ waiting' = Sublist(waiting, {i \in 1..Len(waiting) : waiting[i].tag # t})
  /\ outcome' = Resolve({waiting[i].cmd : i \in {j \in 1..Len(waiting) : waiting[j].tag = t}}, "settled")
  /\ UNCHANGED open

Start ==
  /\ open
  /\ waiting # <<>>
  /\ \A c \in Commands : outcome[c] # "running"
  /\ outcome' = Resolve({Head(waiting).cmd}, "running")
  /\ waiting' = Tail(waiting)
  /\ UNCHANGED open

Finish(c) ==
  /\ outcome[c] = "running"
  /\ outcome' = Resolve({c}, "settled")
  /\ UNCHANGED <<waiting, open>>

Open ==
  /\ ~open
  /\ open' = TRUE
  /\ UNCHANGED <<waiting, outcome>>

Close ==
  /\ open
  /\ \A c \in Commands : outcome[c] # "running"
  /\ open' = FALSE
  /\ waiting' = <<>>
  /\ outcome' = Resolve({c \in Commands : outcome[c] = "waiting"}, "settled")

Next ==
  \/ \E c \in Commands : Refuse(c) \/ Finish(c) \/ \E t \in Tags \cup {NoTag} : Submit(c, t)
  \/ \E t \in Tags : Preempt(t)
  \/ Start
  \/ Open
  \/ Close

Spec == Init /\ [][Next]_vars

=============================================================================
