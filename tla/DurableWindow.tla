---------------------------- MODULE DurableWindow ----------------------------
(***************************************************************************)
(* What the session store promises its runtime, with no file in sight.     *)
(*                                                                         *)
(* There is one committed window: an optional checkpoint capsule and the   *)
(* messages behind it.  An operation changes it in one indivisible step,   *)
(* one operation at a time; the running process then sees the new window.  *)
(* A process may die at any moment and the next one starts from exactly    *)
(* the committed window: nothing committed is lost, and nothing of an      *)
(* operation that was not committed is ever seen.                          *)
(***************************************************************************)
EXTENDS Naturals, Sequences

VARIABLES
  window,   \* the committed window: [messages, capsule]
  view,     \* what the running process works with
  up        \* whether a process holds the session

vars == <<window, view, up>>

Nothing == [messages |-> <<>>, capsule |-> 0]

Suffix(s, n) == SubSeq(s, n + 1, Len(s))

Contains(s, m) == \E i \in DOMAIN s : s[i] = m

(* The four ways a window w may become v. *)

Said(w, v) ==
  /\ v.capsule = w.capsule
  /\ Len(v.messages) = Len(w.messages) + 1
  /\ SubSeq(v.messages, 1, Len(w.messages)) = w.messages
  /\ ~Contains(w.messages, v.messages[Len(v.messages)])

Evicted(w, v) ==
  /\ v.capsule = w.capsule
  /\ \E n \in 1..Len(w.messages) : v.messages = Suffix(w.messages, n)

Summarised(w, v) ==
  /\ v.capsule = w.capsule
  /\ v.messages # <<>>
  /\ ~Contains(w.messages, v.messages[1])
  /\ \E n \in 1..Len(w.messages) :
       Suffix(v.messages, 1) = Suffix(w.messages, n)

Capsuled(w, v) ==
  /\ v.capsule \notin {0, w.capsule}
  /\ \E n \in 0..Len(w.messages) : v.messages = Suffix(w.messages, n)

Init == window = Nothing /\ view = Nothing /\ up = TRUE

\* An operation commits; the process has not returned to its caller yet.
Commit ==
  /\ up /\ view = window
  /\ \/ Said(window, window') \/ Evicted(window, window')
     \/ Summarised(window, window') \/ Capsuled(window, window')
  /\ UNCHANGED <<view, up>>

\* The caller sees the operation's effect.
Publish == up /\ view' = window /\ UNCHANGED <<window, up>>

Crash == up /\ up' = FALSE /\ view' = Nothing /\ UNCHANGED window

Resume == ~up /\ up' = TRUE /\ view' = window /\ UNCHANGED window

Next == Commit \/ Publish \/ Crash \/ Resume

Spec == Init /\ [][Next]_vars
=============================================================================
