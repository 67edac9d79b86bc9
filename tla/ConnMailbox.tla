----------------------------- MODULE ConnMailbox -----------------------------
(***************************************************************************)
(* What the scheduler promises to the tasks that call `fire` (the contract  *)
(* docs/modules/03-server-http.md words as "per-conn in flight = 1, order  *)
(* kept"): each connection has a mailbox of calls; at most the first one   *)
(* of a mailbox is being executed, calls leave from the front only after   *)
(* being executed, calls that are given up are given up from the back, and *)
(* every call gets one answer.  How many workers there are, how they sleep *)
(* and where a frame is stored is not visible here.                        *)
(***************************************************************************)
EXTENDS Sequences, Naturals

CONSTANTS Conn, Caller

VARIABLES box,      \* per connection, the calls not executed yet, oldest first
          busy,     \* connections whose oldest call is being executed
          leaving,  \* calls executed and not answered yet
          open,     \* whether new calls are accepted
          reply     \* per caller, the answer

vars == <<box, busy, leaving, open, reply>>

Result == {"ok", "timeout", "core", "dropped", "closed"}

Calls(s) == {s[i] : i \in DOMAIN s}

Say(S, r) == reply' = [p \in Caller |-> IF p \in S THEN r ELSE reply[p]]

Init ==
  /\ box = [c \in Conn |-> <<>>]
  /\ busy = {}
  /\ leaving = {}
  /\ open = TRUE
  /\ reply = [p \in Caller |-> "idle"]

Post(p, c) ==
  /\ reply[p] = "idle"
  /\ IF open
     THEN box' = [box EXCEPT ![c] = Append(@, p)] /\ Say({p}, "wait")
     ELSE Say({p}, "closed") /\ UNCHANGED box
  /\ UNCHANGED <<busy, leaving, open>>

Receive(p) ==
  /\ reply[p] \in Result
  /\ Say({p}, "idle")
  /\ UNCHANGED <<box, busy, leaving, open>>

Start(c) ==
  /\ c \notin busy
  /\ box[c] # <<>>
  /\ busy' = busy \cup {c}
  /\ UNCHANGED <<box, leaving, open, reply>>

Finish(c) ==
  /\ c \in busy
  /\ busy' = busy \ {c}
  /\ box' = [box EXCEPT ![c] = Tail(@)]
  /\ leaving' = leaving \cup {Head(box[c])}
  /\ UNCHANGED <<open, reply>>

Answer(p, r) ==
  /\ p \in leaving
  /\ leaving' = leaving \ {p}
  /\ Say({p}, r)
  /\ UNCHANGED <<box, busy, open>>

Crash(c) ==
  /\ c \in busy
  /\ busy' = busy \ {c}
  /\ box' = [box EXCEPT ![c] = Tail(@)]
  /\ Say({Head(box[c])}, "closed")
  /\ UNCHANGED <<leaving, open>>

\* The n oldest calls stay, the executing one always among them.
Discard(c, n) ==
  /\ c \in busy => n > 0
  /\ box' = [box EXCEPT ![c] = SubSeq(@, 1, n)]
  /\ Say(Calls(SubSeq(box[c], n + 1, Len(box[c]))), "dropped")
  /\ UNCHANGED <<busy, leaving, open>>

Shut ==
  /\ open
  /\ open' = FALSE
  /\ box' = [c \in Conn |-> IF c \in busy THEN <<Head(box[c])>> ELSE <<>>]
  /\ Say(UNION {Calls(box[c]) \ Calls(box'[c]) : c \in Conn}, "closed")
  /\ UNCHANGED <<busy, leaving>>

Unshut ==
  /\ ~open
  /\ open' = TRUE
  /\ UNCHANGED <<box, busy, leaving, reply>>

Next ==
  \/ \E p \in Caller, c \in Conn : Post(p, c)
  \/ \E p \in Caller : Receive(p)
  \/ \E c \in Conn : Start(c) \/ Finish(c) \/ Crash(c)
  \/ \E c \in Conn : \E n \in 0..Len(box[c]) : Discard(c, n)
  \/ \E p \in Caller, r \in Result : Answer(p, r)
  \/ Shut
  \/ Unshut

Spec == Init /\ [][Next]_vars
=============================================================================
