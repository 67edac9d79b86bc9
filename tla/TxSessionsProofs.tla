-------------------------- MODULE TxSessionsProofs --------------------------
(***************************************************************************)
(* Proof that the quota of transaction sessions holds for any number of    *)
(* requests, ids and subjects: a begin counts from the moment its place is *)
(* reserved, and the place it gives back is its own.                       *)
(*                                                                         *)
(* The argument: only Reserve makes the set of live and reserved sessions  *)
(* larger, and it looks at the limits first, under the lock of the table.  *)
(* BeginOk moves its id from one half to the other: no other call has the  *)
(* id of a begin, so nobody has taken it out of the reservations.  The     *)
(* rest only takes sessions out of the table, or clears what is recorded   *)
(* of them.                                                                *)
(*                                                                         *)
(* Then the lock of a session: a transaction is ended by the head of the   *)
(* session's line, as nobody is put before the head and nobody but the     *)
(* head leaves for having ended it; and its registration: a connection is  *)
(* never newer than the registration recorded beside it.  Last, the table  *)
(* and the reservations implement SessionStore: what is in anybody's hands *)
(* has been opened, so no removal touches what is being opened.            *)
(***************************************************************************)
EXTENDS TxSessions, FiniteSetTheorems, WellFoundedInduction, TLAPS

Status == {"none", "open", "over"}

Parts ==
  /\ reserved \subseteq Session /\ table \subseteq Session
  /\ entry \in [Session -> Entry]
  /\ txn \in [Session -> Status]
  /\ bind \in [Request -> Session \cup {None}]
  /\ call \in [Op -> Call]
  /\ epoch \in Epoch

Beginning(o) == call[o].pc \in {"look", "open"}

\* A begin has its id for itself until the session is in the table.
OwnIds ==
  /\ \A s \in table : txn[s] # "none"
  /\ \A o \in Op : Beginning(o) => call[o].s \in Session \ table
  /\ \A o \in Op : call[o].pc = "open" => call[o].s \in reserved
  /\ \A o \in Op : call[o].pc = "look" => call[o].s \notin reserved
  /\ \A o, p \in Op : o # p /\ Beginning(o) /\ Beginning(p) => call[o].s # call[p].s

\* The limits, for the sessions of a set and what is recorded of them.
Owned(U, e, w) == {s \in U : e[s].owner = w}
Fits(U, e) ==
  /\ Cardinality(U) <= MaxSessions
  /\ \A w \in Owner : Cardinality(Owned(U, e, w)) <= MaxPerOwner

IInv == Parts /\ OwnIds /\ Fits(table \cup reserved, entry)

-----------------------------------------------------------------------------
LEMMA FewerFit ==
  ASSUME NEW U, NEW V, NEW d, NEW e, IsFiniteSet(U), V \subseteq U, Fits(U, e),
         \A s \in V, w \in Owner : d[s].owner = w => e[s].owner = w
  PROVE  Fits(V, d)
<1>1. Cardinality(V) <= Cardinality(U) /\ Cardinality(U) \in Nat /\ Cardinality(V) \in Nat
  BY FS_Subset, FS_CardinalityType
<1>2. Cardinality(V) <= MaxSessions
  BY <1>1, ConfigAssumption DEF Fits
<1>3. ASSUME NEW w \in Owner PROVE Cardinality(Owned(V, d, w)) <= MaxPerOwner
  <2>1. Owned(V, d, w) \subseteq Owned(U, e, w) /\ Owned(U, e, w) \subseteq U
    BY DEF Owned
  <2>2. IsFiniteSet(Owned(U, e, w))
    BY <2>1, FS_Subset
  <2>3. /\ Cardinality(Owned(V, d, w)) <= Cardinality(Owned(U, e, w))
        /\ Cardinality(Owned(U, e, w)) \in Nat /\ Cardinality(Owned(V, d, w)) \in Nat
    BY <2>1, <2>2, FS_Subset, FS_CardinalityType
  <2> QED
    BY <2>3, ConfigAssumption DEF Fits
<1> QED
  BY <1>2, <1>3 DEF Fits

LEMMA OneMoreFits ==
  ASSUME NEW U, NEW s, NEW d, NEW e, NEW w \in Owner, IsFiniteSet(U), Fits(U, e),
         Cardinality(U) < MaxSessions, Cardinality(Owned(U, e, w)) < MaxPerOwner,
         d[s].owner = w, \A t \in U : t # s => d[t] = e[t]
  PROVE  Fits(U \cup {s}, d)
<1> DEFINE V == U \cup {s}
<1>1. Cardinality(V) <= Cardinality(U) + 1 /\ Cardinality(U) \in Nat /\ Cardinality(V) \in Nat
  <2>1. IsFiniteSet(V) /\ Cardinality(V) = IF s \in U THEN Cardinality(U) ELSE Cardinality(U) + 1
    BY FS_AddElement
  <2>2. Cardinality(U) \in Nat /\ Cardinality(V) \in Nat
    BY <2>1, FS_CardinalityType
  <2> HIDE DEF V
  <2> QED
    BY <2>1, <2>2
<1>2. Cardinality(V) <= MaxSessions
  BY <1>1, ConfigAssumption
<1>3. ASSUME NEW v \in Owner PROVE Cardinality(Owned(V, d, v)) <= MaxPerOwner
  <2> DEFINE W == Owned(U, e, v)
  <2>1. W \subseteq U
    BY DEF Owned
  <2>2. IsFiniteSet(W) /\ Cardinality(W) \in Nat /\ Cardinality(W) <= MaxPerOwner
    BY <2>1, FS_Subset, FS_CardinalityType DEF Fits
  <2>3. CASE v = w
    <3>1. Owned(V, d, v) \subseteq W \cup {s}
      BY DEF Owned
    <3>2. IsFiniteSet(W \cup {s}) /\ Cardinality(W \cup {s}) <= Cardinality(W) + 1
      <4>1. /\ IsFiniteSet(W \cup {s})
            /\ Cardinality(W \cup {s}) = IF s \in W THEN Cardinality(W) ELSE Cardinality(W) + 1
        BY <2>2, FS_AddElement
      <4> HIDE DEF W
      <4> QED
        BY <4>1, <2>2
    <3>3. /\ Cardinality(Owned(V, d, v)) <= Cardinality(W \cup {s})
          /\ Cardinality(Owned(V, d, v)) \in Nat /\ Cardinality(W \cup {s}) \in Nat
      BY <3>1, <3>2, FS_Subset, FS_CardinalityType
    <3> QED
      BY <2>2, <2>3, <3>2, <3>3, ConfigAssumption
  <2>4. CASE v # w
    <3>1. Owned(V, d, v) \subseteq W
      BY <2>4 DEF Owned
    <3>2. Cardinality(Owned(V, d, v)) <= Cardinality(W) /\ Cardinality(Owned(V, d, v)) \in Nat
      BY <3>1, <2>2, FS_Subset, FS_CardinalityType
    <3> QED
      BY <2>2, <3>2, ConfigAssumption
  <2> QED
    BY <2>3, <2>4
<1> QED
  BY <1>2, <1>3 DEF Fits

LEMMA Blanks == Idle \in Call /\ Blank \in Entry
  BY ConfigAssumption DEF Idle, Call, Blank, Entry, Epoch

LEMMA FiniteTable == Parts => IsFiniteSet(table \cup reserved)
  BY CallersAssumption, FS_Subset DEF Parts

-----------------------------------------------------------------------------
LEMMA InitHolds == Init => IInv
<1> SUFFICES ASSUME Init PROVE IInv
  OBVIOUS
<1>1. Parts
  BY ConfigAssumption DEF Init, Parts, Entry, Blank, Epoch, Status, Call, Idle
<1>2. OwnIds
  BY DEF Init, OwnIds, Beginning, Idle
<1>3. table \cup reserved = {} /\ \A w : Owned({}, entry, w) = {}
  BY DEF Init, Owned
<1>4. Fits({}, entry)
  BY <1>3, FS_EmptySet, ConfigAssumption DEF Fits
<1> QED
  BY <1>1, <1>2, <1>3, <1>4 DEF IInv

\* Whatever only takes sessions out of the table, or clears entries, keeps the
\* invariant, if it starts no begin and moves none on.
Takes ==
  /\ reserved' = reserved /\ table' \subseteq table
  /\ \A s \in Session : entry'[s] \in {entry[s], Blank}
  /\ \A s \in Session : txn[s] # "none" => txn'[s] # "none"
  /\ \A o \in Op : Beginning(o)' => call'[o] = call[o]

LEMMA TakesHolds == ASSUME IInv, Takes, Parts' PROVE IInv'
<1>1. OwnIds'
  BY DEF IInv, Parts, OwnIds, Takes, Beginning
<1>2. \A s \in Session, w \in Owner : entry'[s].owner = w => entry[s].owner = w
  BY CallersAssumption DEF Takes, Blank
<1>3. Fits((table \cup reserved)', entry')
  <2>1. (table \cup reserved)' \subseteq table \cup reserved /\ table' \cup reserved' \subseteq Session
    BY DEF Takes, IInv, Parts
  <2> QED
    BY <1>2, <2>1, FiniteTable, FewerFit DEF IInv
<1> QED
  BY <1>1, <1>3 DEF IInv, Fits

-----------------------------------------------------------------------------
(* begin *)

LEMMA BeginLookupKeeps == ASSUME IInv, NEW o \in Op, NEW s \in Session, BeginLookup(o, s) PROVE IInv'
<1>1. Parts'
  BY CallersAssumption DEF IInv, Parts, BeginLookup, tabled, Idle, Call, Epoch
<1>2. /\ s \notin table /\ s \notin reserved
      /\ \A p \in Op : call[p].s # s
  BY DEF IInv, OwnIds, BeginLookup, Fresh
<1>3. OwnIds'
  BY <1>2 DEF IInv, Parts, OwnIds, BeginLookup, Beginning, tabled, Idle
<1> QED
  BY <1>1, <1>3 DEF IInv, Fits, Owned, BeginLookup, tabled

LEMMA ReserveKeeps == ASSUME IInv, NEW o \in Op, Reserve(o) PROVE IInv'
<1> DEFINE s == call[o].s
<1>1. s \in Session \ table /\ Me(o) \in Owner
  BY CallersAssumption DEF IInv, OwnIds, Beginning, Reserve, At, Me, Owner
<1>2. CASE Full(Me(o))
  <2>1. Parts'
    BY <1>2, Blanks DEF IInv, Parts, Reserve, Returns
  <2>2. Takes
    BY <1>2 DEF IInv, Parts, Reserve, Returns, Idle, Takes, Beginning
  <2> QED
    BY <2>1, <2>2, TakesHolds
<1>3. CASE ~Full(Me(o))
  <2>1. /\ reserved' = reserved \cup {s} /\ table' = table /\ txn' = txn
        /\ entry' = [entry EXCEPT ![s] = [owner |-> Me(o), epoch |-> epoch, conn |-> call[o].conn]]
        /\ call' = [call EXCEPT ![o].pc = "open"]
        /\ call[o].pc = "look"
    BY <1>3 DEF Reserve, At
  <2>2. Parts'
    <3>1. [owner |-> Me(o), epoch |-> epoch, conn |-> call[o].conn] \in Entry
      BY <1>1 DEF IInv, Parts, Call, Entry
    <3>2. call' \in [Op -> Call]
      BY <2>1 DEF IInv, Parts, Call
    <3>3. bind' = bind /\ epoch' = epoch
      BY DEF Reserve
    <3>4. entry' \in [Session -> Entry]
      BY <2>1, <3>1 DEF IInv, Parts
    <3>5. reserved' \subseteq Session /\ table' \subseteq Session
      BY <1>1, <2>1 DEF IInv, Parts
    <3> QED
      BY <2>1, <3>2, <3>3, <3>4, <3>5 DEF IInv, Parts
  <2>3. OwnIds'
    BY <1>1, <2>1 DEF IInv, Parts, OwnIds, Beginning, Call
  <2>4. Fits((table \cup reserved) \cup {s}, entry')
    <3> DEFINE U == table \cup reserved
    <3>1. IsFiniteSet(U) /\ Cardinality(U) \in Nat
      BY FiniteTable, FS_CardinalityType DEF IInv
    <3>2. Owned(U, entry, Me(o)) \subseteq U
      BY DEF Owned
    <3>3. Cardinality(Owned(U, entry, Me(o))) \in Nat
      BY <3>1, <3>2, FS_Subset, FS_CardinalityType
    <3>4. Cardinality(U) < MaxSessions /\ Cardinality(Owned(U, entry, Me(o))) < MaxPerOwner
      BY <1>3, <3>1, <3>3, ConfigAssumption DEF Full, Owned
    <3>5. /\ entry'[s].owner = Me(o)
          /\ \A t \in U : t # s => entry'[t] = entry[t]
      BY <1>1, <2>1 DEF IInv, Parts
    <3> QED
      BY <1>1, <3>1, <3>4, <3>5, OneMoreFits DEF IInv
  <2>5. (table \cup reserved)' = (table \cup reserved) \cup {s}
    BY <2>1
  <2> QED
    BY <2>2, <2>3, <2>4, <2>5 DEF IInv, Fits, Owned
<1> QED
  BY <1>2, <1>3

LEMMA BeginOkKeeps == ASSUME IInv, NEW o \in Op, BeginOk(o) PROVE IInv'
<1> DEFINE s == call[o].s
<1>1. s \in Session /\ s \in reserved /\ s \notin table /\ call[o].pc = "open"
  BY DEF IInv, OwnIds, Beginning, BeginOk, At
<1>2. /\ reserved' = reserved \ {s} /\ table' = table \cup {s} /\ entry' = entry
      /\ txn' = [txn EXCEPT ![s] = "open"] /\ call' = [call EXCEPT ![o] = Idle]
  BY DEF BeginOk, Returns
<1>3. Parts'
  BY <1>1, <1>2, Blanks DEF IInv, Parts, BeginOk, Status
<1>4. OwnIds'
  BY <1>1, <1>2 DEF IInv, Parts, OwnIds, Beginning, Idle
<1>5. (table \cup reserved)' = table \cup reserved
  BY <1>1, <1>2
<1> QED
  BY <1>2, <1>3, <1>4, <1>5 DEF IInv, Fits, Owned

LEMMA BeginFailsKeeps == ASSUME IInv, NEW o \in Op, BeginFails(o) PROVE IInv'
<1> DEFINE s == call[o].s
<1>1. s \in Session /\ s \in reserved /\ s \notin table /\ call[o].pc = "open"
  BY DEF IInv, OwnIds, Beginning, BeginFails, At
<1>2. /\ reserved' = reserved \ {s} /\ table' = table /\ txn' = txn
      /\ entry' = [entry EXCEPT ![s] = Blank] /\ call' = [call EXCEPT ![o] = Idle]
  BY DEF BeginFails, Returns
<1>3. Parts'
  BY <1>1, <1>2, Blanks DEF IInv, Parts, BeginFails
<1>4. OwnIds'
  BY <1>1, <1>2 DEF IInv, Parts, OwnIds, Beginning, Idle
<1>5. \A t \in Session, w \in Owner : entry'[t].owner = w => entry[t].owner = w
  BY <1>1, <1>2, CallersAssumption DEF IInv, Parts, Blank
<1>6. (table \cup reserved)' \subseteq table \cup reserved /\ table' \cup reserved' \subseteq Session
  BY <1>2 DEF IInv, Parts
<1>7. Fits((table \cup reserved)', entry')
  BY <1>5, <1>6, FiniteTable, FewerFit DEF IInv
<1> QED
  BY <1>3, <1>4, <1>7 DEF IInv, Fits

-----------------------------------------------------------------------------
(* everything else takes away *)

\* A slot gets a call that is no begin.
Turns(o) ==
  \E c \in Call : c.pc \notin {"look", "open"} /\ call' = [call EXCEPT ![o] = c]

LEMMA TurnsHolds ==
  ASSUME Parts, NEW o \in Op, call' = call \/ Turns(o)
  PROVE  /\ call' \in [Op -> Call]
         /\ \A p \in Op : Beginning(p)' => call'[p] = call[p]
BY DEF Parts, Turns, Beginning

\* The table as it is, or less of it.
Lessens == (\E s : Kill(s)) \/ UNCHANGED tabled

LEMMA LessensHolds ==
  ASSUME Parts, Lessens
  PROVE  /\ reserved' = reserved /\ table' \subseteq table
         /\ \A s \in Session : entry'[s] \in {entry[s], Blank}
         /\ reserved' \subseteq Session /\ table' \subseteq Session
         /\ entry' \in [Session -> Entry]
BY Blanks DEF Parts, Lessens, Kill, tabled

LEMMA SettlesHolds ==
  ASSUME IInv, Lessens,
         \/ UNCHANGED call
         \/ \E o \in Op : Turns(o),
         \/ UNCHANGED txn
         \/ \E s : txn' = [txn EXCEPT ![s] = "over"],
         \/ UNCHANGED bind
         \/ \E r \in Request, b \in Session \cup {None} : bind' = [bind EXCEPT ![r] = b],
         epoch' \in Epoch
  PROVE  IInv'
<1>1. Parts
  BY DEF IInv
<1>2. /\ call' \in [Op -> Call]
      /\ \A p \in Op : Beginning(p)' => call'[p] = call[p]
  <2>1. CASE UNCHANGED call
    BY <1>1, <2>1 DEF Parts, Beginning
  <2>2. CASE \E o \in Op : Turns(o)
    BY <1>1, <2>2, TurnsHolds
  <2> QED
    BY <2>1, <2>2
<1>3. /\ txn' \in [Session -> Status]
      /\ \A s \in Session : txn[s] # "none" => txn'[s] # "none"
  BY <1>1 DEF Parts, Status
<1>4. bind' \in [Request -> Session \cup {None}]
  BY <1>1 DEF Parts
<1>5. Parts'
  BY <1>1, <1>2, <1>3, <1>4, LessensHolds DEF Parts
<1>6. Takes
  BY <1>1, <1>2, <1>3, LessensHolds DEF Takes
<1> QED
  BY <1>5, <1>6, TakesHolds

LEMMA Returned == ASSUME NEW o \in Op, Returns(o) PROVE Turns(o)
  BY Blanks DEF Returns, Turns, Idle

LEMMA UseKeeps == ASSUME IInv, NEW o \in Op, Use(o) PROVE IInv'
<1>0. ReqOf[o] \in Request /\ epoch \in Epoch /\ bind \in [Request -> Session \cup {None}]
  BY CallersAssumption DEF IInv, Parts
<1>1. CASE Detach(o)
  BY <1>0, <1>1, SettlesHolds DEF Detach, Lessens
<1>2. ASSUME NEW s \in Session, RefuseAndKill(o, s) PROVE IInv'
  BY <1>0, <1>2, SettlesHolds DEF RefuseAndKill, Lessens
<1>3. ASSUME NEW s \in Session, Attach(o, s) PROVE IInv'
  BY <1>0, <1>3, SettlesHolds DEF Attach, Lessens
<1>4. ASSUME NEW s \in Session, NEW k \in Statement, StartStatement(o, k, s) PROVE IInv'
  <2>1. Turns(o)
    <3> DEFINE c == [Idle EXCEPT !.pc = "wait", !.kind = k, !.s = s, !.prev = bind[ReqOf[o]]]
    <3>1. c \in Call /\ c.pc \notin {"look", "open"}
      BY <1>0, Blanks DEF Idle, Call
    <3>2. call' = [call EXCEPT ![o] = c]
      BY <1>4 DEF StartStatement, Queue
    <3> QED
      BY <3>1, <3>2 DEF Turns
  <2>2. UNCHANGED tabled /\ UNCHANGED txn /\ UNCHANGED epoch
    BY <1>4 DEF StartStatement
  <2>3. UNCHANGED bind \/ bind' = [bind EXCEPT ![ReqOf[o]] = s]
    BY <1>4 DEF StartStatement
  <2> QED
    BY <1>0, <2>1, <2>2, <2>3, SettlesHolds DEF Lessens
<1> QED
  BY <1>1, <1>2, <1>3, <1>4 DEF Use

LEMMA EndKeeps == ASSUME IInv, NEW o \in Op, End(o) PROVE IInv'
<1>0. epoch \in Epoch
  BY DEF IInv, Parts
<1>1. ASSUME NEW s \in Session, StartEnding(o, s) PROVE IInv'
  <2>1. Turns(o)
    <3> DEFINE c == [Idle EXCEPT !.pc = "wait", !.kind = "end", !.s = s, !.prev = None]
    <3>1. c \in Call /\ c.pc \notin {"look", "open"}
      BY Blanks DEF Idle, Call, Ending
    <3>2. call' = [call EXCEPT ![o] = c]
      BY <1>1 DEF StartEnding, Queue
    <3> QED
      BY <3>1, <3>2 DEF Turns
  <2> QED
    BY <1>0, <1>1, <2>1, SettlesHolds DEF StartEnding, Lessens
<1>2. CASE CloseAll(o)
  <2>1. Turns(o)
    <3> DEFINE own == {s \in table : entry[s].owner = Me(o)}
               c == [Idle EXCEPT !.pc = "next", !.kind = "close_all", !.todo = own]
    <3>1. own \subseteq Session
      BY DEF IInv, Parts
    <3>2. c \in Call /\ c.pc \notin {"look", "open"}
      <4> HIDE DEF own
      <4> QED
        BY <3>1, Blanks DEF Idle, Call, Ending
    <3>3. call' = [call EXCEPT ![o] = c]
      BY <1>2 DEF CloseAll
    <3> QED
      BY <3>2, <3>3 DEF Turns
  <2> QED
    BY <1>0, <1>2, <2>1, SettlesHolds DEF CloseAll, Lessens
<1> QED
  BY <1>1, <1>2 DEF End

\* What a call that goes on puts back as its request's binding.
LEMMA Unbinds ==
  ASSUME IInv, NEW o \in Op, Unbind(o)
  PROVE  UNCHANGED bind \/ \E r \in Request, b \in Session \cup {None} : bind' = [bind EXCEPT ![r] = b]
<1>1. ReqOf[o] \in Request /\ call[o].prev \in Session \cup {None}
  BY CallersAssumption DEF IInv, Parts, Call
<1> QED
  BY <1>1 DEF Unbind

LEMMA Continues ==
  ASSUME IInv, NEW o \in Op, NEW q \in {"wait", "kill", "next"}, NEW s \in Session \cup {None},
         NEW t \in SUBSET Session,
         call' = [call EXCEPT ![o].pc = q, ![o].s = s, ![o].todo = t]
  PROVE  Turns(o)
<1> DEFINE c == [call[o] EXCEPT !.pc = q, !.s = s, !.todo = t]
<1>1. c \in Call /\ c.pc \notin {"look", "open"}
  BY DEF IInv, Parts, Call
<1>2. call' = [call EXCEPT ![o] = c]
  BY DEF IInv, Parts, Call
<1> QED
  BY <1>1, <1>2 DEF Turns

LEMMA ProceedKeeps == ASSUME IInv, NEW o \in Op, Proceed(o) PROVE IInv'
<1>0. epoch \in Epoch /\ call[o] \in Call
  BY DEF IInv, Parts
<1>1. CASE StatementEnds(o)
  <2>1. Lessens /\ UNCHANGED txn /\ UNCHANGED epoch
    BY <1>1 DEF StatementEnds, Lessens
  <2>2. Unbind(o) /\ Returns(o)
    BY <1>1 DEF StatementEnds
  <2> QED
    BY <1>0, <2>1, <2>2, Unbinds, Returned, SettlesHolds
<1>2. CASE StatementTimesOut(o)
  <2>1. Lessens /\ UNCHANGED txn /\ UNCHANGED epoch
    BY <1>2 DEF StatementTimesOut, Lessens
  <2>2. Unbind(o) /\ Returns(o)
    BY <1>2 DEF StatementTimesOut
  <2> QED
    BY <1>0, <2>1, <2>2, Unbinds, Returned, SettlesHolds
<1>3. CASE EndTransaction(o)
  <2>1. Turns(o)
    <3>1. call' = [call EXCEPT ![o].pc = "kill"]
      BY <1>3 DEF EndTransaction
    <3>2. call' = [call EXCEPT ![o].pc = "kill", ![o].s = call[o].s, ![o].todo = call[o].todo]
      BY <3>1 DEF IInv, Parts, Call
    <3> QED
      BY <1>0, <3>2, Continues DEF Call
  <2> QED
    BY <1>0, <1>3, <2>1, SettlesHolds DEF EndTransaction, Lessens
<1>4. CASE AfterEnding(o)
  <2>1. Turns(o)
    <3>1. CASE Returns(o)
      BY <3>1, Returned
    <3>2. CASE call' = [call EXCEPT ![o].pc = "next", ![o].s = None]
      <4>1. call' = [call EXCEPT ![o].pc = "next", ![o].s = None, ![o].todo = call[o].todo]
        BY <3>2 DEF IInv, Parts, Call
      <4> QED
        BY <1>0, <4>1, Continues DEF Call
    <3> QED
      BY <1>4, <3>1, <3>2 DEF AfterEnding
  <2> QED
    BY <1>0, <1>4, <2>1, SettlesHolds DEF AfterEnding, Lessens
<1>5. CASE CloseNext(o)
  <2>1. UNCHANGED tabled /\ UNCHANGED txn /\ UNCHANGED bind /\ UNCHANGED epoch
    BY <1>5 DEF CloseNext
  <2>2. Turns(o)
    <3>1. CASE Returns(o)
      BY <3>1, Returned
    <3>2. ASSUME NEW s \in call[o].todo,
                 call' = [call EXCEPT ![o].pc = "wait", ![o].s = s, ![o].todo = @ \ {s}]
          PROVE  Turns(o)
      <4>1. call' = [call EXCEPT ![o].pc = "wait", ![o].s = s, ![o].todo = call[o].todo \ {s}]
        BY <3>2
      <4>2. s \in Session /\ call[o].todo \ {s} \in SUBSET Session
        BY <1>0 DEF Call
      <4> QED
        BY <4>1, <4>2, Continues
    <3>3. ASSUME NEW s \in call[o].todo, call' = [call EXCEPT ![o].todo = @ \ {s}]
          PROVE  Turns(o)
      <4>1. call[o].pc = "next"
        BY <1>5 DEF CloseNext, At
      <4> DEFINE q == "next"
                 u == call[o].s
                 t == call[o].todo \ {s}
      <4>2. call' = [call EXCEPT ![o].pc = q, ![o].s = u, ![o].todo = t]
        BY <3>3, <4>1 DEF IInv, Parts, Call
      <4>3. q \in {"wait", "kill", "next"} /\ u \in Session \cup {None} /\ t \in SUBSET Session
        BY <1>0 DEF Call
      <4> HIDE DEF q, u, t
      <4> QED
        BY <4>2, <4>3, Continues
    <3> QED
      BY <1>5, <3>1, <3>2, <3>3 DEF CloseNext
  <2> QED
    BY <1>0, <2>1, <2>2, SettlesHolds DEF Lessens
<1> QED
  BY <1>1, <1>2, <1>3, <1>4, <1>5 DEF Proceed

-----------------------------------------------------------------------------
(* requests that end, the reaper, re-registration *)

LEMMA TerminateKeeps == ASSUME IInv, NEW r \in Request, Terminate(r) PROVE IInv'
<1>1. /\ call' \in [Op -> Call]
      /\ \A o \in Op : Beginning(o)' => call'[o] = call[o]
  BY Blanks DEF IInv, Parts, Terminate, Beginning, Idle
<1>2. /\ txn' \in [Session -> Status]
      /\ \A s \in Session : txn[s] # "none" => txn'[s] # "none"
  BY DEF IInv, Parts, Terminate, Status
<1>3. bind' \in [Request -> Session \cup {None}]
  BY DEF IInv, Parts, Terminate
<1>4. UNCHANGED tabled /\ UNCHANGED epoch
  BY DEF Terminate
<1>5. Parts'
  BY <1>1, <1>2, <1>3, <1>4 DEF IInv, Parts, tabled
<1>6. Takes
  BY <1>1, <1>2, <1>4 DEF IInv, Parts, Takes, tabled
<1> QED
  BY <1>5, <1>6, TakesHolds

LEMMA ReaperKeeps == ASSUME IInv, Reap \/ ReaperLost PROVE IInv'
<1>0. epoch \in Epoch
  BY DEF IInv, Parts
<1>1. CASE ReapTick
  BY <1>0, <1>1, SettlesHolds DEF ReapTick, Lessens
<1>2. CASE ReapNext
  BY <1>0, <1>2, SettlesHolds DEF ReapNext, Lessens
<1>3. CASE ReapRollback
  BY <1>0, <1>3, SettlesHolds DEF ReapRollback, Lessens
<1>4. CASE ReapKill
  BY <1>0, <1>4, SettlesHolds DEF ReapKill, Lessens
<1>5. CASE ReaperLost
  BY <1>0, <1>5, SettlesHolds DEF ReaperLost, Lessens
<1> QED
  BY <1>1, <1>2, <1>3, <1>4, <1>5 DEF Reap

LEMMA ElseKeeps ==
  ASSUME IInv,
         \/ \E r \in Request : RequestEnds(r)
         \/ ReRegister \/ DiscardNext \/ \E s \in Session : Expire(s)
  PROVE  IInv'
<1>0. epoch \in Epoch
  BY DEF IInv, Parts
<1>1. ASSUME NEW r \in Request, RequestEnds(r) PROVE IInv'
  BY <1>0, <1>1, SettlesHolds DEF RequestEnds, Lessens
<1>2. CASE ReRegister
  <2>1. epoch' \in Epoch
    BY <1>0, <1>2, ConfigAssumption DEF ReRegister, Epoch
  <2> QED
    BY <1>2, <2>1, SettlesHolds DEF ReRegister, Lessens
<1>3. CASE DiscardNext
  BY <1>0, <1>3, SettlesHolds DEF DiscardNext, Lessens
<1>4. ASSUME NEW s \in Session, Expire(s) PROVE IInv'
  <2>1. /\ UNCHANGED <<reserved, table, entry, txn, bind, call, epoch>>
    BY <1>4 DEF Expire
  <2>2. Parts' /\ Takes
    BY <2>1 DEF IInv, Parts, Takes, Beginning
  <2> QED
    BY <2>2, TakesHolds
<1> QED
  BY <1>1, <1>2, <1>3, <1>4

-----------------------------------------------------------------------------
LEMMA StepHolds == IInv /\ [Next]_vars => IInv'
<1> SUFFICES ASSUME IInv, [Next]_vars PROVE IInv'
  OBVIOUS
<1>1. ASSUME NEW o \in Op, Begin(o) PROVE IInv'
  BY <1>1, BeginLookupKeeps, ReserveKeeps, BeginOkKeeps, BeginFailsKeeps DEF Begin
<1>2. ASSUME NEW o \in Op, Use(o) \/ End(o) \/ Proceed(o) PROVE IInv'
  BY <1>2, UseKeeps, EndKeeps, ProceedKeeps
<1>3. ASSUME NEW r \in Request, RequestEnds(r) \/ Terminate(r) PROVE IInv'
  BY <1>3, ElseKeeps, TerminateKeeps
<1>4. CASE Reap \/ ReaperLost \/ ReRegister \/ DiscardNext \/ \E s \in Session : Expire(s)
  BY <1>4, ReaperKeeps, ElseKeeps
<1>5. CASE UNCHANGED vars
  BY <1>5 DEF IInv, Parts, OwnIds, Beginning, Fits, Owned, vars, tabled
<1> QED
  BY <1>1, <1>2, <1>3, <1>4, <1>5 DEF Next

\* The limits hold together with what makes them inductive: a begin has its id to
\* itself until its session is in the table.
THEOREM OwnPlace == Spec => []IInv
  BY InitHolds, StepHolds, PTL DEF Spec

\* db_session.max_sessions and db_session.max_per_owner are never exceeded, however
\* many begins wait for a connection and whatever ends, expires or is dropped.
THEOREM QuotaHolds == Spec => []WithinQuota
<1>1. IInv => WithinQuota
  BY DEF IInv, Fits, Owned, WithinQuota
<1> QED
  BY <1>1, OwnPlace, PTL

-----------------------------------------------------------------------------
(* What the lock's queue is after some have left it.  Without is recursive *)
(* in the length of the queue, so this takes an induction.                 *)

\* A set of natural numbers has a smallest element, which is what induction over
\* them rests on.
LEMMA Smallest ==
  ASSUME NEW T, T \subseteq Nat, T # {}
  PROVE  \E x \in T : \A y \in T : x <= y
<1> DEFINE R == {ss \in Nat \X Nat : ss[1] < ss[2]}
<1>1. IsWellFoundedOn(R, Nat)
  BY NatLessThanWellFounded DEF OpToRel
<1>2. \E x \in T : \A y \in T : ~ (<<y, x>> \in R)
  <2> HIDE DEF R
  <2>1. QED
    BY <1>1, WFMin
<1>3. PICK x \in T : \A y \in T : ~ (<<y, x>> \in R)
  BY <1>2
<1>4. ASSUME NEW y \in T PROVE x <= y
  <2>1. x \in Nat /\ y \in Nat
    OBVIOUS
  <2>2. <<y, x>> \in Nat \X Nat
    BY <2>1
  <2>3. ~ (y < x)
    BY <1>3, <2>2
  <2>4. QED
    BY <2>1, <2>3
<1>5. QED
  BY <1>4

\* Induction up to n, for a set of numbers in place of a predicate.
LEMMA UpTo ==
  ASSUME NEW n \in Nat, NEW T, 0 \in T,
         \A i \in 0..n : i > 0 /\ i - 1 \in T => i \in T
  PROVE  0..n \subseteq T
<1> SUFFICES ASSUME (0..n) \ T # {} PROVE FALSE
  OBVIOUS
<1>1. PICK x \in (0..n) \ T : \A y \in (0..n) \ T : x <= y
  <2>1. (0..n) \ T \subseteq Nat
    OBVIOUS
  <2>2. QED
    BY <2>1, Smallest
<1>2. x \in 0..n /\ x \notin T /\ x > 0
  BY <1>1
<1>3. x - 1 \in 0..n /\ ~ (x <= x - 1)
  BY <1>2
<1>4. x - 1 \in T
  BY <1>1, <1>3
<1>5. QED
  BY <1>2, <1>4

\* f starts at a and goes on as D says.
Steps(f, n, a, D) == f[0] = a /\ \A i \in 1..n : f[i] = D[i][f[i - 1]]

\* There is such a function.
LEMMA Recursion ==
  ASSUME NEW V, NEW a \in V, NEW D \in [Nat -> [V -> V]], NEW n \in Nat
  PROVE  \E f \in [0..n -> V] : Steps(f, n, a, D)
<1> DEFINE G(m, f) == f = [i \in 0..m |-> IF i = 0 THEN a ELSE D[i][f[i - 1]]]
           T == {m \in Nat : \E f \in [0..m -> V] : G(m, f)}
<1>1. 0 \in T
  <2>1. G(0, [i \in 0..0 |-> a]) /\ [i \in 0..0 |-> a] \in [0..0 -> V]
    OBVIOUS
  <2>2. QED
    BY <2>1
<1>2. ASSUME NEW m \in 0..n, m > 0, m - 1 \in T
      PROVE  m \in T
  <2>1. PICK g \in [0..(m - 1) -> V] : G(m - 1, g)
    BY <1>2
  <2> DEFINE h == [i \in 0..m |-> IF i = m THEN D[m][g[m - 1]] ELSE g[i]]
  <2>2. m - 1 \in 0..(m - 1) /\ m \in Nat /\ 0..m = (0..(m - 1)) \cup {m}
    BY <1>2
  <2>3. h \in [0..m -> V]
    BY <2>1, <2>2
  <2>4. ASSUME NEW i \in 0..m
        PROVE  h[i] = IF i = 0 THEN a ELSE D[i][h[i - 1]]
    <3>1. CASE i = m
      BY <1>2, <2>2, <3>1
    <3>2. CASE i # m
      <4>1. i \in 0..(m - 1) /\ (i # 0 => i - 1 \in 0..m /\ i - 1 # m)
        BY <2>2, <3>2
      <4>2. h[i] = g[i] /\ (i # 0 => h[i - 1] = g[i - 1])
        BY <3>2, <4>1
      <4>3. g[i] = IF i = 0 THEN a ELSE D[i][g[i - 1]]
        BY <2>1, <4>1
      <4>4. QED
        BY <4>2, <4>3
    <3>3. QED
      BY <3>1, <3>2
  <2>5. G(m, h)
    <3>1. h = [i \in 0..m |-> h[i]]
      OBVIOUS
    <3> HIDE DEF h
    <3>2. QED
      BY <2>4, <3>1
  <2>6. QED
    <3> HIDE DEF h, G
    <3>1. QED
      BY <2>2, <2>3, <2>5
<1>3. 0..n \subseteq T
  <2> HIDE DEF T
  <2>1. QED
    BY <1>1, <1>2, UpTo
<1>4. PICK f \in [0..n -> V] : G(n, f)
  <2>1. n \in 0..n
    OBVIOUS
  <2>2. QED
    BY <1>3, <2>1
<1>5. f[0] = a /\ \A i \in 1..n : f[i] = D[i][f[i - 1]]
  <2>1. 0 \in 0..n /\ \A i \in 1..n : i \in 0..n /\ i # 0
    OBVIOUS
  <2>2. QED
    BY <1>4, <2>1
<1>6. QED
  BY <1>5 DEF Steps

\* f[i] is what is left of the first i in the queue.
Leaves(f, q, S) ==
  /\ f[0] = <<>>
  /\ \A i \in 1..Len(q) : f[i] = IF q[i] \in S THEN f[i - 1] ELSE Append(f[i - 1], q[i])
  /\ Without(q, S) = f[Len(q)]

LEMMA WithoutSteps ==
  ASSUME NEW X, NEW q \in Seq(X), NEW S
  PROVE  \E f \in [0..Len(q) -> Seq(X)] : Leaves(f, q, S)
<1> DEFINE n == Len(q)
           F(f) == [i \in 0..n |->
                      IF i = 0 THEN <<>>
                      ELSE IF q[i] \in S THEN f[i - 1] ELSE Append(f[i - 1], q[i])]
           D == [i \in Nat |-> [s \in Seq(X) |->
                   IF i \notin 1..n \/ q[i] \in S THEN s ELSE Append(s, q[i])]]
<1>1. n \in Nat /\ \A i \in 1..n : q[i] \in X
  OBVIOUS
<1>2. D \in [Nat -> [Seq(X) -> Seq(X)]]
  BY <1>1
<1>3. PICK f \in [0..n -> Seq(X)] : Steps(f, n, <<>>, D)
  <2>1. <<>> \in Seq(X)
    OBVIOUS
  <2> HIDE DEF D, n
  <2>2. QED
    BY <1>1, <1>2, <2>1, Recursion
<1>4. ASSUME NEW i \in 1..n
      PROVE  f[i] = IF q[i] \in S THEN f[i - 1] ELSE Append(f[i - 1], q[i])
  <2>1. i \in Nat /\ i \in 0..n /\ i # 0 /\ i - 1 \in 0..n
    BY <1>1
  <2>2. f[i] = D[i][f[i - 1]] /\ f[i - 1] \in Seq(X)
    BY <1>3, <2>1 DEF Steps
  <2>3. QED
    BY <2>1, <2>2
<1>5. f[0] = <<>>
  BY <1>3 DEF Steps
<1>6. f = F(f)
  <2>1. \A i \in 0..n : f[i] = F(f)[i]
    <3>1. \A i \in 0..n : i # 0 => i \in 1..n
      BY <1>1
    <3>2. QED
      BY <1>4, <1>5, <3>1
  <2>2. f = [i \in 0..n |-> f[i]]
    OBVIOUS
  <2>3. QED
    BY <2>1, <2>2
<1> DEFINE g == CHOOSE h : h = F(h)
<1>7. Without(q, S) = g[n]
  BY DEF Without
<1>8. g = F(g)
  BY <1>6
<1>9. ASSUME NEW i \in 0..n
      PROVE  g[i] = f[i]
  <2> DEFINE T == {j \in Nat : j \in 0..n => g[j] = f[j]}
  <2>1. 0 \in T
    <3>1. g[0] = <<>>
      <4>1. 0 \in 0..n
        BY <1>1
      <4> HIDE DEF g
      <4>2. QED
        BY <1>8, <4>1
    <3>2. QED
      BY <1>5, <3>1
  <2>2. ASSUME NEW j \in 0..n, j > 0, j - 1 \in T
        PROVE  j \in T
    <3>1. j \in 1..n /\ j - 1 \in 0..n /\ j # 0 /\ j \in Nat
      BY <1>1, <2>2
    <3>2. g[j - 1] = f[j - 1]
      BY <2>2, <3>1
    <3>3. g[j] = IF q[j] \in S THEN g[j - 1] ELSE Append(g[j - 1], q[j])
      <4> HIDE DEF g
      <4>1. QED
        BY <1>8, <3>1
    <3>4. g[j] = f[j]
      BY <1>4, <3>1, <3>2, <3>3
    <3>5. QED
      BY <3>1, <3>4
  <2>3. 0..n \subseteq T
    <3> HIDE DEF T, n
    <3>1. QED
      BY <1>1, <2>1, <2>2, UpTo
  <2>4. QED
    BY <2>3
<1>10. n \in 0..n
  BY <1>1
<1>11. QED
  BY <1>4, <1>5, <1>7, <1>9, <1>10 DEF Leaves

\* Who leaves a queue leaves it, the rest stays, and its head stays its head.
LEMMA WithoutElements ==
  ASSUME NEW X, NEW q \in Seq(X), NEW S
  PROVE  /\ Without(q, S) \in Seq(X)
         /\ ToSet(Without(q, S)) = ToSet(q) \ S
         /\ q # <<>> /\ Head(q) \notin S =>
              Without(q, S) # <<>> /\ Head(Without(q, S)) = Head(q)
<1>0. PICK f \in [0..Len(q) -> Seq(X)] : Leaves(f, q, S)
  BY WithoutSteps
<1>1. /\ f[0] = <<>>
      /\ \A i \in 1..Len(q) :
           f[i] = IF q[i] \in S THEN f[i - 1] ELSE Append(f[i - 1], q[i])
      /\ Without(q, S) = f[Len(q)]
  BY <1>0 DEF Leaves
<1> DEFINE n == Len(q)
<1> DEFINE P(i) ==
      /\ \A e : e \in ToSet(f[i]) <=> e \notin S /\ \E k \in 1..i : e = q[k]
      /\ i > 0 /\ q[1] \notin S => f[i] # <<>> /\ Head(f[i]) = q[1]
<1>2. P(0)
  BY <1>1 DEF ToSet
<1>3. ASSUME NEW i \in 0..n, i > 0, P(i - 1)
      PROVE  P(i)
  <2>1. i \in 1..n /\ i - 1 \in 0..n /\ 1..i = (1..(i - 1)) \cup {i} /\ q[i] \in X
    BY <1>3
  <2>2. f[i] = IF q[i] \in S THEN f[i - 1] ELSE Append(f[i - 1], q[i])
    BY <1>1, <2>1
  <2>3. f[i - 1] \in Seq(X)
    BY <1>1, <2>1
  <2>4. CASE q[i] \in S
    <3>1. f[i] = f[i - 1]
      BY <2>2, <2>4
    <3>2. ASSUME q[1] \notin S
          PROVE  i - 1 > 0
      BY <1>3, <2>1, <2>4, <3>2
    <3>3. QED
      BY <1>3, <2>1, <2>4, <3>1, <3>2
  <2>5. CASE q[i] \notin S
    <3>1. f[i] = Append(f[i - 1], q[i])
      BY <2>2, <2>5
    <3>2. ToSet(f[i]) = ToSet(f[i - 1]) \cup {q[i]}
      BY <2>1, <2>3, <3>1 DEF ToSet
    <3>3. f[i] # <<>> /\ Head(f[i]) = IF f[i - 1] = <<>> THEN q[i] ELSE Head(f[i - 1])
      BY <2>1, <2>3, <3>1
    <3>4. i - 1 = 0 => i = 1 /\ f[i - 1] = <<>>
      BY <1>1, <2>1
    <3>5. q[1] \notin S => Head(f[i]) = q[1]
      BY <1>3, <2>1, <3>3, <3>4
    <3>6. \A e : e \in ToSet(f[i]) <=> e \notin S /\ \E k \in 1..i : e = q[k]
      BY <1>3, <2>1, <2>5, <3>2
    <3>7. QED
      BY <3>3, <3>5, <3>6
  <2>6. QED
    BY <2>4, <2>5
<1>4. P(n)
  <2> DEFINE T == {i \in Nat : P(i)}
  <2>1. 0 \in T
    BY <1>2
  <2>2. \A i \in 0..n : i > 0 /\ i - 1 \in T => i \in T
    <3> HIDE DEF P
    <3>1. QED
      BY <1>3
  <2>3. n \in Nat
    OBVIOUS
  <2>4. 0..n \subseteq T
    <3> HIDE DEF T, n
    <3>1. QED
      BY <2>1, <2>2, <2>3, UpTo
  <2>5. n \in 0..n
    BY <2>3
  <2> HIDE DEF P
  <2>6. QED
    BY <2>4, <2>5
<1>5. Without(q, S) \in Seq(X)
  BY <1>1
<1>6. ToSet(Without(q, S)) = ToSet(q) \ S
  BY <1>1, <1>4 DEF ToSet
<1>7. q # <<>> => n > 0 /\ Head(q) = q[1]
  OBVIOUS
<1>8. QED
  BY <1>1, <1>4, <1>5, <1>6, <1>7

-----------------------------------------------------------------------------
(* The locks.                                                              *)
(*                                                                         *)
(* A transaction is ended by a call that is at the head of the session's   *)
(* line, or by the reaper.  That the reaper is at the head too, and that   *)
(* a call that waits is in the line at all, are invariants: whoever joins  *)
(* joins at the end, and a call that is dropped takes nobody else out.     *)

ReaperStates == [pc : {"off", "tick", "reap", "roll", "kill", "lost"},
                 s : Session \cup {None}, todo : SUBSET Session]

Lined(o) == call[o].s \in Session /\ o \in ToSet(line[call[o].s])

ReaperHolds ==
  reaper.s \in Session /\ line[reaper.s] # <<>> /\ Head(line[reaper.s]) = Reaper

Lines ==
  /\ line \in [Session -> Seq(Op \cup {Reaper})]
  /\ reaper \in ReaperStates
  /\ \A o \in Op : call[o].pc = "wait" => Lined(o)
  /\ \A o \in Op : call[o].pc = "next" => call[o].kind = "close_all"
  /\ reaper.pc = "roll" => ReaperHolds

\* Some join a line at its end, others leave it.
Moves(in, out) ==
  \A s \in Session :
    \/ line'[s] = line[s]
    \/ line'[s] = Without(line[s], out)
    \/ \E e \in in : line'[s] = Append(line[s], e)

LEMMA MovesLines ==
  ASSUME Lines, NEW in, NEW out, in \subseteq Op \cup {Reaper}, Moves(in, out), NEW s \in Session
  PROVE  /\ line'[s] \in Seq(Op \cup {Reaper})
         /\ ToSet(line[s]) \ out \subseteq ToSet(line'[s])
         /\ ToSet(line'[s]) \subseteq ToSet(line[s]) \cup in
         /\ line[s] # <<>> /\ Head(line[s]) \notin out =>
              line'[s] # <<>> /\ Head(line'[s]) = Head(line[s])
<1> DEFINE X == Op \cup {Reaper}
<1>1. line[s] \in Seq(X)
  BY DEF Lines
<1> HIDE DEF X
<1>2. CASE line'[s] = line[s]
  BY <1>1, <1>2 DEF X
<1>3. CASE line'[s] = Without(line[s], out)
  <2> DEFINE q == line[s]
  <2>0. /\ Without(q, out) \in Seq(X)
        /\ ToSet(Without(q, out)) = ToSet(q) \ out
        /\ q # <<>> /\ Head(q) \notin out =>
             Without(q, out) # <<>> /\ Head(Without(q, out)) = Head(q)
    <3>1. q \in Seq(X)
      BY <1>1
    <3> HIDE DEF q
    <3>2. QED
      BY <3>1, WithoutElements
  <2>1. /\ line'[s] \in Seq(X)
        /\ ToSet(line'[s]) = ToSet(line[s]) \ out
        /\ line[s] # <<>> /\ Head(line[s]) \notin out =>
             line'[s] # <<>> /\ Head(line'[s]) = Head(line[s])
    BY <1>3, <2>0
  <2>2. QED
    BY <2>1 DEF X
<1>4. ASSUME NEW e \in in, line'[s] = Append(line[s], e)
      PROVE  /\ line'[s] \in Seq(X)
             /\ ToSet(line'[s]) = ToSet(line[s]) \cup {e}
             /\ line'[s] # <<>>
             /\ line[s] # <<>> => Head(line'[s]) = Head(line[s])
  <2>1. e \in X
    BY DEF X
  <2> HIDE DEF X
  <2>2. QED
    BY <1>1, <1>4, <2>1 DEF ToSet
<1>5. QED
  BY <1>2, <1>3, <1>4 DEF Moves, X

\* What a step must keep to: a call that waits afterwards was waiting there and
\* has not been taken out, or has just joined; and the same for the reaper.
LEMMA LinesKept ==
  ASSUME Lines, NEW in, NEW out, in \subseteq Op \cup {Reaper}, Moves(in, out),
         line' = [s \in Session |-> line'[s]],
         reaper' \in ReaperStates,
         \A o \in Op : call'[o].pc = "wait" =>
           \/ o \notin out /\ call[o].pc = "wait" /\ call'[o].s = call[o].s
           \/ Lined(o)',
         \A o \in Op : call'[o].pc = "next" => call'[o].kind = "close_all",
         reaper'.pc = "roll" =>
           \/ Reaper \notin out /\ reaper.pc = "roll" /\ reaper'.s = reaper.s
           \/ ReaperHolds'
  PROVE  Lines'
<1>1. line' \in [Session -> Seq(Op \cup {Reaper})]
  BY MovesLines
<1>2. ASSUME NEW o \in Op, call'[o].pc = "wait"
      PROVE  Lined(o)'
  <2>1. CASE o \notin out /\ call[o].pc = "wait" /\ call'[o].s = call[o].s
    BY <2>1, MovesLines DEF Lines, Lined
  <2>2. QED
    BY <1>2, <2>1
<1>3. ASSUME reaper'.pc = "roll"
      PROVE  ReaperHolds'
  <2>1. CASE Reaper \notin out /\ reaper.pc = "roll" /\ reaper'.s = reaper.s
    <3>1. PICK s \in Session : s = reaper.s /\ line[s] # <<>> /\ Head(line[s]) = Reaper
      BY <2>1 DEF Lines, ReaperHolds
    <3>2. line'[s] # <<>> /\ Head(line'[s]) = Reaper
      BY <2>1, <3>1, MovesLines
    <3>3. QED
      BY <2>1, <3>1, <3>2 DEF ReaperHolds
  <2>2. QED
    BY <1>3, <2>1
<1>4. QED
  BY <1>1, <1>2, <1>3 DEF Lines

\* Nobody comes, nobody goes.
LEMMA QuietLines ==
  ASSUME Lines, UNCHANGED line, reaper' \in ReaperStates,
         \A o \in Op : call'[o].pc = "wait" => call'[o] = call[o],
         \A o \in Op : call'[o].pc = "next" => call'[o].kind = "close_all",
         reaper'.pc = "roll" => reaper' = reaper
  PROVE  Lines'
<1>1. Moves({}, {})
  BY DEF Moves
<1>2. line' = [s \in Session |-> line'[s]]
  BY DEF Lines
<1>3. QED
  BY <1>1, <1>2, LinesKept

\* A call with what becomes of it, and the others as they are.
Becomes(o, pc) ==
  /\ call'[o].pc = pc
  /\ \A p \in Op \ {o} : call'[p] = call[p]

LEMMA QuietCall ==
  ASSUME Lines, UNCHANGED line, UNCHANGED reaper,
         \/ UNCHANGED call
         \/ \E o \in Op, pc \in {"idle", "look", "open", "kill", "next"} :
              Becomes(o, pc) /\ (pc = "next" => call'[o].kind = "close_all")
  PROVE  Lines'
<1>1. /\ \A o \in Op : call'[o].pc = "wait" => call'[o] = call[o]
      /\ \A o \in Op : call'[o].pc = "next" => call'[o].kind = "close_all"
  <2>1. CASE UNCHANGED call
    BY <2>1 DEF Lines
  <2>2. ASSUME NEW o \in Op, NEW pc \in {"idle", "look", "open", "kill", "next"}, Becomes(o, pc),
               pc = "next" => call'[o].kind = "close_all"
        PROVE  /\ \A p \in Op : call'[p].pc = "wait" => call'[p] = call[p]
               /\ \A p \in Op : call'[p].pc = "next" => call'[p].kind = "close_all"
    BY <2>2 DEF Lines, Becomes
  <2>3. QED
    BY <2>1, <2>2
<1>2. reaper' \in ReaperStates
  BY DEF Lines
<1>3. QED
  BY <1>1, <1>2, QuietLines

LEMMA BeginLines == ASSUME IInv, Lines, NEW o \in Op, Begin(o) PROVE Lines'
<1>0. call \in [Op -> Call]
  BY DEF IInv, Parts
<1>1. ASSUME NEW s \in Session, BeginLookup(o, s) PROVE Lines'
  <2>1. Becomes(o, "look")
    BY <1>0, <1>1 DEF BeginLookup, Becomes, Idle
  <2>2. QED
    BY <1>1, <2>1, QuietCall DEF BeginLookup
<1>2. CASE Reserve(o)
  <2>1. Becomes(o, "idle") \/ Becomes(o, "open")
    <3>1. CASE Returns(o)
      BY <1>0, <3>1 DEF Returns, Becomes, Idle
    <3>2. CASE call' = [call EXCEPT ![o].pc = "open"]
      BY <1>0, <3>2 DEF Becomes, Call
    <3>3. QED
      BY <1>2, <3>1, <3>2 DEF Reserve
  <2>2. QED
    BY <1>2, <2>1, QuietCall DEF Reserve
<1>3. CASE BeginOk(o)
  <2>1. Becomes(o, "idle") /\ UNCHANGED line
    BY <1>0, <1>3 DEF BeginOk, Returns, Becomes, Idle
  <2>2. reaper' \in ReaperStates /\ (reaper'.pc = "roll" => reaper' = reaper)
    <3>1. reaper \in ReaperStates /\ reaper' = [reaper EXCEPT !.pc = IF @ = "off" THEN "tick" ELSE @]
      BY <1>3 DEF BeginOk, Lines
    <3>2. QED
      BY <3>1 DEF ReaperStates
  <2>3. /\ \A p \in Op : call'[p].pc = "wait" => call'[p] = call[p]
        /\ \A p \in Op : call'[p].pc = "next" => call'[p].kind = "close_all"
    BY <2>1 DEF Becomes, Lines
  <2>4. QED
    BY <2>1, <2>2, <2>3, QuietLines
<1>4. CASE BeginFails(o)
  <2>1. Becomes(o, "idle")
    BY <1>0, <1>4 DEF BeginFails, Returns, Becomes, Idle
  <2>2. QED
    BY <1>4, <2>1, QuietCall DEF BeginFails
<1>5. QED
  BY <1>1, <1>2, <1>3, <1>4 DEF Begin

\* A statement, a commit, a rollback or a close joins the line of its session.
LEMMA QueueLines ==
  ASSUME IInv, Lines, NEW o \in Op, NEW k, NEW s \in Session, NEW prev, Queue(o, k, s, prev),
         UNCHANGED reaper
  PROVE  /\ Lines' /\ Moves({o}, {})
         /\ \A t \in Session : t # s => line'[t] = line[t]
         /\ call'[o].kind = k /\ \A p \in Op \ {o} : call'[p] = call[p]
<1>1. /\ call \in [Op -> Call] /\ line \in [Session -> Seq(Op \cup {Reaper})]
      /\ line' = [line EXCEPT ![s] = Append(@, o)]
  BY DEF IInv, Parts, Lines, Queue
<1>2. /\ call'[o].pc = "wait" /\ call'[o].s = s /\ call'[o].kind = k
      /\ \A p \in Op \ {o} : call'[p] = call[p]
  BY <1>1 DEF Queue, Idle
<1>3. Moves({o}, {}) /\ line' = [t \in Session |-> line'[t]] /\ line'[s] = Append(line[s], o)
  BY <1>1 DEF Moves
<1>4. Lined(o)'
  <2>1. line[s] \in Seq(Op \cup {Reaper})
    BY <1>1
  <2>2. o \in ToSet(Append(line[s], o))
    <3>1. /\ Len(line[s]) + 1 \in DOMAIN Append(line[s], o)
          /\ Append(line[s], o)[Len(line[s]) + 1] = o
      BY <2>1
    <3>2. QED
      BY <3>1 DEF ToSet
  <2>3. QED
    BY <1>2, <1>3, <2>2 DEF Lined
<1>5. Lines'
  <2>1. \A p \in Op : call'[p].pc = "wait" =>
          (p \notin {} /\ call[p].pc = "wait" /\ call'[p].s = call[p].s) \/ Lined(p)'
    BY <1>2, <1>4
  <2>2. \A p \in Op : call'[p].pc = "next" => call'[p].kind = "close_all"
    BY <1>2 DEF Lines
  <2>3. reaper' \in ReaperStates /\ (reaper'.pc = "roll" => reaper.pc = "roll" /\ reaper'.s = reaper.s)
    BY DEF Lines
  <2>4. {o} \subseteq Op \cup {Reaper}
    OBVIOUS
  <2>5. QED
    BY <1>3, <2>1, <2>2, <2>3, <2>4, LinesKept
<1>6. QED
  BY <1>1, <1>2, <1>3, <1>5

LEMMA UseLines == ASSUME IInv, Lines, NEW o \in Op, Use(o) PROVE Lines'
<1>1. CASE Detach(o)
  BY <1>1, QuietCall DEF Detach
<1>2. ASSUME NEW s \in Session, RefuseAndKill(o, s) PROVE Lines'
  BY <1>2, QuietCall DEF RefuseAndKill
<1>3. ASSUME NEW s \in Session, Attach(o, s) PROVE Lines'
  BY <1>3, QuietCall DEF Attach
<1>4. ASSUME NEW s \in Session, NEW k \in Statement, StartStatement(o, k, s) PROVE Lines'
  BY <1>4, QueueLines DEF StartStatement
<1>5. QED
  BY <1>1, <1>2, <1>3, <1>4 DEF Use

LEMMA EndLines == ASSUME IInv, Lines, NEW o \in Op, End(o) PROVE Lines'
<1>1. ASSUME NEW s \in Session, StartEnding(o, s) PROVE Lines'
  BY <1>1, QueueLines DEF StartEnding
<1>2. CASE CloseAll(o)
  <2>1. Becomes(o, "next") /\ call'[o].kind = "close_all"
    BY <1>2 DEF IInv, Parts, CloseAll, Becomes, Idle
  <2>2. QED
    BY <1>2, <2>1, QuietCall DEF CloseAll
<1>3. QED
  BY <1>1, <1>2 DEF End

\* A call leaves the line it waits in, or that it is at the head of.
LEMMA LeaveLines ==
  ASSUME IInv, Lines, NEW o \in Op, Leave(o), NEW pc \in {"idle", "kill"}, Becomes(o, pc),
         UNCHANGED reaper
  PROVE  Lines' /\ Moves({}, {o})
<1>1. line \in [Session -> Seq(Op \cup {Reaper})] /\ Reaper \notin {o}
  BY CallersAssumption DEF Lines
<1>2. line' = [line EXCEPT ![call[o].s] = Without(line[call[o].s], {o})]
  BY DEF Leave
<1>3. Moves({}, {o}) /\ line' = [t \in Session |-> line'[t]]
  BY <1>1, <1>2 DEF Moves
<1>4. \A p \in Op : call'[p].pc = "wait" =>
        (p \notin {o} /\ call[p].pc = "wait" /\ call'[p].s = call[p].s) \/ Lined(p)'
  BY DEF Becomes
<1>5. \A p \in Op : call'[p].pc = "next" => call'[p].kind = "close_all"
  BY DEF Becomes, Lines
<1>6. reaper' \in ReaperStates /\ (reaper'.pc = "roll" => reaper.pc = "roll" /\ reaper'.s = reaper.s)
  BY DEF Lines
<1>7. QED
  BY <1>1, <1>3, <1>4, <1>5, <1>6, LinesKept

LEMMA ProceedLines == ASSUME IInv, Lines, NEW o \in Op, Proceed(o) PROVE Lines'
<1>0. call \in [Op -> Call] /\ line \in [Session -> Seq(Op \cup {Reaper})]
  BY DEF IInv, Parts, Lines
<1>1. ASSUME Returns(o) PROVE Becomes(o, "idle")
  BY <1>0, <1>1 DEF Returns, Becomes, Idle
<1>2. CASE StatementEnds(o)
  BY <1>1, <1>2, LeaveLines DEF StatementEnds
<1>3. CASE StatementTimesOut(o)
  BY <1>1, <1>3, LeaveLines DEF StatementTimesOut
<1>4. CASE EndTransaction(o)
  <2>1. Becomes(o, "kill")
    BY <1>0, <1>4 DEF EndTransaction, Becomes, Call
  <2>2. QED
    BY <1>4, <2>1, LeaveLines DEF EndTransaction
<1>5. CASE AfterEnding(o)
  <2>1. Becomes(o, "idle") \/ (Becomes(o, "next") /\ call'[o].kind = "close_all")
    <3>1. CASE Returns(o)
      BY <1>1, <3>1
    <3>2. CASE /\ call[o].kind = "close_all"
               /\ call' = [call EXCEPT ![o].pc = "next", ![o].s = None]
      BY <1>0, <3>2 DEF Becomes, Call
    <3>3. QED
      BY <1>5, <3>1, <3>2 DEF AfterEnding
  <2>2. QED
    BY <1>5, <2>1, QuietCall DEF AfterEnding
<1>6. CASE CloseNext(o)
  <2>0. call[o].kind = "close_all" /\ call[o] \in Call /\ UNCHANGED reaper
    BY <1>0, <1>6 DEF CloseNext, At, Lines
  <2>1. CASE Returns(o) /\ UNCHANGED line
    BY <1>1, <2>0, <2>1, QuietCall
  <2>2. ASSUME NEW s \in call[o].todo, line[s] = <<>>,
               call' = [call EXCEPT ![o].pc = "wait", ![o].s = s, ![o].todo = @ \ {s}],
               line' = [line EXCEPT ![s] = <<o>>]
        PROVE  Lines'
    <3>1. s \in Session
      BY <2>0, <2>2 DEF Call
    <3>2. Becomes(o, "wait") /\ call'[o].s = s
      BY <1>0, <2>0, <2>2 DEF Becomes, Call
    <3>3. /\ Moves({o}, {}) /\ line' = [t \in Session |-> line'[t]]
          /\ {o} \subseteq Op \cup {Reaper}
      <4>1. <<o>> = Append(<<>>, o)
        OBVIOUS
      <4>2. QED
        BY <1>0, <2>2, <3>1, <4>1 DEF Moves
    <3>4. Lined(o)'
      <4>1. line'[s] = <<o>>
        BY <1>0, <2>2, <3>1
      <4>2. o \in ToSet(<<o>>)
        BY DEF ToSet
      <4>3. QED
        BY <3>1, <3>2, <4>1, <4>2 DEF Lined
    <3>5. \A p \in Op : call'[p].pc = "wait" =>
            (p \notin {} /\ call[p].pc = "wait" /\ call'[p].s = call[p].s) \/ Lined(p)'
      BY <3>2, <3>4 DEF Becomes
    <3>6. \A p \in Op : call'[p].pc = "next" => call'[p].kind = "close_all"
      BY <3>2 DEF Becomes, Lines
    <3>7. reaper' \in ReaperStates /\ (reaper'.pc = "roll" => reaper.pc = "roll" /\ reaper'.s = reaper.s)
      BY <2>0 DEF Lines
    <3>8. QED
      BY <3>3, <3>5, <3>6, <3>7, LinesKept
  <2>3. ASSUME NEW s \in call[o].todo, call' = [call EXCEPT ![o].todo = @ \ {s}], UNCHANGED line
        PROVE  Lines'
    <3>1. Becomes(o, "next") /\ call'[o].kind = "close_all"
      BY <1>0, <1>6, <2>0, <2>3 DEF CloseNext, At, Becomes, Call
    <3>2. QED
      BY <2>0, <2>3, <3>1, QuietCall
  <2>4. QED
    BY <1>6, <2>1, <2>2, <2>3 DEF CloseNext
<1>7. QED
  BY <1>2, <1>3, <1>4, <1>5, <1>6 DEF Proceed

LEMMA TerminateLines == ASSUME IInv, Lines, NEW r \in Request, Terminate(r) PROVE Lines'
<1> DEFINE gone == {o \in Op : ReqOf[o] = r /\ call[o].pc # "idle"}
<1>1. /\ line' = [s \in Session |-> Without(line[s], gone)]
      /\ call' = [o \in Op |-> IF o \in gone THEN Idle ELSE call[o]]
      /\ UNCHANGED reaper /\ gone \subseteq Op /\ Reaper \notin gone
  BY CallersAssumption DEF Terminate
<1> HIDE DEF gone
<1>2. Moves({}, gone) /\ line' = [t \in Session |-> line'[t]]
  BY <1>1 DEF Moves
<1>3. /\ \A p \in Op : call'[p].pc = "wait" =>
           (p \notin gone /\ call[p].pc = "wait" /\ call'[p].s = call[p].s) \/ Lined(p)'
      /\ \A p \in Op : call'[p].pc = "next" => call'[p].kind = "close_all"
  BY <1>1 DEF Idle, Lines
<1>4. reaper' \in ReaperStates /\ (reaper'.pc = "roll" => reaper.pc = "roll" /\ reaper'.s = reaper.s)
  BY <1>1 DEF Lines
<1>5. QED
  BY <1>1, <1>2, <1>3, <1>4, LinesKept

LEMMA ReaperLines == ASSUME IInv, Lines, Reap \/ ReaperLost PROVE Lines'
<1>0. /\ line \in [Session -> Seq(Op \cup {Reaper})] /\ reaper \in ReaperStates
      /\ table \subseteq Session /\ None \notin Session /\ Reaper \notin Op
  BY CallersAssumption DEF IInv, Parts, Lines
<1>1. ASSUME UNCHANGED <<line, call>>, reaper' \in ReaperStates, reaper'.pc # "roll" PROVE Lines'
  BY <1>1, QuietLines DEF Lines
<1>2. ASSUME NEW s \in Session, line' = [line EXCEPT ![s] = Without(@, {Reaper})], UNCHANGED call,
             reaper' \in ReaperStates, reaper'.pc # "roll"
      PROVE  Lines'
  <2>1. Moves({}, {Reaper}) /\ line' = [t \in Session |-> line'[t]]
    BY <1>0, <1>2 DEF Moves
  <2>2. /\ \A p \in Op : call'[p].pc = "wait" =>
             (p \notin {Reaper} /\ call[p].pc = "wait" /\ call'[p].s = call[p].s) \/ Lined(p)'
        /\ \A p \in Op : call'[p].pc = "next" => call'[p].kind = "close_all"
    BY <1>0, <1>2 DEF Lines
  <2>3. QED
    BY <1>2, <2>1, <2>2, LinesKept
<1>3. CASE ReapTick
  <2>1. reaper' \in ReaperStates /\ reaper'.pc = "reap"
    BY <1>0, <1>3 DEF ReapTick, ReaperStates
  <2>2. QED
    BY <1>1, <1>3, <2>1 DEF ReapTick
<1>4. CASE ReapNext
  <2>1. CASE reaper' = [reaper EXCEPT !.pc = "tick"] /\ UNCHANGED line
    <3>1. reaper' \in ReaperStates /\ reaper'.pc = "tick"
      BY <1>0, <2>1 DEF ReaperStates
    <3>2. QED
      BY <1>1, <1>4, <2>1, <3>1 DEF ReapNext
  <2>2. ASSUME NEW s \in reaper.todo, line[s] = <<>>,
               reaper' = [pc |-> "roll", s |-> s, todo |-> reaper.todo \ {s}],
               line' = [line EXCEPT ![s] = <<Reaper>>]
        PROVE  Lines'
    <3>1. s \in Session /\ reaper' \in ReaperStates /\ UNCHANGED call
      BY <1>0, <1>4, <2>2 DEF ReapNext, ReaperStates
    <3>2. Moves({Reaper}, {}) /\ line' = [t \in Session |-> line'[t]] /\ line'[s] = <<Reaper>>
      <4>1. <<Reaper>> = Append(<<>>, Reaper)
        OBVIOUS
      <4>2. QED
        BY <1>0, <2>2, <3>1, <4>1 DEF Moves
    <3>3. ReaperHolds'
      BY <2>2, <3>1, <3>2 DEF ReaperHolds
    <3>4. /\ \A p \in Op : call'[p].pc = "wait" =>
               (p \notin {} /\ call[p].pc = "wait" /\ call'[p].s = call[p].s) \/ Lined(p)'
          /\ \A p \in Op : call'[p].pc = "next" => call'[p].kind = "close_all"
      BY <3>1 DEF Lines
    <3>5. {Reaper} \subseteq Op \cup {Reaper}
      OBVIOUS
    <3>6. QED
      BY <3>1, <3>2, <3>3, <3>4, <3>5, LinesKept
  <2>3. ASSUME NEW s \in reaper.todo, reaper' = [reaper EXCEPT !.todo = @ \ {s}], UNCHANGED line
        PROVE  Lines'
    <3>1. reaper' \in ReaperStates /\ reaper'.pc = "reap"
      BY <1>0, <1>4, <2>3 DEF ReapNext, ReaperStates
    <3>2. QED
      BY <1>1, <1>4, <2>3, <3>1 DEF ReapNext
  <2>4. QED
    BY <1>4, <2>1, <2>2, <2>3 DEF ReapNext
<1>5. CASE ReapRollback
  <2>1. reaper.s \in Session /\ reaper' \in ReaperStates /\ reaper'.pc = "kill"
    BY <1>0, <1>5 DEF ReapRollback, ReaperStates, Lines, ReaperHolds
  <2>2. QED
    BY <1>2, <1>5, <2>1 DEF ReapRollback
<1>6. CASE ReapKill
  <2>1. reaper' \in ReaperStates /\ reaper'.pc = "reap"
    BY <1>0, <1>6 DEF ReapKill, ReaperStates
  <2>2. QED
    BY <1>1, <1>6, <2>1 DEF ReapKill
<1>7. CASE ReaperLost
  <2>1. reaper' \in ReaperStates /\ reaper'.pc = "lost" /\ UNCHANGED call
    BY <1>7 DEF ReaperLost, ReaperStates
  <2>2. CASE reaper.pc = "roll"
    <3>1. reaper.s \in Session /\ line' = [line EXCEPT ![reaper.s] = Without(@, {Reaper})]
      BY <1>7, <2>2 DEF ReaperLost, Lines, ReaperHolds
    <3>2. QED
      BY <1>2, <2>1, <3>1
  <2>3. CASE reaper.pc # "roll"
    BY <1>1, <1>7, <2>1, <2>3 DEF ReaperLost
  <2>4. QED
    BY <2>2, <2>3
<1>8. QED
  BY <1>3, <1>4, <1>5, <1>6, <1>7 DEF Reap

LEMMA NextLines == ASSUME IInv, Lines, [Next]_vars PROVE Lines'
<1>1. ASSUME UNCHANGED <<line, call, reaper>> PROVE Lines'
  BY <1>1, QuietCall
<1>2. QED
  BY <1>1, BeginLines, UseLines, EndLines, ProceedLines, TerminateLines, ReaperLines
     DEF Next, RequestEnds, ReRegister, DiscardNext, Expire, vars

-----------------------------------------------------------------------------
(* Who ends a transaction. *)

EndsByHolder ==
  \A s \in Session : txn[s] = "open" /\ txn'[s] # "open" =>
    /\ txn'[s] = "over" /\ line[s] # <<>>
    /\ Head(line[s]) # Reaper => call[Head(line[s])].kind \in Ending

\* A call at the head of a line: there is one, and the call is no reaper.
LEMMA HolderEnds ==
  ASSUME Lines, NEW o \in Op, Holds(o), call[o].kind \in Ending, NEW s, s = call[o].s
  PROVE  /\ line[s] # <<>>
         /\ Head(line[s]) # Reaper => call[Head(line[s])].kind \in Ending
<1>1. Lined(o) /\ Head(line[s]) = o
  BY DEF Lines, Holds
<1>2. line[s] # <<>>
  BY <1>1 DEF Lined, ToSet
<1>3. QED
  BY <1>1, <1>2

LEMMA StepEnds == ASSUME IInv, Lines, [Next]_vars PROVE EndsByHolder
<1>0. txn \in [Session -> Status]
  BY DEF IInv, Parts
<1>1. ASSUME UNCHANGED txn PROVE EndsByHolder
  BY <1>1 DEF EndsByHolder
<1>2. ASSUME NEW o \in Op, Begin(o) PROVE EndsByHolder
  <2>1. UNCHANGED txn \/ txn' = [txn EXCEPT ![call[o].s] = "open"]
    BY <1>2 DEF Begin, BeginLookup, Reserve, BeginOk, BeginFails
  <2>2. QED
    BY <1>0, <2>1 DEF EndsByHolder
<1>3. ASSUME NEW o \in Op, Proceed(o) PROVE EndsByHolder
  <2>1. CASE EndTransaction(o)
    BY <1>0, <2>1, HolderEnds DEF EndTransaction, EndsByHolder
  <2>2. QED
    BY <1>1, <1>3, <2>1 DEF Proceed, StatementEnds, StatementTimesOut, AfterEnding, CloseNext
<1>4. ASSUME NEW r \in Request, Terminate(r) PROVE EndsByHolder
  <2> SUFFICES ASSUME NEW s \in Session, txn[s] = "open", txn'[s] # "open"
               PROVE  /\ txn'[s] = "over" /\ line[s] # <<>>
                      /\ Head(line[s]) # Reaper => call[Head(line[s])].kind \in Ending
    BY DEF EndsByHolder
  <2>1. txn'[s] = "over" /\ \E p \in Op : s = call[p].s /\ Holds(p) /\ call[p].kind \in Ending
    BY <1>4 DEF Terminate
  <2>2. QED
    BY <2>1, HolderEnds
<1>5. CASE Reap \/ ReaperLost
  <2>1. UNCHANGED txn \/ (reaper.pc = "roll" /\ txn' = [txn EXCEPT ![reaper.s] = "over"])
    BY <1>5 DEF Reap, ReapTick, ReapNext, ReapRollback, ReapKill, ReaperLost
  <2>2. QED
    BY <1>0, <1>1, <2>1 DEF Lines, ReaperHolds, EndsByHolder
<1>6. QED
  BY <1>1, <1>2, <1>3, <1>4, <1>5
     DEF Next, vars, Use, End, Detach, RefuseAndKill, Attach, StartStatement, StartEnding,
         CloseAll, RequestEnds, ReRegister, DiscardNext, Expire

LinesInv == IInv /\ Lines

LEMMA LinesAlways == Spec => []LinesInv
<1>1. Init => LinesInv
  BY InitHolds DEF LinesInv, Init, Lines, ReaperStates, Idle
<1>2. LinesInv /\ [Next]_vars => LinesInv'
  BY StepHolds, NextLines DEF LinesInv
<1>3. QED
  BY <1>1, <1>2, PTL DEF Spec

\* A transaction is ended by the one at the head of the session's line, a call that
\* ends it or the reaper, never under a statement (commit, rollback, close and the
\* reaper take the session's lock; a call that is dropped ends what it held).
THEOREM EndedByHolder == Spec => OnlyHolderEnds
<1>1. LinesInv /\ [Next]_vars => EndsByHolder
  BY StepEnds DEF LinesInv
<1>2. QED
  BY <1>1, LinesAlways, PTL DEF Spec, OnlyHolderEnds, EndsByHolder

-----------------------------------------------------------------------------
(* Who joins a line. *)

JoinsCurrent ==
  \A o \in Op, s \in Session :
    Joins(o, s) /\ call'[o].kind # "close_all" =>
      entry[s].conn = epoch \/ entry[s].conn < entry[s].epoch

\* The registration is read after the connection, so the connection is not newer.
Registered ==
  /\ \A s \in Session : entry[s].conn <= entry[s].epoch
  /\ \A o \in Op : call[o].pc = "look" => call[o].conn <= epoch

LEMMA RegisteredKept ==
  ASSUME IInv, Registered,
         \A s \in Session : entry'[s] \in {entry[s], Blank},
         epoch' \in {epoch, epoch + 1},
         \A o \in Op : call'[o].pc = "look" => call'[o] = call[o]
  PROVE  Registered'
<1>1. epoch \in Nat /\ \A o \in Op : call[o].conn \in Nat
  BY ConfigAssumption DEF IInv, Parts, Epoch, Call
<1>2. Blank.conn <= Blank.epoch
  BY DEF Blank
<1>3. QED
  BY <1>1, <1>2 DEF Registered

\* The calls that are not looking for a connection go on without starting to.
LEMMA NextRegistered == ASSUME IInv, Registered, [Next]_vars PROVE Registered'
<1>0. /\ call \in [Op -> Call] /\ entry \in [Session -> Entry] /\ epoch \in Nat
      /\ Idle.pc # "look"
  BY ConfigAssumption DEF IInv, Parts, Epoch, Idle
<1>1. ASSUME UNCHANGED <<entry, epoch>>,
             \/ UNCHANGED call
             \/ \E o \in Op, pc \in {"idle", "open", "wait", "kill", "next"} : Becomes(o, pc)
      PROVE  Registered'
  BY <1>1, RegisteredKept DEF Becomes
<1>2. ASSUME NEW s, Kill(s), UNCHANGED epoch,
             \/ UNCHANGED call
             \/ \E o \in Op, pc \in {"idle", "open", "wait", "kill", "next"} : Becomes(o, pc)
      PROVE  Registered'
  <2>1. \A t \in Session : entry'[t] \in {entry[t], Blank}
    BY <1>0, <1>2 DEF Kill
  <2>2. QED
    BY <1>2, <2>1, RegisteredKept DEF Becomes
<1>3. ASSUME NEW o \in Op, Returns(o) PROVE Becomes(o, "idle")
  BY <1>0, <1>3 DEF Returns, Becomes, Idle
<1>4. ASSUME NEW o \in Op, Begin(o) PROVE Registered'
  <2>1. ASSUME NEW s \in Session, BeginLookup(o, s) PROVE Registered'
    <3>1. call'[o].conn = epoch /\ \A p \in Op \ {o} : call'[p] = call[p]
      BY <1>0, <2>1 DEF BeginLookup, Idle
    <3>2. QED
      BY <1>0, <2>1, <3>1 DEF BeginLookup, tabled, Registered
  <2>2. CASE Reserve(o)
    <3>1. CASE Returns(o) /\ UNCHANGED <<entry, epoch>>
      BY <1>1, <1>3, <3>1
    <3>2. CASE /\ entry' = [entry EXCEPT ![call[o].s] = [owner |-> Me(o), epoch |-> epoch,
                                                          conn |-> call[o].conn]]
               /\ call' = [call EXCEPT ![o].pc = "open"] /\ UNCHANGED epoch
      <4>1. call[o].pc = "look"
        BY <2>2 DEF Reserve, At
      <4>2. Becomes(o, "open")
        BY <1>0, <3>2 DEF Becomes, Call
      <4>3. \A s \in Session : entry'[s].conn <= entry'[s].epoch
        BY <1>0, <3>2, <4>1 DEF Registered
      <4>4. QED
        BY <3>2, <4>2, <4>3 DEF Registered, Becomes
    <3>3. QED
      BY <2>2, <3>1, <3>2 DEF Reserve
  <2>3. CASE BeginOk(o)
    BY <1>1, <1>3, <2>3 DEF BeginOk
  <2>4. CASE BeginFails(o)
    <3>1. Becomes(o, "idle") /\ UNCHANGED epoch /\ \A s \in Session : entry'[s] \in {entry[s], Blank}
      BY <1>0, <1>3, <2>4 DEF BeginFails
    <3>2. QED
      BY <3>1, RegisteredKept DEF Becomes
  <2>5. QED
    BY <1>4, <2>1, <2>2, <2>3, <2>4 DEF Begin
<1>5. ASSUME NEW o \in Op, NEW k, NEW s, NEW prev, Queue(o, k, s, prev)
      PROVE  Becomes(o, "wait")
  BY <1>0, <1>5 DEF Queue, Becomes, Idle
<1>6. ASSUME NEW o \in Op, Use(o) \/ End(o) PROVE Registered'
  <2>1. ASSUME NEW s, RefuseAndKill(o, s) PROVE Registered'
    BY <1>2, <2>1 DEF RefuseAndKill
  <2>2. CASE CloseAll(o)
    <3>1. Becomes(o, "next")
      BY <1>0, <2>2 DEF CloseAll, Becomes, Idle
    <3>2. QED
      BY <1>1, <2>2, <3>1 DEF CloseAll, tabled
  <2>3. QED
    BY <1>1, <1>5, <1>6, <2>1, <2>2 DEF Use, End, Detach, Attach, StartStatement, StartEnding, tabled
<1>7. ASSUME NEW o \in Op, Proceed(o) PROVE Registered'
  <2>1. CASE StatementEnds(o)
    BY <1>1, <1>3, <2>1 DEF StatementEnds, tabled
  <2>2. CASE StatementTimesOut(o)
    BY <1>1, <1>2, <1>3, <2>2 DEF StatementTimesOut, tabled
  <2>3. CASE EndTransaction(o)
    <3>1. Becomes(o, "kill")
      BY <1>0, <2>3 DEF EndTransaction, Becomes, Call
    <3>2. QED
      BY <1>1, <2>3, <3>1 DEF EndTransaction, tabled
  <2>4. CASE AfterEnding(o)
    <3>1. CASE call' = [call EXCEPT ![o].pc = "next", ![o].s = None]
      <4>1. Becomes(o, "next")
        BY <1>0, <3>1 DEF Becomes, Call
      <4>2. QED
        BY <1>2, <2>4, <4>1 DEF AfterEnding
    <3>2. QED
      BY <1>2, <1>3, <2>4, <3>1 DEF AfterEnding
  <2>5. CASE CloseNext(o)
    <3>1. UNCHANGED <<entry, epoch>> /\ call[o].pc = "next" /\ call[o] \in Call
      BY <1>0, <2>5 DEF CloseNext, tabled, At
    <3>2. ASSUME NEW s, call' = [call EXCEPT ![o].pc = "wait", ![o].s = s, ![o].todo = @ \ {s}]
          PROVE  Becomes(o, "wait")
      BY <1>0, <3>1, <3>2 DEF Becomes, Call
    <3>3. ASSUME NEW s, call' = [call EXCEPT ![o].todo = @ \ {s}]
          PROVE  Becomes(o, "next")
      BY <1>0, <3>1, <3>3 DEF Becomes, Call
    <3>4. Becomes(o, "idle") \/ Becomes(o, "wait") \/ Becomes(o, "next")
      BY <1>3, <2>5, <3>2, <3>3 DEF CloseNext
    <3>5. QED
      BY <1>1, <3>1, <3>4
  <2>6. QED
    BY <1>7, <2>1, <2>2, <2>3, <2>4, <2>5 DEF Proceed
<1>8. ASSUME NEW r \in Request, Terminate(r) PROVE Registered'
  <2>1. /\ UNCHANGED <<entry, epoch>>
        /\ \A p \in Op : call'[p].pc = "look" => call'[p] = call[p]
    BY <1>0, <1>8 DEF Terminate, tabled
  <2>2. QED
    BY <2>1, RegisteredKept
<1>9. CASE Reap \/ ReaperLost
  <2>1. CASE ReapKill
    BY <1>2, <2>1 DEF ReapKill
  <2>2. QED
    BY <1>1, <1>9, <2>1 DEF Reap, ReapTick, ReapNext, ReapRollback, ReaperLost, tabled
<1>10. CASE ReRegister
  BY <1>10, RegisteredKept DEF ReRegister, tabled
<1>11. CASE DiscardNext
  BY <1>2, <1>11 DEF DiscardNext
<1>12. QED
  BY <1>1, <1>4, <1>6, <1>7, <1>8, <1>9, <1>10, <1>11 DEF Next, RequestEnds, Expire, vars, tabled

\* What a step may do to the lines: some leave, or the reaper joins; a call joins
\* the line of a session it finds usable; close_all joins one.
LineStep ==
  \/ \E out : Moves({Reaper}, out)
  \/ \E o \in Op, s \in Session :
       Usable(o, s) /\ Moves({o}, {}) /\ \A t \in Session \ {s} : line'[t] = line[t]
  \/ \E o \in Op : Moves({o}, {}) /\ call'[o].kind = "close_all"

LEMMA NextMoves == ASSUME IInv, Lines, [Next]_vars PROVE LineStep
<1>0. /\ line \in [Session -> Seq(Op \cup {Reaper})] /\ call \in [Op -> Call]
  BY DEF IInv, Parts, Lines
<1>1. ASSUME UNCHANGED line PROVE LineStep
  BY <1>1 DEF LineStep, Moves
<1>2. ASSUME NEW s, NEW out, line' = [line EXCEPT ![s] = Without(@, out)] PROVE LineStep
  <2>1. Moves({Reaper}, out)
    BY <1>0, <1>2 DEF Moves
  <2>2. QED
    BY <2>1 DEF LineStep
<1>3. ASSUME NEW o \in Op, NEW k \in Statement \cup {"end"}, NEW s \in Session, NEW prev,
             Queue(o, k, s, prev), Usable(o, s)
      PROVE  LineStep
  <2>1. Moves({o}, {}) /\ \A t \in Session \ {s} : line'[t] = line[t]
    BY <1>0, <1>3 DEF Moves, Queue
  <2>2. QED
    BY <1>3, <2>1 DEF LineStep
<1>4. ASSUME NEW o \in Op, Use(o) \/ End(o) PROVE LineStep
  BY <1>1, <1>3, <1>4
     DEF Use, End, Detach, RefuseAndKill, Attach, StartStatement, StartEnding, CloseAll
<1>5. ASSUME NEW o \in Op, Proceed(o) PROVE LineStep
  <2>1. CASE CloseNext(o)
    <3>1. ASSUME NEW s \in call[o].todo, line[s] = <<>>,
                 call' = [call EXCEPT ![o].pc = "wait", ![o].s = s, ![o].todo = @ \ {s}],
                 line' = [line EXCEPT ![s] = <<o>>]
          PROVE  LineStep
      <4>1. call[o].kind = "close_all" /\ call[o] \in Call /\ s \in Session
        BY <1>0, <2>1, <3>1 DEF CloseNext, At, Lines, Call
      <4>2. <<o>> = Append(<<>>, o)
        OBVIOUS
      <4>3. Moves({o}, {})
        BY <1>0, <3>1, <4>1, <4>2 DEF Moves
      <4>4. call'[o].kind = "close_all"
        BY <1>0, <3>1, <4>1 DEF Call
      <4>5. QED
        BY <4>3, <4>4 DEF LineStep
    <3>2. QED
      BY <1>1, <2>1, <3>1 DEF CloseNext
  <2>2. QED
    BY <1>1, <1>2, <1>5, <2>1
       DEF Proceed, StatementEnds, StatementTimesOut, EndTransaction, AfterEnding, Leave
<1>6. ASSUME NEW r \in Request, Terminate(r) PROVE LineStep
  <2>1. PICK gone : line' = [s \in Session |-> Without(line[s], gone)]
    BY <1>6 DEF Terminate
  <2>2. Moves({Reaper}, gone)
    BY <2>1 DEF Moves
  <2>3. QED
    BY <2>2 DEF LineStep
<1>7. CASE Reap \/ ReaperLost
  <2>1. CASE ReapNext
    <3>1. ASSUME NEW s \in reaper.todo, line[s] = <<>>, line' = [line EXCEPT ![s] = <<Reaper>>]
          PROVE  LineStep
      <4>1. <<Reaper>> = Append(<<>>, Reaper)
        OBVIOUS
      <4>2. Moves({Reaper}, {})
        BY <1>0, <3>1, <4>1 DEF Moves
      <4>3. QED
        BY <4>2 DEF LineStep
    <3>2. QED
      BY <1>1, <2>1, <3>1 DEF ReapNext
  <2>2. CASE ReapRollback \/ ReaperLost
    BY <1>1, <1>2, <2>2 DEF ReapRollback, ReaperLost
  <2>3. QED
    BY <1>1, <1>7, <2>1, <2>2 DEF Reap, ReapTick, ReapKill
<1>8. QED
  BY <1>1, <1>4, <1>5, <1>6, <1>7
     DEF Next, Begin, BeginLookup, Reserve, BeginOk, BeginFails, RequestEnds, ReRegister,
         DiscardNext, Expire, vars

LEMMA StepJoins == ASSUME LinesInv, Registered, [Next]_vars PROVE JoinsCurrent
<1> SUFFICES ASSUME NEW o \in Op, NEW s \in Session, Joins(o, s), call'[o].kind # "close_all"
             PROVE  entry[s].conn = epoch \/ entry[s].conn < entry[s].epoch
  BY DEF JoinsCurrent
<1>0. entry[s] \in Entry /\ epoch \in Nat /\ Entry = [owner : Owner \cup {None}, epoch : Epoch, conn : Epoch]
  BY ConfigAssumption DEF LinesInv, IInv, Parts, Epoch, Entry
<1>1. ASSUME NEW in, NEW out, in \subseteq Op \cup {Reaper}, Moves(in, out) PROVE o \in in
  BY <1>1, MovesLines DEF Joins, LinesInv
<1>2. ASSUME NEW out, Moves({Reaper}, out) PROVE FALSE
  BY <1>1, <1>2, CallersAssumption
<1>3. ASSUME NEW p \in Op, Moves({p}, {}) PROVE p = o
  BY <1>1, <1>3
<1>4. ASSUME NEW p \in Op, NEW t \in Session, Usable(p, t), \A u \in Session \ {t} : line'[u] = line[u]
      PROVE  entry[s].conn = epoch \/ entry[s].conn < entry[s].epoch
  <2>1. s = t
    BY <1>4 DEF Joins
  <2>2. entry[s].epoch = epoch /\ entry[s].conn <= entry[s].epoch
    BY <1>4, <2>1 DEF Usable, Registered
  <2>3. entry[s].conn \in Nat
    BY <1>0, ConfigAssumption DEF Epoch
  <2>4. QED
    BY <1>0, <2>2, <2>3
<1>5. QED
  BY <1>2, <1>3, <1>4, NextMoves DEF LineStep, LinesInv

\* No statement and no commit joins the line of a session whose alias has been
\* registered anew (lookup_entry compares the registration, at every call), but for the
\* session of a begin that took its connection before and its number after.
THEOREM OldRefused == Spec => OldIsRefused
<1>1. Init => LinesInv /\ Registered
  BY InitHolds DEF LinesInv, Init, Lines, ReaperStates, Idle, Registered, Blank
<1>2. LinesInv /\ Registered /\ [Next]_vars => (LinesInv /\ Registered)'
  BY StepHolds, NextLines, NextRegistered DEF LinesInv
<1>3. LinesInv /\ Registered /\ [Next]_vars => JoinsCurrent
  BY StepJoins
<1>4. QED
  BY <1>1, <1>2, <1>3, PTL DEF Spec, OldIsRefused, JoinsCurrent

-----------------------------------------------------------------------------
(* Type correctness: what the three invariants leave open of it. *)

Apart == reserved \cap table = {} /\ discard \subseteq Session /\ expired \subseteq Session

LEMMA NextApart == ASSUME IInv, Apart, [Next]_vars PROVE Apart'
<1>0. reserved \subseteq Session /\ table \subseteq Session
  BY DEF IInv, Parts
<1>1. ASSUME NEW s, Kill(s), discard' \subseteq discard PROVE Apart'
  BY <1>1 DEF Kill, Apart
<1>2. ASSUME UNCHANGED <<tabled, discard>> PROVE Apart'
  BY <1>2 DEF tabled, Apart
<1>3. ASSUME NEW o \in Op, Begin(o) PROVE Apart'
  <2>1. CASE Reserve(o)
    <3>1. call[o].s \notin table /\ UNCHANGED <<table, expired, discard>>
      BY <2>1 DEF Reserve, At, IInv, OwnIds, Beginning
    <3>2. QED
      BY <2>1, <3>1 DEF Reserve, Apart
  <2>2. CASE BeginOk(o) \/ BeginFails(o)
    BY <2>2 DEF BeginOk, BeginFails, Apart
  <2>3. QED
    BY <1>2, <1>3, <2>1, <2>2 DEF Begin, BeginLookup
<1>4. CASE ReRegister
  BY <1>0, <1>4 DEF ReRegister, tabled, Apart
<1>5. ASSUME NEW s \in Session, Expire(s) PROVE Apart'
  BY <1>0, <1>5 DEF Expire, Apart
<1>6. CASE DiscardNext
  BY <1>1, <1>6 DEF DiscardNext
<1>7. ASSUME NEW o \in Op, Use(o) \/ End(o) \/ Proceed(o) PROVE Apart'
  BY <1>1, <1>2, <1>7
     DEF Use, End, Proceed, Detach, RefuseAndKill, Attach, StartStatement, StartEnding, CloseAll,
         StatementEnds, StatementTimesOut, EndTransaction, AfterEnding, CloseNext
<1>8. ASSUME NEW r \in Request, RequestEnds(r) \/ Terminate(r) PROVE Apart'
  BY <1>2, <1>8 DEF RequestEnds, Terminate
<1>9. CASE Reap \/ ReaperLost
  BY <1>1, <1>2, <1>9 DEF Reap, ReapTick, ReapNext, ReapRollback, ReapKill, ReaperLost
<1>10. QED
  BY <1>2, <1>3, <1>4, <1>5, <1>6, <1>7, <1>8, <1>9 DEF Next, vars

\* The type invariant: among the rest, no id is both reserved and in the table
\* (the two maps of the registry behind db.session).
THEOREM TypeCorrect == Spec => []TypeOK
<1>1. Init => LinesInv /\ Apart
  BY InitHolds DEF LinesInv, Init, Lines, ReaperStates, Idle, Apart
<1>2. LinesInv /\ Apart /\ [Next]_vars => (LinesInv /\ Apart)'
  BY StepHolds, NextLines, NextApart DEF LinesInv
<1>3. LinesInv /\ Apart => TypeOK
  BY DEF LinesInv, IInv, Parts, Status, Lines, ReaperStates, Apart, TypeOK
<1>4. QED
  BY <1>1, <1>2, <1>3, PTL DEF Spec

-----------------------------------------------------------------------------
(***************************************************************************)
(* The store.  Its steps are those of SessionStore because whoever removes *)
(* a session or ends its transaction knows it from the table: such an id   *)
(* is never one that is being opened.                                      *)
(***************************************************************************)

Known(s) == s \in Session /\ txn[s] # "none"

Unopened ==
  /\ \A s \in reserved : txn[s] = "none"
  /\ \A o \in Op : Beginning(o) => txn[call[o].s] = "none"

\* What a call, the reaper and discard_alias have in hand.
KnowsCall(c) ==
  /\ c.pc \in {"wait", "kill"} => Known(c.s)
  /\ \A s \in c.todo : Known(s)
KnowsReaper(r) ==
  /\ r.pc \in {"roll", "kill"} => Known(r.s)
  /\ \A s \in r.todo : Known(s)

Outside == \A s \in Session : s \notin table \cup reserved => entry[s].owner = None

Past ==
  /\ Unopened /\ Outside /\ KnowsReaper(reaper)
  /\ \A o \in Op : KnowsCall(call[o])
  /\ \A s \in discard : Known(s)

LEMMA InTable == ASSUME IInv, NEW s \in table PROVE Known(s)
  BY DEF IInv, Parts, OwnIds, Known

\* Whatever opens no session: what it removes was known, and so is what it has in hand.
LEMMA PastKept ==
  ASSUME IInv, Past,
         (\E s \in Session : Kill(s) /\ Known(s)) \/ UNCHANGED <<reserved, table, entry>>,
         \A s \in Session : txn[s] = "none" <=> txn'[s] = "none",
         \A o \in Op : \/ call'[o] = call[o]
                       \/ ~Beginning(o)' /\ KnowsCall(call'[o]),
         KnowsReaper(reaper'), \A s \in discard' : Known(s)
  PROVE  Past'
<1>1. \A s : Known(s) => Known(s)'
  BY DEF Known
<1>2. \A o \in Op : Beginning(o)' => call'[o] = call[o] /\ Beginning(o)
  BY DEF Beginning
<1>3. reserved' = reserved
  BY DEF Kill
<1>4. Unopened'
  BY <1>2, <1>3 DEF Past, Unopened, IInv, Parts, OwnIds
<1>5. Outside'
  <2>1. CASE UNCHANGED <<reserved, table, entry>>
    BY <2>1 DEF Past, Outside
  <2>2. ASSUME NEW s \in Session, Kill(s) PROVE Outside'
    BY <2>2 DEF Past, Outside, Kill, Blank, IInv, Parts
  <2> QED
    BY <2>1, <2>2
<1>6. KnowsReaper(reaper)' /\ \A o \in Op : KnowsCall(call[o])'
  BY <1>1 DEF Past, KnowsReaper, KnowsCall
<1> QED
  BY <1>1, <1>4, <1>5, <1>6 DEF Past

-----------------------------------------------------------------------------
(* The steps of the store. *)

Stores == Store!Next \/ UNCHANGED Store!vars

LEMMA OwnersKept ==
  ASSUME UNCHANGED <<reserved, table, entry, txn>>
  PROVE  Stores
BY DEF Stores, Store!vars, Owners

LEMMA OwnersOf ==
  ASSUME Parts, NEW s \in Session, NEW e, entry' = [entry EXCEPT ![s] = e]
  PROVE  Owners' = [Owners EXCEPT ![s] = e.owner]
BY DEF Owners, Parts

\* A known session leaves the table, or has left it before.
LEMMA KillStores ==
  ASSUME IInv, Past, NEW s \in Session, Kill(s), Known(s), UNCHANGED txn
  PROVE  Stores
<1>1. Owners' = [Owners EXCEPT ![s] = None] /\ reserved' = reserved /\ table' = table \ {s}
  <2>1. Owners' = [Owners EXCEPT ![s] = Blank.owner]
    BY OwnersOf DEF Kill, IInv
  <2> QED
    BY <2>1 DEF Kill, Blank
<1>2. CASE s \in table
  BY <1>1, <1>2 DEF Stores, Store!Next, Store!Remove
<1>3. CASE s \notin table
  <2>1. s \notin reserved
    BY DEF Known, Past, Unopened
  <2>2. Owners[s] = None
    BY <1>3, <2>1 DEF Past, Outside, Owners
  <2>3. Owners' = Owners
    BY <1>1, <2>2 DEF Owners
  <2> QED
    BY <1>1, <1>3, <2>3 DEF Stores, Store!vars
<1> QED
  BY <1>2, <1>3

\* Transactions end; one that was over stays over.
LEMMA EndStores ==
  ASSUME IInv, UNCHANGED <<reserved, table, entry>>, NEW S, \A s \in S : Known(s),
         txn' = [s \in Session |-> IF s \in S THEN "over" ELSE txn[s]]
  PROVE  Stores
<1> DEFINE E == {s \in Session : s \in S /\ txn[s] = "open"}
<1>1. txn' = [s \in Session |-> IF s \in E THEN "over" ELSE txn[s]]
  BY DEF Known, IInv, Parts, Status
<1>2. E \in SUBSET Session /\ \A s \in E : txn[s] = "open"
  OBVIOUS
<1>3. Owners' = Owners
  BY DEF Owners
<1> HIDE DEF E
<1>4. Store!End(E)
  BY <1>1, <1>2, <1>3 DEF Store!End
<1> QED
  BY <1>2, <1>4 DEF Stores, Store!Next

\* The same of one transaction.
LEMMA EndsOne ==
  ASSUME IInv, UNCHANGED <<reserved, table, entry>>, NEW s, Known(s),
         txn' = [txn EXCEPT ![s] = "over"]
  PROVE  Stores /\ \A t \in Session : txn[t] = "none" <=> txn'[t] = "none"
<1> DEFINE S == {s}
<1>1. txn' = [t \in Session |-> IF t \in S THEN "over" ELSE txn[t]]
  BY DEF Known, IInv, Parts
<1>2. \A t \in S : Known(t)
  OBVIOUS
<1> HIDE DEF S
<1>3. Stores
  BY <1>1, <1>2, EndStores
<1>4. \A t \in Session : txn[t] = "none" <=> txn'[t] = "none"
  BY DEF Known, IInv, Parts
<1> QED
  BY <1>3, <1>4

-----------------------------------------------------------------------------
(* begin *)

\* A begin has its id for itself, and nobody knows it.
LEMMA BeginStores ==
  ASSUME IInv, Lines, Past, NEW o \in Op, Begin(o)
  PROVE  Past' /\ Stores
<1>0. Parts /\ reaper \in ReaperStates
  BY DEF IInv, Lines
<1> DEFINE s == call[o].s
<1>1. ASSUME NEW t \in Session, BeginLookup(o, t) PROVE Past' /\ Stores
  <2>1. /\ UNCHANGED <<reserved, table, entry, txn, reaper, discard>>
        /\ txn[t] = "none"
        /\ \A p \in Op \ {o} : call'[p] = call[p]
        /\ call'[o].pc = "look" /\ call'[o].s = t /\ call'[o].todo = {}
    BY <1>0, <1>1 DEF BeginLookup, Fresh, tabled, Parts, Idle
  <2>2. Past'
    BY <2>1 DEF Past, Unopened, Outside, KnowsReaper, KnowsCall, Known, Beginning
  <2> QED
    BY <2>1, <2>2, OwnersKept
<1>2. CASE Reserve(o) /\ Full(Me(o))
  <2>1. /\ UNCHANGED <<reserved, table, entry, txn, reaper, discard>>
        /\ \A p \in Op : call'[p] = call[p] \/ call'[p] = Idle
    BY <1>0, <1>2 DEF Reserve, Returns, Parts
  <2>2. ~Beginning(o)' \/ call'[o] = call[o]
    BY <2>1 DEF Beginning, Idle
  <2>3. Past'
    <3>1. KnowsCall(Idle) /\ Idle.pc \notin {"look", "open"}
      BY DEF KnowsCall, Idle
    <3> QED
      BY <2>1, <3>1, PastKept DEF Past, Beginning
  <2> QED
    BY <2>1, <2>3, OwnersKept
<1>3. CASE Reserve(o) /\ ~Full(Me(o))
  <2> DEFINE e == [owner |-> Me(o), epoch |-> epoch, conn |-> call[o].conn]
  <2>1. /\ reserved' = reserved \cup {s} /\ entry' = [entry EXCEPT ![s] = e]
        /\ UNCHANGED <<table, txn, reaper, discard>>
        /\ call' = [call EXCEPT ![o].pc = "open"] /\ call[o].pc = "look"
    BY <1>3 DEF Reserve, At
  <2>2. /\ s \in Session /\ s \notin table /\ s \notin reserved /\ txn[s] = "none"
        /\ Me(o) \in Owner
    BY <2>1, CallersAssumption DEF IInv, OwnIds, Past, Unopened, Beginning, Me, Owner
  <2>3. Owners' = [Owners EXCEPT ![s] = Me(o)]
    <3>1. e.owner = Me(o)
      OBVIOUS
    <3> HIDE DEF e
    <3>2. Owners' = [Owners EXCEPT ![s] = e.owner]
      BY <1>0, <2>1, <2>2, OwnersOf
    <3> QED
      BY <3>1, <3>2
  <2>4. Past'
    <3>1. Unopened'
      <4>1. \A p \in Op : Beginning(p)' => Beginning(p) /\ call'[p].s = call[p].s
        BY <1>0, <2>1 DEF Beginning, Parts, Call
      <4> QED
        BY <2>1, <2>2, <4>1 DEF Past, Unopened
    <3>2. Outside'
      BY <1>0, <2>1, <2>2 DEF Past, Outside, Parts
    <3>3. \A p \in Op : KnowsCall(call[p])'
      <4>1. call'[o].pc = "open" /\ call'[o].todo = call[o].todo
        BY <1>0, <2>1 DEF Parts, Call
      <4>2. \A p \in Op \ {o} : call'[p] = call[p]
        BY <1>0, <2>1 DEF Parts
      <4> QED
        BY <2>1, <4>1, <4>2 DEF Past, KnowsCall, Known
    <3>4. KnowsReaper(reaper)' /\ \A t \in discard' : Known(t)'
      BY <2>1 DEF Past, KnowsReaper, Known
    <3> QED
      BY <3>1, <3>2, <3>3, <3>4 DEF Past
  <2>5. Store!Reserve(s, Me(o))
    <3>1. /\ Cardinality(table \cup reserved) < MaxSessions
          /\ Cardinality(Owned(table \cup reserved, entry, Me(o))) < MaxPerOwner
      <4>1. Owned(table \cup reserved, entry, Me(o)) \subseteq table \cup reserved
        BY DEF Owned
      <4>2. /\ Cardinality(table \cup reserved) \in Nat
            /\ Cardinality(Owned(table \cup reserved, entry, Me(o))) \in Nat
        BY <1>0, <4>1, FiniteTable, FS_Subset, FS_CardinalityType
      <4> QED
        BY <1>3, <4>2, ConfigAssumption DEF Full, Owned
    <3>2. Store!Places = table \cup reserved
      BY DEF Store!Places
    <3>3. {t \in Store!Places : Owners[t] = Me(o)} = Owned(table \cup reserved, entry, Me(o))
      BY <1>0, <3>2 DEF Owned, Owners, Parts
    <3> HIDE DEF s
    <3>4. /\ Cardinality(Store!Places) < MaxSessions
          /\ Cardinality({t \in Store!Places : Owners[t] = Me(o)}) < MaxPerOwner
      BY <3>1, <3>2, <3>3
    <3> QED
      BY <2>1, <2>2, <2>3, <3>2, <3>4 DEF Store!Reserve, Store!Cardinality, Cardinality
  <2> HIDE DEF s
  <2> QED
    BY <2>2, <2>4, <2>5 DEF Stores, Store!Next
<1>4. CASE BeginOk(o) \/ BeginFails(o)
  <2>1. s \in Session /\ s \in reserved /\ s \notin table /\ call[o].pc = "open" /\ txn[s] = "none"
    BY <1>4 DEF IInv, OwnIds, Beginning, BeginOk, BeginFails, At, Past, Unopened
  <2>2. /\ call' = [call EXCEPT ![o] = Idle] /\ reserved' = reserved \ {s}
        /\ UNCHANGED discard /\ reaper'.todo = reaper.todo
        /\ reaper'.pc \in {"roll", "kill"} => reaper'.pc = reaper.pc /\ reaper'.s = reaper.s
    BY <1>0, <1>4 DEF BeginOk, BeginFails, Returns, ReaperStates
  <2>3. \A t \in Session \ {s} : (txn'[t] = txn[t]) /\ (t \in table' <=> t \in table)
    BY <1>0, <1>4 DEF BeginOk, BeginFails, Parts
  <2>4. /\ \A p \in Op \ {o} : call'[p] = call[p]
        /\ KnowsCall(call'[o]) /\ ~Beginning(o)'
    BY <1>0, <2>2 DEF Parts, KnowsCall, Idle, Beginning
  <2>5. \A t : Known(t) => Known(t)'
    BY <2>1, <2>3 DEF Known
  <2>6. Unopened'
    BY <2>1, <2>2, <2>3, <2>4 DEF Past, Unopened, IInv, Parts, OwnIds, Beginning
  <2>7. Outside'
    <3>1. CASE BeginOk(o)
      BY <2>1, <3>1 DEF BeginOk, Past, Outside
    <3>2. CASE BeginFails(o)
      BY <1>0, <2>1, <3>2 DEF BeginFails, Past, Outside, Blank, Parts
    <3> QED
      BY <1>4, <3>1, <3>2
  <2>8. KnowsReaper(reaper)' /\ \A p \in Op : KnowsCall(call[p])'
    BY <2>2, <2>4, <2>5 DEF Past, KnowsReaper, KnowsCall
  <2>9. Past'
    BY <2>2, <2>5, <2>6, <2>7, <2>8 DEF Past
  <2>10. CASE BeginOk(o)
    <3>1. Store!Open(s)
      BY <2>1, <2>10 DEF BeginOk, Store!Open, Owners
    <3> HIDE DEF s
    <3> QED
      BY <2>1, <2>9, <3>1 DEF Stores, Store!Next
  <2>11. CASE BeginFails(o)
    <3>1. Owners' = [Owners EXCEPT ![s] = Blank.owner]
      BY <1>0, <2>1, <2>11, OwnersOf DEF BeginFails
    <3>2. Store!GiveUp(s)
      BY <2>1, <2>11, <3>1 DEF BeginFails, Store!GiveUp, Blank
    <3> HIDE DEF s
    <3> QED
      BY <2>1, <2>9, <3>2 DEF Stores, Store!Next
  <2> QED
    BY <1>4, <2>10, <2>11
<1> QED
  BY <1>1, <1>2, <1>3, <1>4 DEF Begin

-----------------------------------------------------------------------------
(* the calls that use, end and go on *)

\* Neither the table nor a transaction changes.
LEMMA QuietStores ==
  ASSUME IInv, Past, UNCHANGED <<reserved, table, entry, txn>>,
         \A o \in Op : \/ call'[o] = call[o]
                       \/ ~Beginning(o)' /\ KnowsCall(call'[o]),
         KnowsReaper(reaper'), \A s \in discard' : Known(s)
  PROVE  Past' /\ Stores
BY PastKept, OwnersKept

\* A session that was known is killed.
LEMMA KillKept ==
  ASSUME IInv, Past, NEW t, Kill(t), Known(t), UNCHANGED txn,
         \A o \in Op : \/ call'[o] = call[o]
                       \/ ~Beginning(o)' /\ KnowsCall(call'[o]),
         KnowsReaper(reaper'), \A s \in discard' : Known(s)
  PROVE  Past' /\ Stores
<1>1. t \in Session
  BY DEF Known
<1> QED
  BY <1>1, PastKept, KillStores

\* The slot o gets the call c, whose session is known.
LEMMA SlotKept ==
  ASSUME IInv, Past, NEW o \in Op, NEW c, call' = [call EXCEPT ![o] = c],
         c.pc \notin {"look", "open"}, KnowsCall(c)
  PROVE  \A p \in Op : \/ call'[p] = call[p]
                       \/ ~Beginning(p)' /\ KnowsCall(call'[p])
BY DEF IInv, Parts, Beginning

LEMMA IdleKnows == KnowsCall(Idle) /\ Idle.pc \notin {"look", "open"}
BY DEF KnowsCall, Idle

LEMMA UseStores ==
  ASSUME IInv, Past, NEW o \in Op, Use(o)
  PROVE  Past' /\ Stores
<1>0. KnowsReaper(reaper) /\ \A s \in discard : Known(s)
  BY DEF Past
<1>1. CASE Detach(o) \/ \E s \in Session : Attach(o, s)
  BY <1>0, <1>1, QuietStores DEF Detach, Attach, tabled
<1>2. ASSUME NEW s \in Session, RefuseAndKill(o, s) PROVE Past' /\ Stores
  BY <1>0, <1>2, InTable, KillKept DEF RefuseAndKill, Finds
<1>3. ASSUME NEW s \in Session, NEW k \in Statement, StartStatement(o, k, s)
      PROVE  Past' /\ Stores
  <2> DEFINE c == [Idle EXCEPT !.pc = "wait", !.kind = k, !.s = s, !.prev = bind[ReqOf[o]]]
  <2>1. /\ call' = [call EXCEPT ![o] = c] /\ s \in table
        /\ UNCHANGED <<reserved, table, entry, txn, reaper, discard>>
    BY <1>3 DEF StartStatement, Queue, Usable, Finds, tabled
  <2>2. c.pc \notin {"look", "open"} /\ KnowsCall(c)
    BY <2>1, InTable DEF KnowsCall, Idle
  <2> HIDE DEF c
  <2> QED
    BY <1>0, <2>1, <2>2, SlotKept, QuietStores
<1> QED
  BY <1>1, <1>2, <1>3 DEF Use

LEMMA EndStarts ==
  ASSUME IInv, Past, NEW o \in Op, End(o)
  PROVE  Past' /\ Stores
<1>0. KnowsReaper(reaper) /\ \A s \in discard : Known(s)
  BY DEF Past
<1>1. ASSUME NEW s \in Session, StartEnding(o, s) PROVE Past' /\ Stores
  <2> DEFINE c == [Idle EXCEPT !.pc = "wait", !.kind = "end", !.s = s, !.prev = None]
  <2>1. /\ call' = [call EXCEPT ![o] = c] /\ s \in table
        /\ UNCHANGED <<reserved, table, entry, txn, reaper, discard>>
    BY <1>1 DEF StartEnding, Queue, Usable, Finds, tabled
  <2>2. c.pc \notin {"look", "open"} /\ KnowsCall(c)
    BY <2>1, InTable DEF KnowsCall, Idle
  <2> HIDE DEF c
  <2> QED
    BY <1>0, <2>1, <2>2, SlotKept, QuietStores
<1>2. CASE CloseAll(o)
  <2> DEFINE own == {s \in table : entry[s].owner = Me(o)}
             c == [Idle EXCEPT !.pc = "next", !.kind = "close_all", !.todo = own]
  <2>1. /\ call' = [call EXCEPT ![o] = c]
        /\ UNCHANGED <<reserved, table, entry, txn, reaper, discard>>
    BY <1>2 DEF CloseAll, tabled
  <2>2. \A s \in own : Known(s)
    BY InTable
  <2> HIDE DEF own
  <2>3. c.pc \notin {"look", "open"} /\ KnowsCall(c)
    BY <2>2 DEF KnowsCall, Idle
  <2> HIDE DEF c
  <2> QED
    BY <1>0, <2>1, <2>3, SlotKept, QuietStores
<1> QED
  BY <1>1, <1>2 DEF End

LEMMA ProceedStores ==
  ASSUME IInv, Lines, Past, NEW o \in Op, Proceed(o)
  PROVE  Past' /\ Stores
<1>0. /\ KnowsReaper(reaper) /\ \A s \in discard : Known(s)
      /\ call[o] \in Call /\ KnowsCall(call[o]) /\ call \in [Op -> Call]
  BY DEF Past, IInv, Parts
<1> DEFINE Goes(c) == call' = [call EXCEPT ![o] = c] /\ c.pc \notin {"look", "open"} /\ KnowsCall(c)
<1>1. CASE StatementEnds(o) \/ StatementTimesOut(o)
  <2>1. Goes(Idle) /\ UNCHANGED <<txn, reaper, discard>>
    BY <1>1, IdleKnows DEF StatementEnds, StatementTimesOut, Returns
  <2>2. \A p \in Op : call'[p] = call[p] \/ (~Beginning(p)' /\ KnowsCall(call'[p]))
    BY <2>1, SlotKept
  <2>3. CASE UNCHANGED tabled
    BY <1>0, <2>1, <2>2, <2>3, QuietStores DEF tabled
  <2>4. ASSUME NEW t \in table, Kill(t) PROVE Past' /\ Stores
    BY <1>0, <2>1, <2>2, <2>4, InTable, KillKept
  <2> QED
    BY <1>1, <2>3, <2>4 DEF StatementEnds, StatementTimesOut
<1>2. CASE EndTransaction(o)
  <2> DEFINE c == [call[o] EXCEPT !.pc = "kill"]
             s == call[o].s
  <2>1. /\ call' = [call EXCEPT ![o] = c] /\ Known(s)
        /\ UNCHANGED <<reserved, table, entry, reaper, discard>>
        /\ txn' = [txn EXCEPT ![s] = "over"]
    BY <1>0, <1>2 DEF EndTransaction, At, KnowsCall, tabled, Call
  <2>2. c.pc \notin {"look", "open"} /\ KnowsCall(c)
    BY <1>0, <2>1 DEF KnowsCall, Call
  <2> HIDE DEF c, s
  <2>3. Stores /\ \A t \in Session : txn[t] = "none" <=> txn'[t] = "none"
    BY <2>1, EndsOne
  <2> QED
    BY <1>0, <2>1, <2>2, <2>3, SlotKept, PastKept
<1>3. CASE AfterEnding(o)
  <2>1. Kill(call[o].s) /\ Known(call[o].s) /\ UNCHANGED <<txn, reaper, discard>>
    BY <1>0, <1>3 DEF AfterEnding, At, KnowsCall
  <2>2. \E c : Goes(c)
    <3>1. CASE Returns(o)
      BY <3>1, IdleKnows DEF Returns
    <3>2. CASE call' = [call EXCEPT ![o].pc = "next", ![o].s = None]
      <4> DEFINE c == [call[o] EXCEPT !.pc = "next", !.s = None]
      <4>1. call' = [call EXCEPT ![o] = c] /\ c.pc = "next" /\ c.todo = call[o].todo
        BY <1>0, <3>2 DEF Call
      <4> HIDE DEF c
      <4> QED
        BY <1>0, <4>1 DEF KnowsCall
    <3> QED
      BY <1>3, <3>1, <3>2 DEF AfterEnding
  <2>3. \A p \in Op : call'[p] = call[p] \/ (~Beginning(p)' /\ KnowsCall(call'[p]))
    BY <2>2, SlotKept
  <2> QED
    BY <1>0, <2>1, <2>3, KillKept
<1>4. CASE CloseNext(o)
  <2>1. UNCHANGED <<reserved, table, entry, txn, reaper, discard>> /\ call[o].pc = "next"
    BY <1>4 DEF CloseNext, At, tabled
  <2>2. \E c : Goes(c)
    <3>1. CASE Returns(o)
      BY <3>1, IdleKnows DEF Returns
    <3>2. ASSUME NEW s \in call[o].todo,
                 call' = [call EXCEPT ![o].pc = "wait", ![o].s = s, ![o].todo = @ \ {s}]
          PROVE  \E c : Goes(c)
      <4> DEFINE c == [call[o] EXCEPT !.pc = "wait", !.s = s, !.todo = @ \ {s}]
      <4>1. /\ call' = [call EXCEPT ![o] = c]
            /\ c.pc = "wait" /\ c.s = s /\ c.todo = call[o].todo \ {s}
        BY <1>0, <3>2 DEF Call
      <4> HIDE DEF c
      <4> QED
        BY <1>0, <4>1 DEF KnowsCall
    <3>3. ASSUME NEW s \in call[o].todo, call' = [call EXCEPT ![o].todo = @ \ {s}]
          PROVE  \E c : Goes(c)
      <4> DEFINE c == [call[o] EXCEPT !.todo = @ \ {s}]
      <4>1. /\ call' = [call EXCEPT ![o] = c]
            /\ c.pc = "next" /\ c.todo = call[o].todo \ {s}
        BY <1>0, <2>1, <3>3 DEF Call
      <4> HIDE DEF c
      <4> QED
        BY <1>0, <4>1 DEF KnowsCall
    <3> QED
      BY <1>4, <3>1, <3>2, <3>3 DEF CloseNext
  <2>3. \A p \in Op : call'[p] = call[p] \/ (~Beginning(p)' /\ KnowsCall(call'[p]))
    BY <2>2, SlotKept
  <2> QED
    BY <1>0, <2>1, <2>3, QuietStores
<1> QED
  BY <1>1, <1>2, <1>3, <1>4 DEF Proceed

LEMMA RequestStores ==
  ASSUME IInv, Past, NEW r \in Request, RequestEnds(r) \/ Terminate(r)
  PROVE  Past' /\ Stores
<1>0. KnowsReaper(reaper) /\ \A s \in discard : Known(s)
  BY DEF Past
<1>1. CASE RequestEnds(r)
  BY <1>0, <1>1, QuietStores DEF RequestEnds, tabled
<1>2. CASE Terminate(r)
  <2> DEFINE gone == {o \in Op : ReqOf[o] = r /\ call[o].pc # "idle"}
             cut == {call[o].s : o \in {p \in gone : Holds(p) /\ call[p].kind \in Ending}}
  <2>1. /\ UNCHANGED <<reserved, table, entry, reaper, discard>>
        /\ txn' = [s \in Session |-> IF s \in cut THEN "over" ELSE txn[s]]
        /\ call' = [o \in Op |-> IF o \in gone THEN Idle ELSE call[o]]
    BY <1>2 DEF Terminate, tabled
  <2>2. \A s \in cut : Known(s)
    BY DEF Holds, Past, KnowsCall
  <2>3. \A o \in Op : call'[o] = call[o] \/ call'[o] = Idle
    BY <2>1
  <2> HIDE DEF cut, gone
  <2>4. Stores
    BY <2>1, <2>2, EndStores
  <2>5. \A s \in Session : txn[s] = "none" <=> txn'[s] = "none"
    BY <2>1, <2>2 DEF Known
  <2>6. \A o \in Op : call'[o] = call[o] \/ (~Beginning(o)' /\ KnowsCall(call'[o]))
    BY <2>3, IdleKnows DEF Beginning
  <2> QED
    BY <1>0, <2>1, <2>4, <2>5, <2>6, PastKept
<1> QED
  BY <1>1, <1>2

LEMMA ReaperStores ==
  ASSUME IInv, Lines, Past, Reap \/ ReaperLost
  PROVE  Past' /\ Stores
<1>0. /\ KnowsReaper(reaper) /\ \A s \in discard : Known(s)
      /\ reaper \in ReaperStates
  BY DEF Past, Lines
<1>1. CASE ReapTick
  <2>1. /\ UNCHANGED <<reserved, table, entry, txn, call, discard>>
        /\ reaper'.pc = "reap" /\ reaper'.todo \subseteq table
    BY <1>0, <1>1 DEF ReapTick, tabled, ReaperStates
  <2>2. KnowsReaper(reaper')
    BY <2>1, InTable DEF KnowsReaper
  <2> QED
    BY <1>0, <2>1, <2>2, QuietStores
<1>2. CASE ReapNext
  <2>1. UNCHANGED <<reserved, table, entry, txn, call, discard>>
    BY <1>2 DEF ReapNext, tabled
  <2> DEFINE Draws == /\ reaper'.todo \subseteq reaper.todo
                      /\ reaper'.pc \in {"roll", "kill"} => reaper'.s \in reaper.todo
  <2>2. Draws
    <3>1. CASE reaper' = [reaper EXCEPT !.pc = "tick"]
      BY <1>0, <3>1 DEF ReaperStates
    <3>2. ASSUME NEW s \in reaper.todo,
                 reaper' = [pc |-> "roll", s |-> s, todo |-> reaper.todo \ {s}]
          PROVE  Draws
      BY <3>2
    <3>3. ASSUME NEW s \in reaper.todo, reaper.pc = "reap",
                 reaper' = [reaper EXCEPT !.todo = @ \ {s}]
          PROVE  Draws
      BY <1>0, <3>3 DEF ReaperStates
    <3> QED
      BY <1>2, <3>1, <3>2, <3>3 DEF ReapNext
  <2>3. KnowsReaper(reaper')
    BY <1>0, <2>2 DEF KnowsReaper
  <2> QED
    BY <1>0, <2>1, <2>3, QuietStores
<1>3. CASE ReapRollback \/ (ReaperLost /\ reaper.pc = "roll")
  <2>1. /\ UNCHANGED <<reserved, table, entry, call, discard>> /\ Known(reaper.s)
        /\ txn' = [txn EXCEPT ![reaper.s] = "over"]
    BY <1>0, <1>3 DEF ReapRollback, ReaperLost, KnowsReaper, tabled
  <2>2. KnowsReaper(reaper')
    <3>1. CASE ReapRollback
      <4>1. reaper'.pc = "kill" /\ reaper'.s = reaper.s /\ reaper'.todo = reaper.todo
        BY <1>0, <3>1 DEF ReapRollback, ReaperStates
      <4> QED
        BY <1>0, <2>1, <4>1 DEF KnowsReaper
    <3>2. CASE ReaperLost
      BY <3>2 DEF ReaperLost, KnowsReaper
    <3> QED
      BY <1>3, <3>1, <3>2
  <2>3. Stores /\ \A s \in Session : txn[s] = "none" <=> txn'[s] = "none"
    BY <2>1, EndsOne
  <2> QED
    BY <1>0, <2>1, <2>2, <2>3, PastKept
<1>4. CASE ReapKill
  <2>1. /\ Kill(reaper.s) /\ Known(reaper.s) /\ UNCHANGED <<txn, call, discard>>
        /\ reaper'.pc = "reap" /\ reaper'.todo = reaper.todo
    BY <1>0, <1>4 DEF ReapKill, KnowsReaper, ReaperStates
  <2>2. KnowsReaper(reaper')
    BY <1>0, <2>1 DEF KnowsReaper
  <2> QED
    BY <1>0, <2>1, <2>2, KillKept
<1>5. CASE ReaperLost /\ reaper.pc # "roll"
  <2>1. UNCHANGED <<reserved, table, entry, txn, call, discard>> /\ KnowsReaper(reaper')
    BY <1>5 DEF ReaperLost, KnowsReaper, tabled
  <2> QED
    BY <1>0, <2>1, QuietStores
<1> QED
  BY <1>1, <1>2, <1>3, <1>4, <1>5 DEF Reap

LEMMA NextStores ==
  ASSUME LinesInv, Past, [Next]_vars
  PROVE  Past' /\ Stores
<1>0. /\ IInv /\ Lines
      /\ KnowsReaper(reaper) /\ \A s \in discard : Known(s)
  BY DEF LinesInv, Past
<1>1. ASSUME NEW o \in Op, Begin(o) \/ Use(o) \/ End(o) \/ Proceed(o) PROVE Past' /\ Stores
  BY <1>0, <1>1, BeginStores, UseStores, EndStarts, ProceedStores
<1>2. ASSUME NEW r \in Request, RequestEnds(r) \/ Terminate(r) PROVE Past' /\ Stores
  BY <1>0, <1>2, RequestStores
<1>3. CASE Reap \/ ReaperLost
  BY <1>0, <1>3, ReaperStores
<1>4. CASE ReRegister
  BY <1>0, <1>4, InTable, QuietStores DEF ReRegister, tabled
<1>5. ASSUME NEW s \in discard, Kill(s), discard' = discard \ {s},
             UNCHANGED <<txn, call, reaper>>
      PROVE  Past' /\ Stores
  BY <1>0, <1>5, KillKept
<1>6. ASSUME NEW s \in Session, Expire(s) PROVE Past' /\ Stores
  BY <1>0, <1>6, QuietStores DEF Expire
<1>7. CASE UNCHANGED vars
  BY <1>0, <1>7, QuietStores DEF vars, tabled
<1> QED
  BY <1>1, <1>2, <1>3, <1>4, <1>5, <1>6, <1>7 DEF Next, DiscardNext

\* The store of db_session.rs keeps its contract for every number of requests, calls and
\* ids: reserve() gives a place of all and one of the owner's, the end of a session's
\* transaction and its removal each happen once, whichever of commit, close_all, a time
\* limit, the reaper and discard_alias come to it, and none of them removes a session
\* that is still being opened.
THEOREM StoreKept == Spec => KeepsStore
<1>1. Init => Past /\ Store!Init
  <2> SUFFICES ASSUME Init PROVE Past /\ Store!Init
    OBVIOUS
  <2>1. Past
    BY DEF Init, Past, Unopened, Beginning, Outside, Blank, KnowsReaper, KnowsCall, Idle
  <2>2. Store!Init
    BY DEF Init, Store!Init, Owners, Blank
  <2> QED
    BY <2>1, <2>2
<1>2. LinesInv /\ Past /\ [Next]_vars => Past' /\ [Store!Next]_(Store!vars)
  BY NextStores DEF Stores
<1> QED
  BY <1>1, <1>2, LinesAlways, PTL DEF Spec, KeepsStore, Store!Spec
=============================================================================
