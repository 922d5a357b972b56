------------------------ MODULE ChangeTrackingProofs ------------------------
(***************************************************************************)
(* A record is news once for each kind of change, what is announced is what *)
(* the request did, and every committed change the middleware saw has its   *)
(* audit row and is announced if its request succeeds, for any number of    *)
(* requests, records and transactions.                                      *)
(*                                                                          *)
(* The first rests on the fold: what is still to be announced has one       *)
(* change for each record and kind, and none that was announced.  The truth *)
(* of the news rests on what is collected being in the order it was done.   *)
(* The trail rests on the row locks: what a transaction has written no      *)
(* other commits over, so the audit row written beside it stays right until *)
(* the transaction ends.  That all is announced rests on there being a      *)
(* draft of whatever was done.                                              *)
(***************************************************************************)
EXTENDS ChangeTracking, SumTheorems, TLAPS

Key(c) == <<c.rec, c.action>>

TxInv ==
  /\ tx = [r \in Request |-> tx[r]]
  /\ \A r \in Request : \A y \in DOMAIN tx[r] : tx[r][y] \in Held

\* The change in hand is there.
HandInv == \A r \in Request : pc[r] \in {"notify", "mail"} => Len(events[r]) > 0

TypeInv == TypeOK /\ TxInv

\* The requests that have not been answered.
Unanswered(r) == pc[r] \in {"idle", "open", "write", "between", "rolled"}

OnceInv ==
  \A r \in Request :
    /\ Unanswered(r) => events[r] = <<>>
    /\ \A c, d \in todo[r] : Key(c) = Key(d) => c = d
    /\ \A c \in todo[r] : \A n \in DOMAIN events[r] : Key(c) # Key(events[r][n])
    /\ \A m, n \in DOMAIN events[r] : m # n => Key(events[r][m]) # Key(events[r][n])

Records == UNION {[S -> Held] : S \in SUBSET Record}

CommitsInv ==
  /\ \A r \in Request : tx[r] \in Records
  /\ commits \in [Request -> Seq([over : [Record -> Held], wrote : Records])]

Known(y) == y \in born \/ Start[y] # Absent

OnlyTheKnown ==
  \A y \in Record : (value[y] # Absent => Known(y)) /\ \A r \in Request : y \in DOMAIN tx[r] => Known(y)

Locked == \A r, q \in Request : r # q => DOMAIN tx[r] \cap DOMAIN tx[q] = {}

ReadRight ==
  \A r \in Request : pc[r] = "write" =>
    /\ op[r].before = op[r].then \/ <<r, op[r].rec>> \in misread
    /\ op[r].rec \in DOMAIN tx[r] => op[r].then = value[op[r].rec]

Row(rows, r, y, old, new) ==
  \E t \in rows : t.by = r /\ t.was.rec = y /\ t.was.old = old /\ t.was.new = new

\* What the trail need not tell of.
Excused(r, y) == <<r, y>> \in misread \cup unaudited \cup past

\* What an open transaction has made of a row, if the trail keeps it, is in the trail.
Pending ==
  \A r \in Request : \A y \in DOMAIN tx[r] :
    Kind([over |-> value, wrote |-> tx[r]], y) \in Kept(y) =>
      Excused(r, y) \/ Row(trail, r, y, value[y], tx[r][y])

TrailInv == CommitsInv /\ OnlyTheKnown /\ Locked /\ ReadRight /\ Pending /\ TrailIsComplete

-----------------------------------------------------------------------------
(* The fold *)

\* A folded change, with the drafts it comes from.
LEMMA FoldedFrom ==
  ASSUME NEW d \in Seq(Change), NEW a \in Folded(d)
  PROVE  \E i, j \in DOMAIN d :
           /\ Ends(d, i, j) /\ a = [d[i] EXCEPT !.new = d[j].new]
           /\ d[i] \in Change /\ d[j] \in Change
           /\ a.rec = d[i].rec /\ a.action = d[i].action /\ a.old = d[i].old /\ a.new = d[j].new
<1>1. PICK p \in {ij \in (DOMAIN d) \X (DOMAIN d) : Ends(d, ij[1], ij[2])} :
        a = [d[p[1]] EXCEPT !.new = d[p[2]].new]
  BY DEF Folded
<1>2. p[1] \in DOMAIN d /\ p[2] \in DOMAIN d /\ Ends(d, p[1], p[2])
  OBVIOUS
<1>3. d[p[1]] \in Change /\ d[p[2]] \in Change
  BY <1>2
<1>4. /\ a.rec = d[p[1]].rec /\ a.action = d[p[1]].action /\ a.old = d[p[1]].old
      /\ a.new = d[p[2]].new
  BY <1>1, <1>3 DEF Change
<1> QED
  BY <1>1, <1>2, <1>3, <1>4

\* A folded change is a change.
LEMMA FoldedIsChange ==
  ASSUME NEW d \in Seq(Change), NEW a \in Folded(d)
  PROVE  a \in Change
<1>1. PICK i, j \in DOMAIN d :
        /\ Ends(d, i, j) /\ a = [d[i] EXCEPT !.new = d[j].new]
        /\ d[i] \in Change /\ d[j] \in Change
  BY FoldedFrom
<1>2. d[j].action = d[i].action
  BY <1>1 DEF Ends
<1>3. CASE d[i].action = "CREATE"
  BY <1>1, <1>2, <1>3 DEF Change
<1>4. CASE d[i].action = "UPDATE"
  BY <1>1, <1>2, <1>4 DEF Change
<1>5. CASE d[i].action = "DELETE"
  BY <1>1, <1>2, <1>5 DEF Change
<1> QED
  BY <1>1, <1>3, <1>4, <1>5 DEF Change

\* The fold has one change for each record and kind.
LEMMA FoldedOnce ==
  ASSUME NEW d \in Seq(Change), NEW a \in Folded(d), NEW b \in Folded(d), Key(a) = Key(b)
  PROVE  a = b
<1>1. PICK i, j \in DOMAIN d : Ends(d, i, j) /\ a = [d[i] EXCEPT !.new = d[j].new]
                               /\ a.rec = d[i].rec /\ a.action = d[i].action
  BY FoldedFrom
<1>2. PICK k, l \in DOMAIN d : Ends(d, k, l) /\ b = [d[k] EXCEPT !.new = d[l].new]
                               /\ b.rec = d[k].rec /\ b.action = d[k].action
  BY FoldedFrom
<1>3. d[i].rec = d[k].rec /\ d[i].action = d[k].action
  BY <1>1, <1>2 DEF Key
<1>4. DOMAIN d \subseteq Nat
  OBVIOUS
<1>5. i = k
  BY <1>1, <1>2, <1>3, <1>4 DEF Ends
<1>6. j = l
  BY <1>1, <1>2, <1>3, <1>4 DEF Ends
<1> QED
  BY <1>1, <1>2, <1>5, <1>6

-----------------------------------------------------------------------------
(* Types *)

LEMMA NoOpType == NoOp \in [rec : Record, new : Held, before : Held, then : Held]
<1>1. PICK z \in Record : z = CHOOSE y \in Record : TRUE
  BY RecordAssumption
<1> QED
  BY <1>1 DEF NoOp, Held

LEMMA InitType == Init => TypeInv
<1> SUFFICES ASSUME Init PROVE TypeInv
  OBVIOUS
<1>2. NoOp \in [rec : Record, new : Held, before : Held, then : Held]
  BY NoOpType
<1>3. <<>> \in Seq(Change)
  OBVIOUS
<1>4. TypeOK
  BY <1>2, <1>3, RecordAssumption DEF Init, TypeOK, Held, Places, Nothing
<1>5. TxInv
  BY DEF Init, TxInv, Nothing
<1> QED
  BY <1>4, <1>5 DEF TypeInv

\* What Writing does.
LEMMA WritingType ==
  ASSUME TypeInv, NEW r \in Request, NEW y \in Record, NEW v \in Held, Writing(r, y, v)
  PROVE  /\ TxInv' /\ \A q \in Request : DOMAIN tx'[q] \subseteq Record
         /\ DOMAIN tx'[r] = DOMAIN tx[r] \cup {y} /\ tx'[r][y] = v
         /\ \A z \in DOMAIN tx[r] : z # y => tx'[r][z] = tx[r][z]
         /\ \A q \in Request : q # r => tx'[q] = tx[q]
<1> DEFINE new == [z \in DOMAIN tx[r] \cup {y} |-> IF z = y THEN v ELSE tx[r][z]]
<1>1. tx' = [tx EXCEPT ![r] = new]
  BY DEF Writing
<1>2. tx'[r] = new /\ \A q \in Request : q # r => tx'[q] = tx[q]
  BY <1>1 DEF TypeInv, TxInv
<1>3. tx' = [q \in Request |-> tx'[q]]
  BY <1>1 DEF TypeInv, TxInv
<1>4. \A q \in Request : DOMAIN tx'[q] \subseteq Record
  <2>1. DOMAIN tx'[r] = DOMAIN tx[r] \cup {y}
    BY <1>2
  <2>2. DOMAIN tx[r] \subseteq Record
    BY DEF TypeInv, TypeOK
  <2>3. DOMAIN tx'[r] \subseteq Record
    BY <2>1, <2>2
  <2> QED
    BY <1>2, <2>3 DEF TypeInv, TypeOK
<1>5. \A q \in Request : \A z \in DOMAIN tx'[q] : tx'[q][z] \in Held
  BY <1>2 DEF TypeInv, TxInv
<1> QED
  BY <1>2, <1>3, <1>4, <1>5 DEF TxInv

\* Undoing or committing a transaction leaves it empty.
LEMMA EmptiedType ==
  ASSUME TypeInv, NEW r \in Request, tx' = [tx EXCEPT ![r] = Nothing]
  PROVE  /\ TxInv' /\ \A q \in Request : DOMAIN tx'[q] \subseteq Record
         /\ DOMAIN tx'[r] = {} /\ \A q \in Request : q # r => tx'[q] = tx[q]
<1>1. DOMAIN Nothing = {}
  BY DEF Nothing
<1>2. tx'[r] = Nothing /\ \A q \in Request : q # r => tx'[q] = tx[q]
  BY DEF TypeInv, TxInv
<1>3. tx' = [q \in Request |-> tx'[q]]
  BY DEF TypeInv, TxInv
<1>4. \A q \in Request : DOMAIN tx'[q] \subseteq Record
  BY <1>1, <1>2 DEF TypeInv, TypeOK
<1>5. \A q \in Request : \A z \in DOMAIN tx'[q] : tx'[q][z] \in Held
  BY <1>1, <1>2 DEF TypeInv, TxInv
<1> QED
  BY <1>1, <1>2, <1>3, <1>4, <1>5 DEF TxInv

\* A draft of an update that says anything is a change.
LEMMA DraftIsChange ==
  ASSUME NEW o \in [rec : Record, new : Held, before : Held, then : Held], Differs(o)
  PROVE  Draft(o) \in Change
<1>1. o.before \in Value
  BY DEF Differs, Held
<1>2. CASE o.new = Absent
  BY <1>1, <1>2 DEF Draft, Change
<1>3. CASE o.new # Absent
  BY <1>1, <1>3 DEF Draft, Change, Held
<1> QED
  BY <1>2, <1>3

\* What AuditRow does.
LEMMA AuditRowType ==
  ASSUME TypeInv, NEW r \in Request, NEW draft \in Change, AuditRow(r, draft)
  PROVE  /\ trail' \subseteq [by : Request, was : Change] /\ trail \subseteq trail'
         /\ unaudited' \subseteq Request \X Record /\ unaudited \subseteq unaudited'
         /\ Recorded(draft) => \/ [by |-> r, was |-> draft] \in trail'
                               \/ <<r, draft.rec>> \in unaudited'
<1>1. draft.rec \in Record
  BY DEF Change
<1>2. trail \subseteq [by : Request, was : Change] /\ unaudited \subseteq Request \X Record
  BY DEF TypeInv, TypeOK
<1>3. CASE Recorded(draft) /\ trail' = trail \cup {[by |-> r, was |-> draft]} /\ UNCHANGED unaudited
  BY <1>2, <1>3
<1>4. CASE Recorded(draft) /\ unaudited' = unaudited \cup {<<r, draft.rec>>} /\ UNCHANGED trail
  BY <1>1, <1>2, <1>4
<1>5. CASE ~Recorded(draft) /\ UNCHANGED <<trail, unaudited>>
  BY <1>2, <1>5
<1> QED
  BY <1>3, <1>4, <1>5 DEF AuditRow

LEMMA UpdateWriteType ==
  ASSUME TypeInv, NEW r \in Request, UpdateWrite(r)
  PROVE  TypeInv'
<1> DEFINE o == op[r]
<1>1. o \in [rec : Record, new : Held, before : Held, then : Held]
  BY DEF TypeInv, TypeOK
<1>2. Writing(r, o.rec, o.new)
  BY DEF UpdateWrite
<1>3. TxInv' /\ \A q \in Request : DOMAIN tx'[q] \subseteq Record
  BY <1>1, <1>2, WritingType
<1>4. drafts' \in [Request -> Seq(Change)]
  <2>1. CASE Differs(o)
    <3>1. drafts' = [drafts EXCEPT ![r] = Append(@, Draft(o))]
      BY <2>1 DEF UpdateWrite, Collect
    <3> QED
      BY <1>1, <2>1, <3>1, DraftIsChange DEF TypeInv, TypeOK
  <2>2. CASE ~Differs(o)
    BY <2>2 DEF UpdateWrite, TypeInv, TypeOK
  <2> QED
    BY <2>1, <2>2
<1>5. trail' \subseteq [by : Request, was : Change] /\ unaudited' \subseteq Request \X Record
  <2>1. CASE Differs(o)
    <3>1. AuditRow(r, Draft(o)) /\ Draft(o) \in Change
      BY <1>1, <2>1, DraftIsChange DEF UpdateWrite
    <3> QED
      BY <3>1, AuditRowType
  <2>2. CASE ~Differs(o)
    BY <2>2 DEF UpdateWrite, TypeInv, TypeOK
  <2> QED
    BY <2>1, <2>2
<1>6. misread' \subseteq Request \X Record
  BY <1>1 DEF UpdateWrite, TypeInv, TypeOK
<1>7. pc' \in [Request -> Places]
  BY DEF UpdateWrite, Goto, TypeInv, TypeOK, Places
<1>8. UNCHANGED <<value, born, events, mailed, todo, undone, past, untold>>
  BY DEF UpdateWrite, news
<1>9. op' \in [Request -> [rec : Record, new : Held, before : Held, then : Held]]
  BY NoOpType DEF UpdateWrite, TypeInv, TypeOK
<1> QED
  BY <1>3, <1>4, <1>5, <1>6, <1>7, <1>8, <1>9 DEF TypeInv, TypeOK

LEMMA WorkType ==
  ASSUME TypeInv, NEW r \in Request, Work(r)
  PROVE  TypeInv'
<1>1. CASE Open(r)
  BY <1>1 DEF Open, TypeInv, TypeOK, TxInv, Places, db, news, request, history
<1>2. CASE UpdateWrite(r)
  BY <1>2, UpdateWriteType
<1>3. CASE Commit(r)
  <2>1. TxInv' /\ \A q \in Request : DOMAIN tx'[q] \subseteq Record
    BY <1>3, EmptiedType DEF Commit
  <2>2. value' \in [Record -> Held]
    BY <1>3 DEF Commit, TypeInv, TypeOK, TxInv
  <2>3. pc' \in [Request -> Places]
    BY <1>3 DEF Commit, Goto, TypeInv, TypeOK, Places
  <2> QED
    BY <1>3, <2>1, <2>2, <2>3 DEF Commit, TypeInv, TypeOK, news
<1>4. CASE Rollback(r)
  <2>1. TxInv' /\ \A q \in Request : DOMAIN tx'[q] \subseteq Record
    BY <1>4, EmptiedType DEF Rollback
  <2>2. undone' \subseteq Request \X Record
    BY <1>4 DEF Rollback, Undoing, TypeInv, TypeOK
  <2>3. pc' \in [Request -> Places]
    BY <1>4 DEF Rollback, TypeInv, TypeOK, Places
  <2>4. op' \in [Request -> [rec : Record, new : Held, before : Held, then : Held]]
    BY <1>4, NoOpType DEF Rollback, TypeInv, TypeOK
  <2> QED
    BY <1>4, <2>1, <2>2, <2>3, <2>4 DEF Rollback, TypeInv, TypeOK, db, news
<1>5. CASE Succeed(r)
  <2>1. drafts[r] \in Seq(Change)
    BY DEF TypeInv, TypeOK
  <2>2. Folded(drafts[r]) \in SUBSET Change
    BY <2>1, FoldedIsChange
  <2>3. todo' \in [Request -> SUBSET Change]
    BY <1>5, <2>2 DEF Succeed, TypeInv, TypeOK
  <2>4. pc' \in [Request -> Places]
    BY <1>5 DEF Succeed, TypeInv, TypeOK, Places
  <2> QED
    BY <1>5, <2>3, <2>4 DEF Succeed, TypeInv, TypeOK, TxInv, db, news, request, history
<1>6. CASE Fail(r)
  BY <1>6 DEF Fail, TypeInv, TypeOK, TxInv, Places, db, news, request, history
<1>7. ASSUME NEW y \in Record, NEW v \in Value, CreateRecord(r, y, v) PROVE TypeInv'
  <2> DEFINE c == [rec |-> y, action |-> "CREATE", old |-> Absent, new |-> v]
  <2>1. TxInv' /\ \A q \in Request : DOMAIN tx'[q] \subseteq Record
    BY <1>7, WritingType DEF CreateRecord, Held
  <2>2. c \in Change
    BY DEF Change
  <2>3. drafts' \in [Request -> Seq(Change)]
    BY <1>7, <2>2 DEF CreateRecord, Collect, TypeInv, TypeOK
  <2>4. born' \subseteq {z \in Record : Start[z] = Absent}
    BY <1>7 DEF CreateRecord, GiveOut, TypeInv, TypeOK
  <2>5. trail' \subseteq [by : Request, was : Change] /\ unaudited' \subseteq Request \X Record
    BY <1>7, <2>2, AuditRowType DEF CreateRecord
  <2> QED
    BY <1>7, <2>1, <2>3, <2>4, <2>5 DEF CreateRecord, TypeInv, TypeOK, news
<1>8. ASSUME NEW y \in Record, NEW new \in Held, UpdateBefore(r, y, new) PROVE TypeInv'
  <2>1. value[y] \in Held /\ Absent \in Held
    BY DEF TypeInv, TypeOK, Held
  <2>2. op' \in [Request -> [rec : Record, new : Held, before : Held, then : Held]]
    <3>1. PICK b \in Held :
            op' = [op EXCEPT ![r] = [rec |-> y, new |-> new, before |-> b, then |-> value[y]]]
      BY <1>8, <2>1 DEF UpdateBefore, Before
    <3>2. [rec |-> y, new |-> new, before |-> b, then |-> value[y]]
            \in [rec : Record, new : Held, before : Held, then : Held]
      BY <2>1
    <3> QED
      BY <3>1, <3>2 DEF TypeInv, TypeOK
  <2>3. pc' \in [Request -> Places] /\ misread' \subseteq Request \X Record
    BY <1>8 DEF UpdateBefore, Goto, TypeInv, TypeOK, Places
  <2> QED
    BY <1>8, <2>2, <2>3 DEF UpdateBefore, TypeInv, TypeOK, TxInv, db, news
<1>9. ASSUME NEW y \in Record, NEW new \in Held, BulkWrite(r, y, new) PROVE TypeInv'
  <2>1. TxInv' /\ \A q \in Request : DOMAIN tx'[q] \subseteq Record
    BY <1>9, WritingType DEF BulkWrite
  <2>2. born' \subseteq {z \in Record : Start[z] = Absent}
    BY <1>9 DEF BulkWrite, GiveOut, TypeInv, TypeOK
  <2>3. past' \subseteq Request \X Record
    BY <1>9 DEF BulkWrite, TypeInv, TypeOK
  <2> QED
    BY <1>9, <2>1, <2>2, <2>3 DEF BulkWrite, TypeInv, TypeOK, news
<1> QED
  BY <1>1, <1>2, <1>3, <1>4, <1>5, <1>6, <1>7, <1>8, <1>9 DEF Work

LEMMA SilencedType ==
  ASSUME NEW r \in Request, NEW S \in SUBSET Change
  PROVE  Silenced(r, S) \subseteq Request \X Record \X Action
<1> SUFFICES ASSUME NEW c \in S
             PROVE  <<r, c.rec, c.action>> \in Request \X Record \X Action
  BY DEF Silenced
<1>1. c \in Change
  OBVIOUS
<1>2. c.rec \in Record /\ c.action \in Action
  BY <1>1 DEF Change, Action
<1> QED
  BY <1>2

LEMMA InHandType ==
  ASSUME TypeInv, HandInv, NEW r \in Request
  PROVE  todo[r] \cup InHand(r) \in SUBSET Change
<1>1. events[r] \in Seq(Change) /\ todo[r] \in SUBSET Change
  BY DEF TypeInv, TypeOK
<1>2. CASE pc[r] \in {"notify", "mail"}
  <2>1. Len(events[r]) \in DOMAIN events[r]
    BY <1>1, <1>2 DEF HandInv
  <2>2. events[r][Len(events[r])] \in Change
    BY <1>1, <2>1
  <2> QED
    BY <1>1, <1>2, <2>2 DEF InHand
<1>3. CASE pc[r] \notin {"notify", "mail"}
  BY <1>1, <1>3 DEF InHand
<1> QED
  BY <1>2, <1>3

LEMMA AnnounceType ==
  ASSUME TypeInv, HandInv, NEW r \in Request, Announce(r) \/ Spoil(r)
  PROVE  TypeInv'
<1>1. ASSUME NEW c \in todo[r], WriteEvent(r, c) PROVE TypeInv'
  <2>1. c \in Change
    BY DEF TypeInv, TypeOK
  <2>2. events' \in [Request -> Seq(Change)] /\ todo' \in [Request -> SUBSET Change]
    BY <1>1, <2>1 DEF WriteEvent, TypeInv, TypeOK
  <2>3. pc' \in [Request -> Places]
    BY <1>1 DEF WriteEvent, Goto, TypeInv, TypeOK, Places
  <2> QED
    BY <1>1, <2>2, <2>3 DEF WriteEvent, TypeInv, TypeOK, TxInv, db, request, history
<1>2. ASSUME NEW c \in todo[r], EventFails(r, c) PROVE TypeInv'
  <2>1. todo' \in [Request -> SUBSET Change]
    BY <1>2 DEF EventFails, Others, TypeInv, TypeOK
  <2>2. Silenced(r, {c}) \subseteq Request \X Record \X Action
    BY SilencedType DEF TypeInv, TypeOK
  <2>3. untold' \subseteq Request \X Record \X Action
    BY <1>2, <2>2 DEF EventFails, TypeInv, TypeOK
  <2> QED
    BY <1>2, <2>1, <2>3 DEF EventFails, TypeInv, TypeOK, TxInv, db, news, request
<1>3. CASE Notify(r)
  BY <1>3 DEF Notify, Goto, TypeInv, TypeOK, TxInv, Places, db, news, request, history
<1>4. CASE Mail(r)
  <2>1. pc' \in [Request -> Places] /\ mailed' \in [Request -> Nat]
    BY <1>4 DEF Mail, Goto, TypeInv, TypeOK, Places
  <2> QED
    BY <1>4, <2>1 DEF Mail, TypeInv, TypeOK, TxInv, db, request, history
<1>5. CASE RouteFails(r)
  <2>1. pc' \in [Request -> Places] /\ todo' \in [Request -> SUBSET Change]
    BY <1>5 DEF RouteFails, TypeInv, TypeOK, Places
  <2>2. Silenced(r, todo[r] \cup InHand(r)) \subseteq Request \X Record \X Action
    BY InHandType, SilencedType
  <2>3. untold' \subseteq Request \X Record \X Action
    BY <1>5, <2>2 DEF RouteFails, TypeInv, TypeOK
  <2> QED
    BY <1>5, <2>1, <2>3 DEF RouteFails, TypeInv, TypeOK, TxInv, db, news, request
<1> QED
  BY <1>1, <1>2, <1>3, <1>4, <1>5 DEF Announce, Spoil

LEMMA CrashType ==
  ASSUME TypeInv, HandInv, Crash
  PROVE  TypeInv' /\ \A r \in Request : tx'[r] = Nothing /\ DOMAIN tx'[r] = {}
<1>1. \A r \in Request : tx'[r] = Nothing /\ DOMAIN tx'[r] = {}
  BY DEF Crash, Nothing
<1>2. TxInv'
  BY <1>1 DEF Crash, TxInv
<1>3. undone' \subseteq Request \X Record
  BY DEF Crash, Undoing, TypeInv, TypeOK
<1>4. pc' \in [Request -> Places] /\ todo' \in [Request -> SUBSET Change]
  BY DEF Crash, TypeInv, TypeOK, Places
<1>5. op' \in [Request -> [rec : Record, new : Held, before : Held, then : Held]]
  BY NoOpType DEF Crash
<1>6. \A r \in Request :
        Silenced(r, todo[r] \cup InHand(r)) \subseteq Request \X Record \X Action
  BY InHandType, SilencedType
<1>7. untold' \subseteq Request \X Record \X Action
  <2> SUFFICES ASSUME NEW s \in untold' PROVE s \in Request \X Record \X Action
    OBVIOUS
  <2>1. CASE s \in untold
    BY <2>1 DEF TypeInv, TypeOK
  <2>2. ASSUME NEW r \in Request, s \in Silenced(r, todo[r] \cup InHand(r))
        PROVE  s \in Request \X Record \X Action
    BY <1>6, <2>2
  <2> QED
    BY <2>1, <2>2 DEF Crash
<1> QED
  BY <1>1, <1>2, <1>3, <1>4, <1>5, <1>7 DEF Crash, TypeInv, TypeOK, db, news

LEMMA StepType ==
  ASSUME TypeInv, HandInv, [Next]_vars
  PROVE  TypeInv'
<1>1. CASE UNCHANGED vars
  BY <1>1 DEF vars, db, news, request, history, counts, TypeInv, TypeOK, TxInv
<1>2. CASE Next
  BY <1>2, WorkType, AnnounceType, CrashType DEF Next
<1> QED
  BY <1>1, <1>2

LEMMA StepHand ==
  ASSUME TypeInv, HandInv, [Next]_vars
  PROVE  HandInv'
<1>1. CASE UNCHANGED vars
  BY <1>1 DEF vars, news, HandInv
<1>2. CASE Crash
  BY <1>2 DEF Crash, HandInv, Busy, news
<1>3. ASSUME NEW r \in Request, Work(r) PROVE HandInv'
  <2>1. events' = events
    BY <1>3 DEF Work, Open, UpdateWrite, Commit, Rollback, Succeed, Fail, CreateRecord,
                UpdateBefore, BulkWrite, news
  <2>2. \A q \in Request : pc'[q] \in {"notify", "mail"} => pc'[q] = pc[q]
    BY <1>3 DEF Work, Open, UpdateWrite, Commit, Rollback, Succeed, Fail, CreateRecord,
                UpdateBefore, BulkWrite, Goto, TypeInv, TypeOK
  <2> QED
    BY <2>1, <2>2 DEF HandInv
<1>4. ASSUME NEW r \in Request, NEW c \in todo[r], WriteEvent(r, c) PROVE HandInv'
  <2>1. c \in Change /\ events[r] \in Seq(Change)
    BY DEF TypeInv, TypeOK
  <2>2. events'[r] = Append(events[r], c) /\ \A q \in Request : q # r => events'[q] = events[q]
    BY <1>4 DEF WriteEvent, TypeInv, TypeOK
  <2>3. Len(events'[r]) > 0
    BY <2>1, <2>2
  <2>4. \A q \in Request : q # r => pc'[q] = pc[q]
    BY <1>4 DEF WriteEvent, Goto, TypeInv, TypeOK
  <2> QED
    BY <2>2, <2>3, <2>4 DEF HandInv
<1>5. ASSUME NEW r \in Request,
             Notify(r) \/ Mail(r) \/ RouteFails(r) \/ \E c \in todo[r] : EventFails(r, c)
      PROVE HandInv'
  <2>1. events' = events
    BY <1>5 DEF Notify, Mail, RouteFails, EventFails, news
  <2>2. \A q \in Request : pc'[q] \in {"notify", "mail"} => pc[q] \in {"notify", "mail"}
    BY <1>5 DEF Notify, Mail, RouteFails, EventFails, Goto, TypeInv, TypeOK
  <2> QED
    BY <2>1, <2>2 DEF HandInv
<1> QED
  BY <1>1, <1>2, <1>3, <1>4, <1>5 DEF Next, Announce, Spoil

-----------------------------------------------------------------------------
(* Told once *)

LEMMA NothingTold ==
  ASSUME OnceInv, UNCHANGED <<events, todo>>,
         \A r \in Request : Unanswered(r)' => Unanswered(r)
  PROVE  OnceInv'
BY DEF OnceInv

\* What is dropped of what is still to announce is not announced twice.
LEMMA LessToTell ==
  ASSUME OnceInv, UNCHANGED events,
         \A r \in Request : todo'[r] \subseteq todo[r],
         \A r \in Request : Unanswered(r)' => Unanswered(r)
  PROVE  OnceInv'
BY DEF OnceInv

LEMMA SucceedOnce ==
  ASSUME TypeInv, OnceInv, NEW r \in Request, Succeed(r)
  PROVE  OnceInv'
<1>1. drafts[r] \in Seq(Change)
  BY DEF TypeInv, TypeOK
<1>2. /\ todo'[r] = Folded(drafts[r]) /\ pc'[r] = "flush" /\ events'[r] = <<>>
      /\ \A q \in Request : q # r => todo'[q] = todo[q] /\ pc'[q] = pc[q] /\ events'[q] = events[q]
  BY DEF Succeed, news, OnceInv, Unanswered, TypeInv, TypeOK
<1>3. \A c, d \in todo'[r] : Key(c) = Key(d) => c = d
  BY <1>1, <1>2, FoldedOnce
<1>4. ~Unanswered(r)'
  BY <1>2 DEF Unanswered
<1>5. DOMAIN events'[r] = {}
  BY <1>2
<1> SUFFICES ASSUME NEW q \in Request
             PROVE  /\ Unanswered(q)' => events'[q] = <<>>
                    /\ \A c, d \in todo'[q] : Key(c) = Key(d) => c = d
                    /\ \A c \in todo'[q] : \A n \in DOMAIN events'[q] : Key(c) # Key(events'[q][n])
                    /\ \A m, n \in DOMAIN events'[q] : m # n => Key(events'[q][m]) # Key(events'[q][n])
  BY DEF OnceInv, Key
<1>6. CASE q = r
  BY <1>3, <1>4, <1>5, <1>6
<1>7. CASE q # r
  BY <1>2, <1>7 DEF OnceInv, Unanswered
<1> QED
  BY <1>6, <1>7

LEMMA WriteEventOnce ==
  ASSUME TypeInv, OnceInv, NEW r \in Request, NEW c \in todo[r], WriteEvent(r, c)
  PROVE  OnceInv'
<1>1. /\ todo'[r] = todo[r] \ {c} /\ events'[r] = Append(events[r], c) /\ pc'[r] = "notify"
      /\ \A q \in Request : q # r => todo'[q] = todo[q] /\ events'[q] = events[q] /\ pc'[q] = pc[q]
  BY DEF WriteEvent, Goto, TypeInv, TypeOK
<1>2. c \in Change /\ events[r] \in Seq(Change)
  BY DEF TypeInv, TypeOK
<1>3. /\ DOMAIN events'[r] = DOMAIN events[r] \cup {Len(events[r]) + 1}
      /\ events'[r][Len(events[r]) + 1] = c
      /\ \A n \in DOMAIN events[r] : events'[r][n] = events[r][n] /\ n # Len(events[r]) + 1
  BY <1>1, <1>2
<1>4. /\ \A d, e \in todo[r] : Key(d) = Key(e) => d = e
      /\ \A d \in todo[r] : \A n \in DOMAIN events[r] : Key(d) # Key(events[r][n])
      /\ \A m, n \in DOMAIN events[r] : m # n => Key(events[r][m]) # Key(events[r][n])
  BY DEF OnceInv
<1>5. \A d, e \in todo'[r] : Key(d) = Key(e) => d = e
  BY <1>1, <1>4
<1>6. \A d \in todo'[r] : \A n \in DOMAIN events'[r] : Key(d) # Key(events'[r][n])
  <2> SUFFICES ASSUME NEW d \in todo'[r], NEW n \in DOMAIN events'[r]
               PROVE  Key(d) # Key(events'[r][n])
    OBVIOUS
  <2>1. d \in todo[r] /\ d # c
    BY <1>1
  <2>2. CASE n \in DOMAIN events[r]
    BY <1>3, <1>4, <2>1, <2>2
  <2>3. CASE n = Len(events[r]) + 1
    BY <1>3, <1>4, <2>1, <2>3
  <2> QED
    BY <1>3, <2>2, <2>3
<1>7. \A m, n \in DOMAIN events'[r] : m # n => Key(events'[r][m]) # Key(events'[r][n])
  <2> SUFFICES ASSUME NEW m \in DOMAIN events'[r], NEW n \in DOMAIN events'[r], m # n
               PROVE  Key(events'[r][m]) # Key(events'[r][n])
    OBVIOUS
  <2>1. CASE m \in DOMAIN events[r] /\ n \in DOMAIN events[r]
    BY <1>3, <1>4, <2>1
  <2>2. CASE m \in DOMAIN events[r] /\ n = Len(events[r]) + 1
    BY <1>3, <1>4, <2>2
  <2>3. CASE n \in DOMAIN events[r] /\ m = Len(events[r]) + 1
    BY <1>3, <1>4, <2>3
  <2> QED
    BY <1>3, <2>1, <2>2, <2>3
<1> SUFFICES ASSUME NEW q \in Request
             PROVE  /\ Unanswered(q)' => events'[q] = <<>>
                    /\ \A d, e \in todo'[q] : Key(d) = Key(e) => d = e
                    /\ \A d \in todo'[q] : \A n \in DOMAIN events'[q] : Key(d) # Key(events'[q][n])
                    /\ \A m, n \in DOMAIN events'[q] : m # n => Key(events'[q][m]) # Key(events'[q][n])
  BY DEF OnceInv, Key
<1>8. CASE q = r
  BY <1>1, <1>5, <1>6, <1>7, <1>8 DEF Unanswered
<1>9. CASE q # r
  BY <1>1, <1>9 DEF OnceInv, Unanswered
<1> QED
  BY <1>8, <1>9

LEMMA StepOnce ==
  ASSUME TypeInv, OnceInv, [Next]_vars
  PROVE  OnceInv'
<1>1. CASE UNCHANGED vars
  BY <1>1, NothingTold DEF vars, news, Unanswered
<1>2. CASE Crash
  BY <1>2, LessToTell DEF Crash, news, Unanswered, Busy
<1>3. ASSUME NEW r \in Request, Work(r) PROVE OnceInv'
  <2>1. CASE Open(r) \/ UpdateWrite(r) \/ Commit(r) \/ Rollback(r) \/ Fail(r)
    <3>1. UNCHANGED <<events, todo>>
      BY <2>1 DEF Open, UpdateWrite, Commit, Rollback, Fail, news
    <3>2. \A q \in Request : Unanswered(q)' => Unanswered(q)
      BY <2>1 DEF Open, UpdateWrite, Commit, Rollback, Fail, Goto, Unanswered, TypeInv, TypeOK
    <3> QED
      BY <3>1, <3>2, NothingTold
  <2>2. ASSUME NEW y \in Record, NEW v \in Value, CreateRecord(r, y, v) PROVE OnceInv'
    BY <2>2, NothingTold DEF CreateRecord, news, Unanswered
  <2>3. ASSUME NEW y \in Record, NEW new \in Held, UpdateBefore(r, y, new) PROVE OnceInv'
    <3>1. \A q \in Request : Unanswered(q)' => Unanswered(q)
      BY <2>3 DEF UpdateBefore, Goto, Unanswered, TypeInv, TypeOK
    <3> QED
      BY <2>3, <3>1, NothingTold DEF UpdateBefore, news
  <2>4. ASSUME NEW y \in Record, NEW new \in Held, BulkWrite(r, y, new) PROVE OnceInv'
    BY <2>4, NothingTold DEF BulkWrite, news, Unanswered
  <2> QED
    BY <1>3, <2>1, <2>2, <2>3, <2>4, SucceedOnce DEF Work
<1>4. ASSUME NEW r \in Request, Announce(r) \/ Spoil(r) PROVE OnceInv'
  <2>1. CASE Notify(r)
    <3>1. \A q \in Request : Unanswered(q)' => Unanswered(q)
      BY <2>1 DEF Notify, Goto, Unanswered, TypeInv, TypeOK
    <3> QED
      BY <2>1, <3>1, NothingTold DEF Notify, news
  <2>2. CASE Mail(r)
    <3>1. \A q \in Request : Unanswered(q)' => Unanswered(q)
      BY <2>2 DEF Mail, Goto, Unanswered, TypeInv, TypeOK
    <3> QED
      BY <2>2, <3>1, NothingTold DEF Mail
  <2>3. CASE RouteFails(r)
    <3>1. \A q \in Request : (Unanswered(q)' => Unanswered(q)) /\ todo'[q] \subseteq todo[q]
      BY <2>3 DEF RouteFails, Unanswered, TypeInv, TypeOK
    <3> QED
      BY <2>3, <3>1, LessToTell DEF RouteFails, news
  <2>4. ASSUME NEW c \in todo[r], EventFails(r, c) PROVE OnceInv'
    <3>1. \A q \in Request : (Unanswered(q)' => Unanswered(q)) /\ todo'[q] \subseteq todo[q]
      BY <2>4 DEF EventFails, Others, Unanswered, TypeInv, TypeOK
    <3> QED
      BY <2>4, <3>1, LessToTell DEF EventFails, news
  <2> QED
    BY <1>4, <2>1, <2>2, <2>3, <2>4, WriteEventOnce DEF Announce, Spoil
<1> QED
  BY <1>1, <1>2, <1>3, <1>4 DEF Next

-----------------------------------------------------------------------------
(* The trail *)

\* What the trail excuses, and what it holds, stays.
LEMMA TrailKept ==
  ASSUME TrailIsComplete, UNCHANGED commits, trail \subseteq trail',
         misread \subseteq misread', unaudited \subseteq unaudited', past \subseteq past'
  PROVE  TrailIsComplete'
<1> SUFFICES ASSUME NEW r \in Request, NEW y \in Record, NEW a \in Kept(y), NEW i \in Did(r, y, a)'
             PROVE  Excused(r, y)' \/ Audited(r, i, y)'
  BY DEF TrailIsComplete, Excused, Kept, Action
<1>1. i \in Did(r, y, a)
  BY DEF Did, Kind
<1>2. Excused(r, y) \/ Audited(r, i, y)
  BY <1>1 DEF TrailIsComplete, Excused
<1> QED
  BY <1>2 DEF Audited, Excused

\* What a transaction has done to a record, and what the trail has of it, is as it was.
LEMMA PendingStays ==
  ASSUME Pending, NEW r \in Request, NEW y \in DOMAIN tx[r],
         trail \subseteq trail', misread \subseteq misread', unaudited \subseteq unaudited',
         past \subseteq past', value'[y] = value[y], tx'[r][y] = tx[r][y],
         Kind([over |-> value, wrote |-> tx[r]], y)' \in Kept(y)
  PROVE  Excused(r, y)' \/ Row(trail', r, y, value'[y], tx'[r][y])
<1>1. Kind([over |-> value, wrote |-> tx[r]], y)' = Kind([over |-> value, wrote |-> tx[r]], y)
  BY DEF Kind
<1>2. Excused(r, y) \/ Row(trail, r, y, value[y], tx[r][y])
  BY <1>1 DEF Pending
<1> QED
  BY <1>2 DEF Row, Excused

\* A change of a kind that is kept is one.
LEMMA KeptKind ==
  ASSUME NEW c, NEW y, Kind(c, y) \in Kept(y)
  PROVE  /\ c.over[y] # c.wrote[y] /\ Kind(c, y) \in Action
         /\ Kind(c, y) # "UPDATE" => y \in Lifecycle
BY DEF Kind, Kept, Action

\* What does not write, commit or read leaves the invariant as it is.
LEMMA TrailIdle ==
  ASSUME TrailInv, UNCHANGED <<value, born, tx, op, commits, trail, misread, unaudited, past>>,
         \A r \in Request : pc'[r] = "write" => pc[r] = "write"
  PROVE  TrailInv'
<1>1. TrailIsComplete'
  BY TrailKept DEF TrailInv
<1>2. CommitsInv' /\ OnlyTheKnown' /\ Locked'
  BY DEF TrailInv, CommitsInv, OnlyTheKnown, Locked, Known
<1>3. ReadRight'
  BY DEF TrailInv, ReadRight
<1>4. Pending'
  BY DEF TrailInv, Pending, Row, Excused, Kind, Kept, Action
<1> QED
  BY <1>1, <1>2, <1>3, <1>4 DEF TrailInv

\* Undone transactions take nothing with them.
LEMMA TrailUndone ==
  ASSUME TypeInv, TrailInv, UNCHANGED <<value, born, commits, trail, misread, unaudited, past>>,
         \A r \in Request :
           pc'[r] = "write" => pc[r] = "write" /\ tx'[r] = tx[r] /\ op'[r] = op[r],
         \A r \in Request : tx'[r] = tx[r] \/ tx'[r] = Nothing
  PROVE  TrailInv'
<1>1. DOMAIN Nothing = {} /\ Nothing \in Records
  <2>1. Nothing \in [{} -> Held]
    BY DEF Nothing
  <2> QED
    BY <2>1 DEF Records, Nothing
<1>2. TrailIsComplete'
  BY TrailKept DEF TrailInv
<1>3. \A r \in Request : DOMAIN tx'[r] \subseteq DOMAIN tx[r]
  BY <1>1
<1>4. CommitsInv'
  BY <1>1 DEF TrailInv, CommitsInv
<1>5. OnlyTheKnown' /\ Locked'
  BY <1>3 DEF TrailInv, OnlyTheKnown, Locked, Known
<1>6. ReadRight'
  BY DEF TrailInv, ReadRight
<1>7. Pending'
  <2> SUFFICES ASSUME NEW r \in Request, NEW y \in DOMAIN tx'[r],
                      Kind([over |-> value, wrote |-> tx[r]], y)' \in Kept(y)
               PROVE  Excused(r, y)' \/ Row(trail', r, y, value'[y], tx'[r][y])
    BY DEF Pending, Row, Excused, Kind, Kept, Action
  <2>1. tx'[r] = tx[r]
    BY <1>1
  <2> QED
    BY <2>1, PendingStays DEF TrailInv
<1> QED
  BY <1>2, <1>4, <1>5, <1>6, <1>7 DEF TrailInv

LEMMA WritingShape ==
  ASSUME NEW f \in Records, NEW y \in Record, NEW v \in Held
  PROVE  [z \in DOMAIN f \cup {y} |-> IF z = y THEN v ELSE f[z]] \in Records
<1>1. PICK S \in SUBSET Record : f \in [S -> Held]
  BY DEF Records
<1>2. [z \in DOMAIN f \cup {y} |-> IF z = y THEN v ELSE f[z]] \in [S \cup {y} -> Held]
  BY <1>1
<1>3. S \cup {y} \in SUBSET Record
  BY <1>1
<1> QED
  BY <1>2, <1>3 DEF Records

\* A write of a record no other transaction has written, past what is or comes to be known.
LEMMA WriteTrail ==
  ASSUME TypeInv, TrailInv, NEW r \in Request, NEW y \in Record, NEW v \in Held, Writing(r, y, v),
         UNCHANGED <<value, commits>>, born \subseteq born', Known(y)',
         \A q \in Request \ {r} : y \notin DOMAIN tx[q],
         pc'[r] # "write",
         \A q \in Request : q # r => pc'[q] = pc[q] /\ op'[q] = op[q],
         trail \subseteq trail', misread \subseteq misread', unaudited \subseteq unaudited',
         past \subseteq past',
         Kind([over |-> value, wrote |-> tx'[r]], y) \in Kept(y) =>
           Excused(r, y)' \/ Row(trail', r, y, value[y], v)
  PROVE  TrailInv'
<1>1. /\ DOMAIN tx'[r] = DOMAIN tx[r] \cup {y} /\ tx'[r][y] = v
      /\ \A z \in DOMAIN tx[r] : z # y => tx'[r][z] = tx[r][z]
      /\ \A q \in Request : q # r => tx'[q] = tx[q]
  BY WritingType
<1>2. CommitsInv'
  <2>1. tx'[r] = [z \in DOMAIN tx[r] \cup {y} |-> IF z = y THEN v ELSE tx[r][z]]
    BY DEF Writing, TypeInv, TxInv
  <2>2. tx[r] \in Records
    BY DEF TrailInv, CommitsInv
  <2>3. tx'[r] \in Records
    BY <2>1, <2>2, WritingShape
  <2> QED
    BY <1>1, <2>3 DEF TrailInv, CommitsInv
<1>3. OnlyTheKnown'
  BY <1>1 DEF TrailInv, OnlyTheKnown, Known
<1>4. Locked'
  BY <1>1 DEF TrailInv, Locked
<1>5. ReadRight'
  <2> SUFFICES ASSUME NEW q \in Request, pc'[q] = "write"
               PROVE  /\ op'[q].before = op'[q].then \/ <<q, op'[q].rec>> \in misread'
                      /\ op'[q].rec \in DOMAIN tx'[q] => op'[q].then = value[op'[q].rec]
    BY DEF ReadRight
  <2>1. q # r /\ pc[q] = "write" /\ op'[q] = op[q]
    OBVIOUS
  <2> QED
    BY <1>1, <2>1 DEF TrailInv, ReadRight
<1>6. Pending'
  <2> SUFFICES ASSUME NEW q \in Request, NEW z \in DOMAIN tx'[q],
                      Kind([over |-> value, wrote |-> tx[q]], z)' \in Kept(z)
               PROVE  Excused(q, z)' \/ Row(trail', q, z, value'[z], tx'[q][z])
    BY DEF Pending, Row, Excused, Kind, Kept, Action
  <2>1. CASE q = r /\ z = y
    <3>1. Kind([over |-> value, wrote |-> tx[q]], z)' = Kind([over |-> value, wrote |-> tx'[r]], y)
      BY <2>1 DEF Kind
    <3> QED
      BY <1>1, <2>1, <3>1
  <2>2. CASE ~(q = r /\ z = y)
    <3>1. z \in DOMAIN tx[q] /\ tx'[q][z] = tx[q][z]
      BY <1>1, <2>2
    <3> QED
      BY <3>1, PendingStays DEF TrailInv
  <2> QED
    BY <2>1, <2>2
<1>7. TrailIsComplete'
  BY TrailKept DEF TrailInv
<1> QED
  BY <1>2, <1>3, <1>4, <1>5, <1>6, <1>7 DEF TrailInv

\* The row of a draft.
LEMMA RowOf ==
  ASSUME NEW rows, NEW r, NEW draft, [by |-> r, was |-> draft] \in rows
  PROVE  Row(rows, r, draft.rec, draft.old, draft.new)
BY DEF Row

\* An id that was never given out: nobody has the row.
LEMMA GivenOut ==
  ASSUME TrailInv, NEW y \in Record, GiveOut(y)
  PROVE  /\ value[y] = Absent /\ \A q \in Request : y \notin DOMAIN tx[q]
         /\ born \subseteq born' /\ Known(y)'
BY DEF GiveOut, TrailInv, OnlyTheKnown, Known

LEMMA CreateTrail ==
  ASSUME TypeInv, TrailInv, NEW r \in Request, NEW y \in Record, NEW v \in Value, CreateRecord(r, y, v)
  PROVE  TrailInv'
<1> DEFINE f == [rec |-> y, action |-> "CREATE", old |-> Absent, new |-> v]
<1>1. /\ GiveOut(y) /\ Writing(r, y, v) /\ v \in Held /\ pc[r] = "open" /\ f \in Change
      /\ AuditRow(r, f)
      /\ UNCHANGED <<value, pc, op, commits, misread, past>>
  BY DEF CreateRecord, Held, Change
<1>2. /\ value[y] = Absent /\ \A q \in Request : y \notin DOMAIN tx[q]
      /\ born \subseteq born' /\ Known(y)'
  BY <1>1, GivenOut
<1>3. tx'[r][y] = v
  BY <1>1, WritingType
<1>4. /\ trail \subseteq trail' /\ unaudited \subseteq unaudited'
      /\ Recorded(f) => \/ [by |-> r, was |-> f] \in trail'
                        \/ <<r, f.rec>> \in unaudited'
  <2> HIDE DEF f
  <2> QED
    BY <1>1, AuditRowType
<1>5. ASSUME Kind([over |-> value, wrote |-> tx'[r]], y) \in Kept(y)
      PROVE  Excused(r, y)' \/ Row(trail', r, y, value[y], v)
  <2>1. Kind([over |-> value, wrote |-> tx'[r]], y) = "CREATE"
    BY <1>2, <1>3, RecordAssumption DEF Kind
  <2>2. y \in Lifecycle
    BY <1>5, <2>1, KeptKind
  <2>3. Recorded(f)
    BY <2>2 DEF Recorded
  <2>4. f.rec = y /\ f.old = value[y] /\ f.new = v
    BY <1>2
  <2> HIDE DEF f
  <2>5. CASE [by |-> r, was |-> f] \in trail'
    BY <2>4, <2>5, RowOf
  <2>6. CASE <<r, f.rec>> \in unaudited'
    BY <2>4, <2>6 DEF Excused
  <2> QED
    BY <1>4, <2>3, <2>5, <2>6
<1> HIDE DEF f
<1>6. pc'[r] # "write" /\ \A q \in Request : pc'[q] = pc[q] /\ op'[q] = op[q]
  BY <1>1
<1> QED
  BY <1>1, <1>2, <1>4, <1>5, <1>6, WriteTrail

LEMMA BulkTrail ==
  ASSUME TypeInv, TrailInv, NEW r \in Request, NEW y \in Record, NEW v \in Held, BulkWrite(r, y, v)
  PROVE  TrailInv'
<1>1. /\ Writing(r, y, v) /\ pc[r] = "open"
      /\ UNCHANGED <<value, pc, op, commits, misread, trail, unaudited>>
      /\ past' = past \cup {<<r, y>>}
  BY DEF BulkWrite
<1>2. /\ \A q \in Request \ {r} : y \notin DOMAIN tx[q]
      /\ born \subseteq born' /\ Known(y)'
  <2>1. CASE Current(r, y) # Absent /\ Lockable(r, y) /\ UNCHANGED born
    <3>1. Known(y)
      BY <2>1 DEF Current, TrailInv, OnlyTheKnown
    <3> QED
      BY <2>1, <3>1 DEF Lockable, Known
  <2>2. CASE GiveOut(y)
    BY <2>2, GivenOut
  <2> QED
    BY <2>1, <2>2 DEF BulkWrite
<1>3. Excused(r, y)'
  BY <1>1 DEF Excused
<1>4. pc'[r] # "write" /\ \A q \in Request : pc'[q] = pc[q] /\ op'[q] = op[q]
  BY <1>1
<1> QED
  BY <1>1, <1>2, <1>3, <1>4, WriteTrail

LEMMA UpdateBeforeTrail ==
  ASSUME TypeInv, TrailInv, NEW r \in Request, NEW y \in Record, NEW new \in Held,
         UpdateBefore(r, y, new)
  PROVE  TrailInv'
<1>1. UNCHANGED <<value, born, trail, tx, commits, unaudited, past>> /\ misread \subseteq misread'
  BY DEF UpdateBefore, db
<1>2. PICK b \in Held :
        /\ op' = [op EXCEPT ![r] = [rec |-> y, new |-> new, before |-> b, then |-> value[y]]]
        /\ b = value[y] \/ <<r, y>> \in misread'
  <2>1. value[y] \in Held /\ Absent \in Held
    BY DEF TypeInv, TypeOK, Held
  <2> QED
    BY <2>1 DEF UpdateBefore, Before
<1>3. CommitsInv' /\ OnlyTheKnown' /\ Locked'
  BY <1>1 DEF TrailInv, CommitsInv, OnlyTheKnown, Locked, Known
<1>4. ReadRight'
  <2> SUFFICES ASSUME NEW q \in Request, pc'[q] = "write"
               PROVE  /\ op'[q].before = op'[q].then \/ <<q, op'[q].rec>> \in misread'
                      /\ op'[q].rec \in DOMAIN tx[q] => op'[q].then = value[op'[q].rec]
    BY <1>1 DEF ReadRight
  <2>1. CASE q = r
    <3>1. op'[r] = [rec |-> y, new |-> new, before |-> b, then |-> value[y]]
      BY <1>2 DEF TypeInv, TypeOK
    <3> QED
      BY <1>2, <2>1, <3>1
  <2>2. CASE q # r
    <3>1. op'[q] = op[q] /\ pc[q] = "write"
      BY <1>2, <2>2 DEF UpdateBefore, Goto, TypeInv, TypeOK
    <3> QED
      BY <1>1, <3>1 DEF TrailInv, ReadRight
  <2> QED
    BY <2>1, <2>2
<1>5. Pending'
  <2> SUFFICES ASSUME NEW q \in Request, NEW z \in DOMAIN tx'[q],
                      Kind([over |-> value, wrote |-> tx[q]], z)' \in Kept(z)
               PROVE  Excused(q, z)' \/ Row(trail', q, z, value'[z], tx'[q][z])
    BY DEF Pending, Row, Excused, Kind, Kept, Action
  <2> QED
    BY <1>1, PendingStays DEF TrailInv
<1>6. TrailIsComplete'
  BY <1>1, TrailKept DEF TrailInv
<1> QED
  BY <1>3, <1>4, <1>5, <1>6 DEF TrailInv

LEMMA UpdateWriteTrail ==
  ASSUME TypeInv, TrailInv, NEW r \in Request, UpdateWrite(r)
  PROVE  TrailInv'
<1>1. PICK o \in [rec : Record, new : Held, before : Held, then : Held], y \in Record :
        o = op[r] /\ y = o.rec /\ o.new \in Held
  BY DEF TypeInv, TypeOK
<1>2. /\ Writing(r, y, o.new) /\ pc[r] = "write" /\ pc'[r] = "open"
      /\ \A q \in Request : q # r => pc'[q] = pc[q] /\ op'[q] = op[q]
  BY <1>1 DEF UpdateWrite, Goto, TypeInv, TypeOK
<1>3. tx'[r][y] = o.new
  BY <1>1, <1>2, WritingType
<1>4. /\ UNCHANGED <<value, born, commits, past>> /\ misread \subseteq misread'
      /\ \A q \in Request \ {r} : y \notin DOMAIN tx[q]
      /\ Current(r, y) # Absent
  BY <1>1 DEF UpdateWrite, Lockable
<1>5. /\ trail \subseteq trail' /\ unaudited \subseteq unaudited'
      /\ Differs(o) /\ Recorded(Draft(o)) => \/ [by |-> r, was |-> Draft(o)] \in trail'
                                             \/ <<r, Draft(o).rec>> \in unaudited'
  <2>1. CASE Differs(o)
    <3>1. AuditRow(r, Draft(o)) /\ Draft(o) \in Change
      BY <1>1, <2>1, DraftIsChange DEF UpdateWrite
    <3> QED
      BY <3>1, AuditRowType
  <2>2. CASE ~Differs(o)
    BY <1>1, <2>2 DEF UpdateWrite
  <2> QED
    BY <2>1, <2>2
<1>6. Known(y)'
  BY <1>1, <1>4 DEF Current, TrailInv, OnlyTheKnown, Known
<1>7. ASSUME Kind([over |-> value, wrote |-> tx'[r]], y) \in Kept(y), <<r, y>> \notin misread'
      PROVE  Excused(r, y)' \/ Row(trail', r, y, value[y], o.new)
  <2>1. o.then = Current(r, y) /\ <<r, y>> \notin misread
    BY <1>1, <1>4, <1>7 DEF UpdateWrite
  <2>2. o.before = o.then /\ (y \in DOMAIN tx[r] => o.then = value[y])
    BY <1>1, <1>2, <2>1 DEF TrailInv, ReadRight
  <2>3. o.before = value[y] /\ value[y] # Absent
    BY <1>4, <2>1, <2>2 DEF Current
  <2>4. o.new # value[y]
    BY <1>3, <1>7, KeptKind
  <2>5. Differs(o)
    BY <2>3, <2>4 DEF Differs
  <2>6. Draft(o).action = Kind([over |-> value, wrote |-> tx'[r]], y)
    BY <1>1, <1>3, <2>3, <2>4 DEF Draft, Kind
  <2>7. Draft(o).rec = y /\ Draft(o).old = value[y] /\ Draft(o).new = o.new
    BY <1>1, <2>3 DEF Draft
  <2>8. Recorded(Draft(o))
    BY <1>7, <2>6, <2>7, KeptKind DEF Recorded
  <2>9. CASE [by |-> r, was |-> Draft(o)] \in trail'
    BY <2>7, <2>9, RowOf
  <2>10. CASE <<r, Draft(o).rec>> \in unaudited'
    BY <2>7, <2>10 DEF Excused
  <2> QED
    BY <1>5, <2>5, <2>8, <2>9, <2>10
<1>8. Kind([over |-> value, wrote |-> tx'[r]], y) \in Kept(y) =>
        Excused(r, y)' \/ Row(trail', r, y, value[y], o.new)
  BY <1>7 DEF Excused
<1>9. pc'[r] # "write" /\ born \subseteq born' /\ past \subseteq past'
  BY <1>2, <1>4
<1> QED
  BY <1>1, <1>2, <1>4, <1>5, <1>6, <1>8, <1>9, WriteTrail

LEMMA AppendType ==
  ASSUME NEW S, NEW f \in [Request -> Seq(S)], NEW r \in Request, NEW e \in S
  PROVE  [f EXCEPT ![r] = Append(@, e)] \in [Request -> Seq(S)]
OBVIOUS

LEMMA CommitTrail ==
  ASSUME TypeInv, TrailInv, NEW r \in Request, Commit(r)
  PROVE  TrailInv'
<1> DEFINE c == [over |-> value, wrote |-> tx[r]]
<1>1. /\ UNCHANGED <<born, trail, op, misread, unaudited, past>>
      /\ tx' = [tx EXCEPT ![r] = Nothing] /\ commits' = [commits EXCEPT ![r] = Append(@, c)]
      /\ value' = [y \in Record |-> IF y \in DOMAIN tx[r] THEN tx[r][y] ELSE value[y]]
      /\ pc' = [pc EXCEPT ![r] = "between"] /\ pc[r] = "open"
  BY DEF Commit, Goto
<1>2. DOMAIN tx'[r] = {} /\ \A q \in Request : q # r => tx'[q] = tx[q]
  BY <1>1, EmptiedType
<1>3. tx[r] \in Records /\ value \in [Record -> Held] /\ DOMAIN tx[r] \subseteq Record
  BY DEF TrailInv, CommitsInv, TypeInv, TypeOK
<1>4. CommitsInv'
  <2>1. Nothing \in [{} -> Held]
    BY DEF Nothing
  <2>2. Nothing \in Records
    BY <2>1 DEF Records
  <2>3. \A q \in Request : tx'[q] \in Records
    BY <1>1, <1>2, <2>2 DEF TrailInv, CommitsInv, TypeInv, TxInv
  <2>4. c \in [over : [Record -> Held], wrote : Records]
    BY <1>3
  <2>5. commits' \in [Request -> Seq([over : [Record -> Held], wrote : Records])]
    <3>1. commits \in [Request -> Seq([over : [Record -> Held], wrote : Records])]
      BY DEF TrailInv, CommitsInv
    <3>2. [commits EXCEPT ![r] = Append(@, c)]
            \in [Request -> Seq([over : [Record -> Held], wrote : Records])]
      BY <2>4, <3>1, AppendType
    <3> QED
      BY <1>1, <3>2
  <2> QED
    BY <2>3, <2>5 DEF CommitsInv
<1>5. OnlyTheKnown'
  BY <1>1, <1>2, <1>3 DEF TrailInv, OnlyTheKnown, Known
<1>6. Locked'
  BY <1>2 DEF TrailInv, Locked
<1>7. \A q \in Request : q # r => \A y \in DOMAIN tx[q] : y \in Record /\ value'[y] = value[y]
  <2> SUFFICES ASSUME NEW q \in Request, q # r, NEW y \in DOMAIN tx[q]
               PROVE  y \in Record /\ value'[y] = value[y]
    OBVIOUS
  <2>1. y \in Record
    BY DEF TypeInv, TypeOK
  <2>2. y \notin DOMAIN tx[r]
    BY DEF TrailInv, Locked
  <2> QED
    BY <1>1, <2>1, <2>2
<1>8. ReadRight'
  <2> SUFFICES ASSUME NEW q \in Request, pc'[q] = "write"
               PROVE  /\ op[q].before = op[q].then \/ <<q, op[q].rec>> \in misread
                      /\ op[q].rec \in DOMAIN tx'[q] => op[q].then = value'[op[q].rec]
    BY <1>1 DEF ReadRight
  <2>1. q # r /\ pc[q] = "write"
    BY <1>1 DEF TypeInv, TypeOK
  <2> QED
    BY <1>2, <1>7, <2>1 DEF TrailInv, ReadRight
<1>9. Pending'
  <2> SUFFICES ASSUME NEW q \in Request, NEW y \in DOMAIN tx'[q],
                      Kind([over |-> value, wrote |-> tx[q]], y)' \in Kept(y)
               PROVE  Excused(q, y)' \/ Row(trail', q, y, value'[y], tx'[q][y])
    BY DEF Pending, Row, Excused, Kind, Kept, Action
  <2>1. q # r
    BY <1>2
  <2>2. tx'[q] = tx[q] /\ value'[y] = value[y] /\ y \in DOMAIN tx[q]
    BY <1>2, <1>7, <2>1
  <2> QED
    BY <1>1, <2>2, PendingStays DEF TrailInv
<1>10. TrailIsComplete'
  <2> SUFFICES ASSUME NEW q \in Request, NEW y \in Record, NEW a \in Kept(y), NEW i \in Did(q, y, a)'
               PROVE  Excused(q, y) \/ Audited(q, i, y)'
    BY <1>1 DEF TrailIsComplete, Excused, Kept, Action
  <2>1. /\ commits[r] \in Seq([over : [Record -> Held], wrote : Records])
        /\ commits'[r] = Append(commits[r], c)
        /\ \A p \in Request : p # r => commits'[p] = commits[p]
    BY <1>1 DEF TrailInv, CommitsInv
  <2>2. i \in DOMAIN commits'[q] /\ y \in DOMAIN commits'[q][i].wrote /\ Kind(commits'[q][i], y) = a
    BY DEF Did, Kind
  <2>3. CASE i \in DOMAIN commits[q] /\ commits'[q][i] = commits[q][i]
    <3>1. i \in Did(q, y, a)
      BY <2>2, <2>3 DEF Did
    <3>2. Excused(q, y) \/ Audited(q, i, y)
      BY <3>1 DEF TrailInv, TrailIsComplete, Excused
    <3> QED
      BY <1>1, <2>3, <3>2 DEF Audited
  <2>4. CASE q = r /\ commits'[q][i] = c
    <3>1. y \in DOMAIN tx[r] /\ Kind(c, y) \in Kept(y)
      BY <2>2, <2>4
    <3>3. Excused(r, y) \/ Row(trail, r, y, value[y], tx[r][y])
      BY <3>1 DEF TrailInv, Pending
    <3>4. commits'[q][i].over[y] = value[y] /\ commits'[q][i].wrote[y] = tx[r][y]
      BY <2>4
    <3>5. trail' = trail
      BY <1>1
    <3>6. Row(trail, r, y, value[y], tx[r][y]) => Audited(q, i, y)'
      BY <2>4, <3>4, <3>5 DEF Row, Audited
    <3> QED
      BY <2>4, <3>3, <3>6
  <2>5. \/ i \in DOMAIN commits[q] /\ commits'[q][i] = commits[q][i]
        \/ q = r /\ commits'[q][i] = c
    BY <2>1, <2>2
  <2> QED
    BY <2>3, <2>4, <2>5
<1> QED
  BY <1>4, <1>5, <1>6, <1>8, <1>9, <1>10 DEF TrailInv

LEMMA InitTrail == Init => TrailInv
<1> SUFFICES ASSUME Init PROVE TrailInv
  OBVIOUS
<1>1. DOMAIN Nothing = {} /\ Nothing \in Records
  <2>1. Nothing \in [{} -> Held]
    BY DEF Nothing
  <2> QED
    BY <2>1 DEF Records, Nothing
<1>2. \A r \in Request : tx[r] = Nothing /\ pc[r] = "idle" /\ commits[r] = <<>>
  BY DEF Init
<1>3. CommitsInv
  BY <1>1, <1>2 DEF CommitsInv, Init
<1>4. OnlyTheKnown /\ Locked /\ ReadRight /\ Pending
  BY <1>1, <1>2 DEF OnlyTheKnown, Locked, ReadRight, Pending, Known, Init
<1>5. TrailIsComplete
  BY <1>2 DEF TrailIsComplete, Did
<1> QED
  BY <1>3, <1>4, <1>5 DEF TrailInv

LEMMA StepTrail ==
  ASSUME TypeInv, HandInv, TrailInv, [Next]_vars
  PROVE  TrailInv'
<1>1. CASE UNCHANGED vars
  BY <1>1, TrailIdle DEF vars, db, request, history, counts
<1>2. CASE Crash
  <2>1. \A r \in Request : pc'[r] # "write"
    BY <1>2 DEF Crash, Busy, TypeInv, TypeOK
  <2> QED
    BY <1>2, <2>1, TrailUndone, CrashType DEF Crash, db
<1>3. ASSUME NEW r \in Request, Work(r) PROVE TrailInv'
  <2>1. CASE Open(r) \/ Succeed(r) \/ Fail(r)
    <3>1. UNCHANGED <<value, born, tx, op, commits, trail, misread, unaudited, past>>
      BY <2>1 DEF Open, Succeed, Fail, db, request, history
    <3>2. \A q \in Request : pc'[q] = "write" => pc[q] = "write"
      BY <2>1 DEF Open, Succeed, Fail, TypeInv, TypeOK
    <3> QED
      BY <3>1, <3>2, TrailIdle
  <2>2. CASE Rollback(r)
    <3>1. \A q \in Request : pc'[q] = "write" => q # r /\ pc[q] = "write" /\ op'[q] = op[q]
      BY <2>2 DEF Rollback, TypeInv, TypeOK
    <3>2. tx'[r] = Nothing /\ \A q \in Request : q # r => tx'[q] = tx[q]
      BY <2>2 DEF Rollback, TypeInv, TxInv
    <3> QED
      BY <2>2, <3>1, <3>2, TrailUndone DEF Rollback, db
  <2> QED
    BY <1>3, <2>1, <2>2, UpdateWriteTrail, CommitTrail, CreateTrail, BulkTrail,
       UpdateBeforeTrail DEF Work
<1>4. ASSUME NEW r \in Request, Announce(r) \/ Spoil(r) PROVE TrailInv'
  <2>1. UNCHANGED <<value, born, tx, op, commits, trail, misread, unaudited, past>>
    BY <1>4 DEF Announce, Spoil, WriteEvent, Notify, Mail, RouteFails, EventFails,
                db, request, history, news
  <2>2. \A q \in Request : pc'[q] = "write" => pc[q] = "write"
    BY <1>4 DEF Announce, Spoil, WriteEvent, Notify, Mail, RouteFails, EventFails, Goto, TypeInv, TypeOK
  <2> QED
    BY <2>1, <2>2, TrailIdle
<1> QED
  BY <1>1, <1>2, <1>3, <1>4 DEF Next

-----------------------------------------------------------------------------
(* The news *)

\* The first and the last of a set of positions.
Spans(S, i, j) == i \in S /\ j \in S /\ \A k \in S : i <= k /\ k <= j

\* What a request has committed, and then what its open transaction would.
History(r) == Append(commits[r], [over |-> value, wrote |-> tx[r]])

Drafted(d, y, a) == {i \in DOMAIN d : d[i].rec = y /\ d[i].action = a}

Made(h, y, a) == {i \in DOMAIN h : y \in DOMAIN h[i].wrote /\ Kind(h[i], y) = a}

\* The drafts go from the value the first transaction found to the one the last leaves.
Match(d, h, y, a) ==
  \/ Drafted(d, y, a) = {} /\ Made(h, y, a) = {}
  \/ \E i, j \in Drafted(d, y, a), k, l \in Made(h, y, a) :
       /\ Spans(Drafted(d, y, a), i, j) /\ Spans(Made(h, y, a), k, l)
       /\ d[i].old = h[k].over[y] /\ d[j].new = h[l].wrote[y]

Spoken(r, y) == <<r, y>> \in undone \cup misread \cup past

DraftsTrue == \A r \in Request, y \in Record, a \in Action :
  Spoken(r, y) \/ Match(drafts[r], History(r), y, a)

\* Once a request is answered it has no transaction, and what is to be told is true.
NewsInv == \A r \in Request :
  /\ pc[r] \notin {"open", "write"} => tx[r] = Nothing
  /\ Unanswered(r) => todo[r] = {}
  /\ \A c \in todo[r] : Spoken(r, c.rec) \/ Real(r, c)

TrueInv == DraftsTrue /\ NewsInv /\ NewsIsTrue

\* Nothing about the record is added on either side.
LEMMA MatchStays ==
  ASSUME NEW d, NEW e, NEW h, NEW g, NEW y, NEW a, Match(d, h, y, a),
         Drafted(e, y, a) = Drafted(d, y, a), Made(g, y, a) = Made(h, y, a),
         \A i \in Drafted(d, y, a) : e[i] = d[i],
         \A k \in Made(h, y, a) : g[k].over[y] = h[k].over[y] /\ g[k].wrote[y] = h[k].wrote[y]
  PROVE  Match(e, g, y, a)
<1>1. CASE Drafted(d, y, a) = {}
  BY <1>1 DEF Match
<1>2. CASE Drafted(d, y, a) # {}
  <2>1. PICK i \in Drafted(d, y, a), j \in Drafted(d, y, a), k \in Made(h, y, a), l \in Made(h, y, a) :
          /\ Spans(Drafted(d, y, a), i, j) /\ Spans(Made(h, y, a), k, l)
          /\ d[i].old = h[k].over[y] /\ d[j].new = h[l].wrote[y]
    BY <1>2 DEF Match
  <2>2. e[i].old = g[k].over[y] /\ e[j].new = g[l].wrote[y]
    BY <2>1
  <2> QED
    BY <2>1, <2>2 DEF Match
<1> QED
  BY <1>1, <1>2

\* One more comes at the end on both sides, and they agree.
LEMMA MatchGrows ==
  ASSUME NEW d, NEW e, NEW h, NEW g, NEW y, NEW a, Match(d, h, y, a),
         NEW m \in Nat, NEW n \in Nat,
         \A i \in Drafted(d, y, a) : i \in Nat /\ i <= m /\ e[i] = d[i],
         \A k \in Made(h, y, a) :
           /\ k \in Nat /\ k <= n
           /\ g[k].over[y] = h[k].over[y] /\ g[k].wrote[y] = h[k].wrote[y],
         Drafted(e, y, a) = Drafted(d, y, a) \cup {m}, Made(g, y, a) = Made(h, y, a) \cup {n},
         e[m].old = g[n].over[y], e[m].new = g[n].wrote[y]
  PROVE  Match(e, g, y, a)
<1>1. CASE Drafted(d, y, a) = {}
  <2>1. Drafted(e, y, a) = {m} /\ Made(g, y, a) = {n}
    BY <1>1 DEF Match
  <2>2. Spans(Drafted(e, y, a), m, m) /\ Spans(Made(g, y, a), n, n)
    BY <2>1 DEF Spans
  <2>3. m \in Drafted(e, y, a) /\ n \in Made(g, y, a)
    BY <2>1
  <2> QED
    BY <2>2, <2>3 DEF Match
<1>2. CASE Drafted(d, y, a) # {}
  <2>1. PICK i \in Drafted(d, y, a), j \in Drafted(d, y, a), k \in Made(h, y, a), l \in Made(h, y, a) :
          /\ Spans(Drafted(d, y, a), i, j) /\ Spans(Made(h, y, a), k, l)
          /\ d[i].old = h[k].over[y] /\ d[j].new = h[l].wrote[y]
    BY <1>2 DEF Match
  <2>2. Spans(Drafted(e, y, a), i, m)
    BY <2>1 DEF Spans
  <2>3. Spans(Made(g, y, a), k, n)
    BY <2>1 DEF Spans
  <2>4. e[i].old = g[k].over[y]
    BY <2>1
  <2>5. i \in Drafted(e, y, a) /\ m \in Drafted(e, y, a) /\ k \in Made(g, y, a) /\ n \in Made(g, y, a)
    BY <2>1
  <2> QED
    BY <2>2, <2>3, <2>4, <2>5 DEF Match
<1> QED
  BY <1>1, <1>2

Deeds == Seq([over : [Record -> Held], wrote : Records])

\* The history of a request, position by position.
LEMMA HistoryAt ==
  ASSUME NEW s \in Deeds, NEW c \in [over : [Record -> Held], wrote : Records], NEW y, NEW a
  PROVE  /\ DOMAIN Append(s, c) = DOMAIN s \cup {Len(s) + 1}
         /\ Len(s) \in Nat /\ Len(s) + 1 \notin DOMAIN s
         /\ \A i \in DOMAIN s : Append(s, c)[i] = s[i] /\ i \in Nat /\ i <= Len(s) + 1
         /\ Append(s, c)[Len(s) + 1] = c
         /\ Made(Append(s, c), y, a) =
              Made(s, y, a) \cup {i \in {Len(s) + 1} : y \in DOMAIN c.wrote /\ Kind(c, y) = a}
<1>1. /\ DOMAIN Append(s, c) = DOMAIN s \cup {Len(s) + 1}
      /\ Len(s) \in Nat /\ Len(s) + 1 \notin DOMAIN s
      /\ \A i \in DOMAIN s : Append(s, c)[i] = s[i] /\ i \in Nat /\ i <= Len(s) + 1
      /\ Append(s, c)[Len(s) + 1] = c
  BY DEF Deeds
<1> DEFINE t == Append(s, c)  n == Len(s) + 1
<1>2. /\ DOMAIN t = DOMAIN s \cup {n} /\ t[n] = c
      /\ \A i \in DOMAIN s : t[i] = s[i]
  BY <1>1
<1> HIDE DEF t, n
<1>3. Made(t, y, a) = Made(s, y, a) \cup {i \in {n} : y \in DOMAIN c.wrote /\ Kind(c, y) = a}
  BY <1>2 DEF Made
<1> QED
  BY <1>1, <1>3 DEF t, n

LEMMA HistoryType ==
  ASSUME TypeInv, TrailInv, NEW r \in Request
  PROVE  /\ commits[r] \in Deeds
         /\ [over |-> value, wrote |-> tx[r]] \in [over : [Record -> Held], wrote : Records]
BY DEF TypeInv, TypeOK, TrailInv, CommitsInv, Deeds

\* What a request has made of a record, committed or not.
LEMMA MadeNow ==
  ASSUME TypeInv, TrailInv, NEW r \in Request, NEW y, NEW a
  PROVE  /\ Made(History(r), y, a) =
              Did(r, y, a) \cup {i \in {Len(commits[r]) + 1} :
                y \in DOMAIN tx[r] /\ Kind([over |-> value, wrote |-> tx[r]], y) = a}
         /\ Len(commits[r]) \in Nat
         /\ \A i \in Did(r, y, a) : /\ i \in Nat /\ i <= Len(commits[r]) + 1
                                    /\ i # Len(commits[r]) + 1
                                    /\ History(r)[i] = commits[r][i]
         /\ History(r)[Len(commits[r]) + 1] = [over |-> value, wrote |-> tx[r]]
<1> DEFINE c == [over |-> value, wrote |-> tx[r]]
           s == commits[r]
<1>1. s \in Deeds /\ c \in [over : [Record -> Held], wrote : Records] /\ c.wrote = tx[r]
  BY HistoryType
<1>2. Made(s, y, a) = Did(r, y, a)
  BY DEF Made, Did
<1>3. \A i \in Did(r, y, a) : i \in DOMAIN s
  BY DEF Did
<1>4. History(r) = Append(s, c)
  BY DEF History
<1> HIDE DEF c, s
<1>5. /\ Len(s) \in Nat /\ Len(s) + 1 \notin DOMAIN s
      /\ \A i \in DOMAIN s : Append(s, c)[i] = s[i] /\ i \in Nat /\ i <= Len(s) + 1
      /\ Append(s, c)[Len(s) + 1] = c
      /\ Made(Append(s, c), y, a) =
           Made(s, y, a) \cup {i \in {Len(s) + 1} : y \in DOMAIN c.wrote /\ Kind(c, y) = a}
  BY <1>1, HistoryAt
<1>6. /\ Made(History(r), y, a) =
           Did(r, y, a) \cup {i \in {Len(s) + 1} : y \in DOMAIN tx[r] /\ Kind(c, y) = a}
      /\ Len(s) \in Nat
      /\ \A i \in Did(r, y, a) : /\ i \in Nat /\ i <= Len(s) + 1 /\ i # Len(s) + 1
                                 /\ History(r)[i] = s[i]
      /\ History(r)[Len(s) + 1] = c
  BY <1>1, <1>2, <1>3, <1>4, <1>5
<1> QED
  BY <1>6 DEF c, s

\* A step that does nothing to a record for a request: it commits nothing, and neither
\* its transaction's version of the record nor the one below has changed.
LEMMA RecordStays ==
  ASSUME TypeInv, TrailInv, TypeInv', TrailInv', NEW r \in Request, NEW y \in Record, NEW a,
         Match(drafts[r], History(r), y, a),
         commits'[r] = commits[r],
         y \in DOMAIN tx'[r] <=> y \in DOMAIN tx[r],
         y \in DOMAIN tx[r] => tx'[r][y] = tx[r][y] /\ value'[y] = value[y],
         Drafted(drafts'[r], y, a) = Drafted(drafts[r], y, a),
         \A i \in Drafted(drafts[r], y, a) : drafts'[r][i] = drafts[r][i]
  PROVE  Match(drafts[r], History(r), y, a)'
<1> DEFINE c == [over |-> value, wrote |-> tx[r]]
           e == [over |-> value', wrote |-> tx'[r]]
           n == Len(commits[r]) + 1
           old == Made(History(r), y, a)
<1>1. /\ Did(r, y, a)' = Did(r, y, a) /\ Len(commits'[r]) = Len(commits[r])
  BY DEF Did, Kind
<1>2. /\ old = Did(r, y, a) \cup {i \in {n} : y \in DOMAIN tx[r] /\ Kind(c, y) = a}
      /\ \A i \in Did(r, y, a) : i # n /\ History(r)[i] = commits[r][i]
      /\ History(r)[n] = c
  BY MadeNow
<1>3. /\ Made(History(r)', y, a) =
           Did(r, y, a) \cup {i \in {n} : y \in DOMAIN tx'[r] /\ Kind(e, y) = a}
      /\ \A i \in Did(r, y, a) : History(r)'[i] = commits[r][i]
      /\ History(r)'[n] = e
  <2>1. /\ commits'[r] \in Deeds /\ e \in [over : [Record -> Held], wrote : Records]
        /\ e.wrote = tx'[r] /\ History(r)' = Append(commits'[r], e)
    BY DEF TypeInv, TypeOK, TrailInv, CommitsInv, Deeds, History
  <2>2. Made(commits[r], y, a) = Did(r, y, a) /\ \A i \in Did(r, y, a) : i \in DOMAIN commits[r]
    BY DEF Made, Did
  <2> HIDE DEF e
  <2>3. /\ \A i \in DOMAIN commits'[r] : Append(commits'[r], e)[i] = commits'[r][i]
        /\ Append(commits'[r], e)[Len(commits'[r]) + 1] = e
        /\ Made(Append(commits'[r], e), y, a) =
             Made(commits'[r], y, a)
               \cup {i \in {Len(commits'[r]) + 1} : y \in DOMAIN e.wrote /\ Kind(e, y) = a}
    BY <2>1, HistoryAt
  <2> QED
    BY <1>1, <2>1, <2>2, <2>3
<1>4. y \in DOMAIN tx[r] =>
        /\ Kind(e, y) = Kind(c, y) /\ e.over[y] = c.over[y] /\ e.wrote[y] = c.wrote[y]
  BY DEF Kind
<1> HIDE DEF c, e, n
<1>5. Made(History(r)', y, a) = old
  BY <1>2, <1>3, <1>4
<1>6. \A k \in old : /\ History(r)'[k].over[y] = History(r)[k].over[y]
                     /\ History(r)'[k].wrote[y] = History(r)[k].wrote[y]
  BY <1>2, <1>3, <1>4
<1>7. Match(drafts'[r], History(r)', y, a)
  BY <1>5, <1>6, MatchStays
<1> QED
  BY <1>7 DEF Match, Drafted, Made, Spans, Kind

Drafts == Seq(Change)

\* One more draft, position by position.
LEMMA DraftedAt ==
  ASSUME NEW d \in Drafts, NEW f \in Change, NEW y, NEW a
  PROVE  Drafted(Append(d, f), y, a) =
           Drafted(d, y, a) \cup {i \in {Len(d) + 1} : f.rec = y /\ f.action = a}
<1> DEFINE e == Append(d, f)  m == Len(d) + 1
<1>1. /\ DOMAIN e = DOMAIN d \cup {m} /\ e[m] = f /\ m \in Nat
      /\ \A i \in DOMAIN d : i \in Nat /\ i <= m /\ e[i] = d[i]
  BY DEF Drafts
<1> HIDE DEF e, m
<1>2. Drafted(e, y, a) = Drafted(d, y, a) \cup {i \in {m} : f.rec = y /\ f.action = a}
  BY <1>1 DEF Drafted
<1> QED
  BY <1>2 DEF e, m

\* A write of a record that the transaction had left as it found it: a draft says what it
\* found and what it leaves, or there is none, for it leaves the record as it was.
LEMMA RecordWritten ==
  ASSUME TypeInv, TrailInv, TypeInv', TrailInv', NEW r \in Request, NEW y \in Record, NEW a \in Action,
         Match(drafts[r], History(r), y, a), NEW f \in Change,
         commits'[r] = commits[r], UNCHANGED value,
         y \in DOMAIN tx[r] => tx[r][y] = value[y],
         y \in DOMAIN tx'[r],
         \/ tx'[r][y] = value[y] /\ drafts'[r] = drafts[r]
         \/ /\ tx'[r][y] # value[y] /\ drafts'[r] = Append(drafts[r], f)
            /\ f.rec = y /\ f.old = value[y] /\ f.new = tx'[r][y]
            /\ f.action = Kind([over |-> value, wrote |-> tx'[r]], y)
  PROVE  Match(drafts[r], History(r), y, a)'
<1> DEFINE c == [over |-> value, wrote |-> tx[r]]
           e == [over |-> value, wrote |-> tx'[r]]
           n == Len(commits[r]) + 1
           m == Len(drafts[r]) + 1
           old == Made(History(r), y, a)
           H == History(r)'
<1>1. /\ n \in Nat /\ \A i \in Did(r, y, a) : i \in Nat /\ i <= n /\ i # n /\ History(r)[i] = commits[r][i]
      /\ old = Did(r, y, a) \cup {i \in {n} : y \in DOMAIN tx[r] /\ Kind(c, y) = a}
  BY MadeNow
<1>2. /\ \A i \in Did(r, y, a) : H[i] = commits[r][i]
      /\ H[n] = e
      /\ Made(H, y, a) = Did(r, y, a) \cup {i \in {n} : Kind(e, y) = a}
  <2>1. /\ commits[r] \in Deeds /\ e \in [over : [Record -> Held], wrote : Records]
        /\ e.wrote = tx'[r] /\ H = Append(commits[r], e)
    BY DEF TypeInv, TypeOK, TrailInv, CommitsInv, Deeds, History
  <2>2. Made(commits[r], y, a) = Did(r, y, a) /\ \A i \in Did(r, y, a) : i \in DOMAIN commits[r]
    BY DEF Made, Did
  <2> HIDE DEF e, H
  <2>3. /\ \A i \in DOMAIN commits[r] : Append(commits[r], e)[i] = commits[r][i]
        /\ Append(commits[r], e)[Len(commits[r]) + 1] = e
        /\ Made(Append(commits[r], e), y, a) =
             Made(commits[r], y, a)
               \cup {i \in {Len(commits[r]) + 1} : y \in DOMAIN e.wrote /\ Kind(e, y) = a}
    BY <2>1, HistoryAt
  <2> QED
    BY <2>1, <2>2, <2>3
<1>3. old = Did(r, y, a)
  <2>1. y \in DOMAIN tx[r] => Kind(c, y) = "NONE"
    BY DEF Kind
  <2>2. a # "NONE"
    BY DEF Action
  <2> HIDE DEF c, n, old
  <2> QED
    BY <1>1, <2>1, <2>2
<1>4. e.over[y] = value[y] /\ e.wrote[y] = tx'[r][y]
  OBVIOUS
<1>5. Kind(e, y) = a => tx'[r][y] # value[y]
  BY DEF Kind, Action
<1>6. drafts[r] \in Drafts
  BY DEF TypeInv, TypeOK, Drafts
<1>10. PICK d, g :
        /\ d = drafts[r] /\ g = Append(d, f) /\ m \in Nat /\ g[m] = f
        /\ \A i \in Drafted(d, y, a) : i \in Nat /\ i <= m /\ g[i] = d[i]
        /\ Drafted(g, y, a) = Drafted(d, y, a) \cup {i \in {m} : f.rec = y /\ f.action = a}
  <2> HIDE DEF c, e, n, old, H
  <2>1. /\ Len(drafts[r]) + 1 \in Nat /\ Append(drafts[r], f)[Len(drafts[r]) + 1] = f
        /\ \A i \in Drafted(drafts[r], y, a) :
             i \in Nat /\ i <= Len(drafts[r]) + 1 /\ Append(drafts[r], f)[i] = drafts[r][i]
    BY <1>6 DEF Drafts, Drafted
  <2>2. Drafted(Append(drafts[r], f), y, a) =
          Drafted(drafts[r], y, a) \cup {i \in {Len(drafts[r]) + 1} : f.rec = y /\ f.action = a}
    BY <1>6, DraftedAt
  <2> QED
    BY <1>6, <2>1, <2>2
<1>7. \A k \in old : /\ k \in Nat /\ k <= n
                     /\ H[k].over[y] = History(r)[k].over[y] /\ H[k].wrote[y] = History(r)[k].wrote[y]
  BY <1>1, <1>2, <1>3
<1>8. CASE drafts'[r] = g /\ f.action = a /\ f.action = Kind(e, y)
           /\ f.rec = y /\ f.old = value[y] /\ f.new = tx'[r][y]
  <2> HIDE DEF m
  <2>1. Drafted(g, y, a) = Drafted(d, y, a) \cup {m}
    BY <1>8, <1>10
  <2>2. Made(H, y, a) = old \cup {n}
    BY <1>2, <1>3, <1>8
  <2>3. g[m].old = H[n].over[y] /\ g[m].new = H[n].wrote[y]
    BY <1>2, <1>4, <1>8, <1>10
  <2> HIDE DEF e, n, H
  <2>4. Match(g, H, y, a)
    <3>1. Match(d, History(r), y, a) /\ old = Made(History(r), y, a)
      BY <1>10 DEF old
    <3>2. \A i \in Drafted(d, y, a) : i \in Nat /\ i <= m /\ g[i] = d[i]
      BY <1>10
    <3>3. m \in Nat /\ n \in Nat
      BY <1>1, <1>10
    <3> HIDE DEF old
    <3> QED
      BY <1>7, <2>1, <2>2, <2>3, <3>1, <3>2, <3>3, MatchGrows
  <2>5. Match(drafts'[r], H, y, a)
    BY <1>8, <2>4
  <2> QED
    BY <2>5 DEF H, Match, Drafted, Made, Spans, Kind
<1>9. CASE Kind(e, y) # a /\ (drafts'[r] = drafts[r] \/ (drafts'[r] = g /\ f.action # a))
  <2> HIDE DEF m
  <2>1. /\ \A i \in Drafted(d, y, a) : drafts'[r][i] = d[i]
        /\ Drafted(drafts'[r], y, a) = Drafted(d, y, a)
    BY <1>9, <1>10
  <2>2. Made(H, y, a) = old
    BY <1>2, <1>3, <1>9
  <2> HIDE DEF e, n, H
  <2>3. Match(drafts'[r], H, y, a)
    BY <1>7, <1>10, <2>1, <2>2, MatchStays DEF old
  <2> QED
    BY <2>3 DEF H, Match, Drafted, Made, Spans, Kind
<1> QED
  BY <1>5, <1>8, <1>9, <1>10

\* Steps that commit nothing, draft nothing, and do to a transaction nothing but undo it.
LEMMA DraftsIdle ==
  ASSUME TypeInv, TrailInv, TypeInv', TrailInv', DraftsTrue,
         UNCHANGED <<value, commits, drafts>>, misread \subseteq misread', undone \subseteq undone',
         past \subseteq past',
         \A r \in Request : tx'[r] = tx[r] \/ (tx'[r] = Nothing /\ Undoing(r) \subseteq undone')
  PROVE  DraftsTrue'
<1> SUFFICES ASSUME NEW r \in Request, NEW y \in Record, NEW a \in Action, ~Spoken(r, y)'
             PROVE  Match(drafts[r], History(r), y, a)'
  BY DEF DraftsTrue
<1>1. Match(drafts[r], History(r), y, a)
  BY DEF DraftsTrue, Spoken
<1>2. DOMAIN Nothing = {}
  BY DEF Nothing
<1>3. /\ y \in DOMAIN tx'[r] <=> y \in DOMAIN tx[r]
      /\ y \in DOMAIN tx[r] => tx'[r] = tx[r]
  BY <1>2 DEF Undoing, Spoken
<1>4. /\ commits'[r] = commits[r] /\ value' = value
      /\ Drafted(drafts'[r], y, a) = Drafted(drafts[r], y, a)
      /\ \A i \in Drafted(drafts[r], y, a) : drafts'[r][i] = drafts[r][i]
  OBVIOUS
<1> QED
  BY <1>1, <1>3, <1>4, RecordStays

LEMMA CommitDrafts ==
  ASSUME TypeInv, TrailInv, TypeInv', TrailInv', DraftsTrue, NEW r \in Request, Commit(r)
  PROVE  DraftsTrue'
<1> SUFFICES ASSUME NEW q \in Request, NEW y \in Record, NEW a \in Action, ~Spoken(q, y)'
             PROVE  Match(drafts[q], History(q), y, a)'
  BY DEF DraftsTrue
<1>1. Match(drafts[q], History(q), y, a)
  BY DEF DraftsTrue, Spoken, Commit
<1> DEFINE c == [over |-> value, wrote |-> tx[r]]
<1>2. /\ drafts' = drafts /\ tx' = [tx EXCEPT ![r] = Nothing]
      /\ commits' = [commits EXCEPT ![r] = Append(@, c)]
      /\ value' = [z \in Record |-> IF z \in DOMAIN tx[r] THEN tx[r][z] ELSE value[z]]
  BY DEF Commit
<1>3. DOMAIN tx'[r] = {} /\ \A p \in Request : p # r => tx'[p] = tx[p]
  BY <1>2, EmptiedType
<1>4. CASE q # r
  <2>1. y \in DOMAIN tx[q] => y \notin DOMAIN tx[r]
    BY <1>4 DEF TrailInv, Locked
  <2>2. /\ commits'[q] = commits[q] /\ tx'[q] = tx[q]
        /\ y \in DOMAIN tx[q] => value'[y] = value[y]
    BY <1>2, <1>3, <1>4, <2>1 DEF TrailInv, CommitsInv
  <2>3. /\ Drafted(drafts'[q], y, a) = Drafted(drafts[q], y, a)
        /\ \A i \in Drafted(drafts[q], y, a) : drafts'[q][i] = drafts[q][i]
    BY <1>2
  <2> QED
    BY <1>1, <2>2, <2>3, RecordStays
<1>5. CASE q = r
  <2> DEFINE s == commits[r]
             t == Append(s, c)
             e == [over |-> value', wrote |-> tx'[r]]
             H == History(r)'
  <2>1. /\ s \in Deeds /\ c \in [over : [Record -> Held], wrote : Records]
        /\ t \in Deeds /\ e \in [over : [Record -> Held], wrote : Records]
        /\ History(r) = t /\ H = Append(t, e) /\ DOMAIN e.wrote = {}
    <3>1. s \in Deeds /\ c \in [over : [Record -> Held], wrote : Records]
      BY HistoryType
    <3>2. commits'[r] = t /\ H = Append(t, e)
      BY <1>2 DEF History, TrailInv, CommitsInv
    <3>3. commits'[r] \in Deeds /\ e \in [over : [Record -> Held], wrote : Records]
      BY DEF TypeInv, TypeOK, TrailInv, CommitsInv, Deeds
    <3> QED
      BY <1>3, <3>1, <3>2, <3>3 DEF History
  <2> HIDE DEF s, t, c, e, H
  <2>2. /\ \A i \in DOMAIN t : Append(t, e)[i] = t[i]
        /\ Made(Append(t, e), y, a) =
             Made(t, y, a) \cup {i \in {Len(t) + 1} : y \in DOMAIN e.wrote /\ Kind(e, y) = a}
    BY <2>1, HistoryAt
  <2>3. Made(H, y, a) = Made(t, y, a) /\ \A i \in Made(t, y, a) : i \in DOMAIN t /\ H[i] = t[i]
    BY <2>1, <2>2 DEF Made
  <2>4. Match(drafts[r], t, y, a)
    BY <1>1, <1>5, <2>1
  <2>5. Match(drafts[r], H, y, a)
    BY <2>3, <2>4, MatchStays
  <2>6. Match(drafts'[q], H, y, a)
    BY <1>2, <1>5, <2>5
  <2> DEFINE D == Drafted(drafts'[q], y, a)
             M == Made(H, y, a)
  <2>7. Drafted(drafts[q], y, a)' = D
    BY Zenon DEF Drafted
  <2>8. H = History(q)' /\ Made(History(q), y, a)' = M
    BY <1>5, Zenon DEF H, History, Made, Kind
  <2>9. \A S, i, j : Spans(S, i, j)' <=> Spans(S, i, j)
    BY Zenon DEF Spans
  <2>10. \/ D = {} /\ M = {}
         \/ \E i, j \in D, k, l \in M :
              /\ Spans(D, i, j) /\ Spans(M, k, l)
              /\ drafts'[q][i].old = H[k].over[y] /\ drafts'[q][j].new = H[l].wrote[y]
    BY <2>6, Zenon DEF Match
  <2> QED
    BY <2>7, <2>8, <2>10, ZenonT(30) DEF Match, Spans
<1> QED
  BY <1>4, <1>5

\* A write that collects nothing about the other records leaves them as they are.
LEMMA OthersStay ==
  ASSUME TypeInv, TrailInv, TypeInv', TrailInv', DraftsTrue,
         NEW r \in Request, NEW y \in Record, NEW f \in Change, f.rec = y,
         UNCHANGED <<value, commits, undone, past>>, misread \subseteq misread',
         DOMAIN tx'[r] = DOMAIN tx[r] \cup {y},
         \A z \in DOMAIN tx[r] : z # y => tx'[r][z] = tx[r][z],
         \A q \in Request : q # r => tx'[q] = tx[q] /\ drafts'[q] = drafts[q],
         drafts'[r] = drafts[r] \/ drafts'[r] = Append(drafts[r], f),
         NEW q \in Request, NEW z \in Record, NEW a \in Action, q # r \/ z # y, ~Spoken(q, z)'
  PROVE  Match(drafts[q], History(q), z, a)'
<1>1. Match(drafts[q], History(q), z, a)
  BY DEF DraftsTrue, Spoken
<1>2. /\ commits'[q] = commits[q] /\ value' = value
      /\ z \in DOMAIN tx'[q] <=> z \in DOMAIN tx[q]
      /\ z \in DOMAIN tx[q] => tx'[q][z] = tx[q][z]
  OBVIOUS
<1>3. /\ Drafted(drafts'[q], z, a) = Drafted(drafts[q], z, a)
      /\ \A i \in Drafted(drafts[q], z, a) : drafts'[q][i] = drafts[q][i]
  <2>1. CASE drafts'[q] = drafts[q]
    BY <2>1
  <2>2. CASE z # y /\ drafts'[q] = Append(drafts[q], f)
    <3>1. drafts[q] \in Drafts
      BY DEF TypeInv, TypeOK, Drafts
    <3>2. Drafted(Append(drafts[q], f), z, a) =
            Drafted(drafts[q], z, a) \cup {i \in {Len(drafts[q]) + 1} : f.rec = z /\ f.action = a}
      BY <3>1, DraftedAt
    <3>3. \A i \in Drafted(drafts[q], z, a) : drafts'[q][i] = drafts[q][i]
      BY <2>2, <3>1 DEF Drafted, Drafts
    <3> QED
      BY <2>2, <3>2, <3>3
  <2> QED
    BY <2>1, <2>2
<1> QED
  BY <1>1, <1>2, <1>3, RecordStays

LEMMA CreateDrafts ==
  ASSUME TypeInv, TrailInv, TypeInv', TrailInv', DraftsTrue,
         NEW r \in Request, NEW y \in Record, NEW v \in Value, CreateRecord(r, y, v)
  PROVE  DraftsTrue'
<1> SUFFICES ASSUME NEW q \in Request, NEW z \in Record, NEW a \in Action, ~Spoken(q, z)'
             PROVE  Match(drafts[q], History(q), z, a)'
  BY DEF DraftsTrue
<1> DEFINE f == [rec |-> y, action |-> "CREATE", old |-> Absent, new |-> v]
<1>1. /\ ~Known(y) /\ Writing(r, y, v) /\ v \in Held /\ f \in Change
      /\ drafts' = [drafts EXCEPT ![r] = Append(@, f)]
      /\ UNCHANGED <<value, commits, misread, undone, past>>
  BY DEF CreateRecord, GiveOut, Collect, Known, Held, Change
<1>2. /\ DOMAIN tx'[r] = DOMAIN tx[r] \cup {y} /\ tx'[r][y] = v
      /\ \A x \in DOMAIN tx[r] : x # y => tx'[r][x] = tx[r][x]
      /\ \A p \in Request : p # r => tx'[p] = tx[p]
  BY <1>1, WritingType
<1>3. value[y] = Absent /\ y \notin DOMAIN tx[r]
  BY <1>1 DEF TrailInv, OnlyTheKnown
<1>4. /\ drafts'[r] = Append(drafts[r], f)
      /\ \A p \in Request : p # r => drafts'[p] = drafts[p]
  BY <1>1 DEF TypeInv, TypeOK
<1>5. f.rec = y /\ f.old = Absent /\ f.new = v /\ f.action = "CREATE"
  OBVIOUS
<1>6. Kind([over |-> value, wrote |-> tx'[r]], y) = "CREATE" /\ tx'[r][y] # value[y]
  BY <1>2, <1>3, RecordAssumption DEF Kind
<1>7. CASE q # r \/ z # y
  <2> HIDE DEF f
  <2> QED
    BY <1>1, <1>2, <1>4, <1>5, <1>7, OthersStay
<1>8. CASE q = r /\ z = y
  <2>1. Match(drafts[r], History(r), y, a)
    BY <1>1, <1>8 DEF DraftsTrue, Spoken
  <2> HIDE DEF f
  <2>2. Match(drafts[r], History(r), y, a)'
    BY <1>1, <1>2, <1>3, <1>4, <1>5, <1>6, <2>1, RecordWritten
  <2> QED
    BY <1>8, <2>2
<1> QED
  BY <1>7, <1>8

LEMMA UpdateDrafts ==
  ASSUME TypeInv, TrailInv, TypeInv', TrailInv', DraftsTrue, NEW r \in Request, UpdateWrite(r)
  PROVE  DraftsTrue'
<1> SUFFICES ASSUME NEW q \in Request, NEW z \in Record, NEW a \in Action, ~Spoken(q, z)'
             PROVE  Match(drafts[q], History(q), z, a)'
  BY DEF DraftsTrue
<1> DEFINE o == op[r]  y == op[r].rec
<1>1. o \in [rec : Record, new : Held, before : Held, then : Held] /\ y \in Record /\ o.new \in Held
  BY DEF TypeInv, TypeOK
<1>2. Writing(r, y, o.new) /\ pc[r] = "write" /\ Current(r, y) # Absent
  BY DEF UpdateWrite, Goto
<1>3. /\ DOMAIN tx'[r] = DOMAIN tx[r] \cup {y} /\ tx'[r][y] = o.new
      /\ \A x \in DOMAIN tx[r] : x # y => tx'[r][x] = tx[r][x]
      /\ \A p \in Request : p # r => tx'[p] = tx[p]
  BY <1>1, <1>2, WritingType
<1>4. UNCHANGED <<value, commits, undone, past>> /\ misread \subseteq misread'
  BY DEF UpdateWrite
<1>5. PICK f \in Change :
        /\ f.rec = y
        /\ Differs(o) => f = Draft(o) /\ drafts' = [drafts EXCEPT ![r] = Append(@, f)]
        /\ ~Differs(o) => drafts' = drafts
  <2>1. CASE Differs(o)
    <3>1. Draft(o) \in Change /\ Draft(o).rec = y
      BY <1>1, <2>1, DraftIsChange DEF Draft
    <3> QED
      BY <2>1, <3>1 DEF UpdateWrite, Collect
  <2>2. CASE ~Differs(o)
    <3>1. o.before \in Held /\ Value # {}
      <4>1. Current(r, y) \in Held
        BY <1>1 DEF Current, TypeInv, TypeOK, TxInv
      <4> QED
        BY <1>1, <1>2, <4>1 DEF Held
    <3>2. PICK v \in Value : TRUE
      BY <3>1
    <3>3. [rec |-> y, action |-> "CREATE", old |-> Absent, new |-> v] \in Change
      BY <1>1 DEF Change
    <3> QED
      BY <2>2, <3>3 DEF UpdateWrite
  <2> QED
    BY <2>1, <2>2
<1>6. /\ drafts'[r] = drafts[r] \/ drafts'[r] = Append(drafts[r], f)
      /\ \A p \in Request : p # r => drafts'[p] = drafts[p]
      /\ Differs(o) => drafts'[r] = Append(drafts[r], f)
      /\ ~Differs(o) => drafts'[r] = drafts[r]
  BY <1>5 DEF TypeInv, TypeOK
<1>7. CASE q # r \/ z # y
  <2> HIDE DEF o, y
  <2> QED
    BY <1>1, <1>3, <1>4, <1>5, <1>6, <1>7, OthersStay
<1>8. CASE q = r /\ z = y
  <2>1. o.then = Current(r, y) /\ <<r, y>> \notin misread
    BY <1>4, <1>8 DEF UpdateWrite, Spoken
  <2>2. o.before = o.then /\ (y \in DOMAIN tx[r] => o.then = value[y])
    BY <1>2, <2>1 DEF TrailInv, ReadRight
  <2>3. /\ o.before = value[y] /\ value[y] # Absent
        /\ y \in DOMAIN tx[r] => tx[r][y] = value[y]
    BY <1>2, <2>1, <2>2 DEF Current
  <2>4. Differs(o) <=> o.new # value[y]
    BY <2>3 DEF Differs
  <2>5. Differs(o) => /\ f.old = value[y] /\ f.new = o.new
                      /\ f.action = Kind([over |-> value, wrote |-> tx'[r]], y)
    BY <1>3, <1>5, <2>3, <2>4 DEF Draft, Kind
  <2>6. Match(drafts[r], History(r), y, a)
    BY <1>4, <1>8 DEF DraftsTrue, Spoken
  <2> HIDE DEF o, y
  <2>7. z \in DOMAIN tx'[r] /\ (z \in DOMAIN tx[r] => tx[r][z] = value[z])
    BY <1>3, <1>8, <2>3
  <2>8. \/ tx'[r][z] = value[z] /\ drafts'[r] = drafts[r]
        \/ /\ tx'[r][z] # value[z] /\ drafts'[r] = Append(drafts[r], f)
           /\ f.rec = z /\ f.old = value[z] /\ f.new = tx'[r][z]
           /\ f.action = Kind([over |-> value, wrote |-> tx'[r]], z)
    BY <1>3, <1>5, <1>6, <1>8, <2>4, <2>5
  <2>9. f \in Change /\ Match(drafts[r], History(r), z, a) /\ commits'[r] = commits[r] /\ value' = value
    BY <1>4, <1>5, <1>8, <2>6
  <2>10. Match(drafts[r], History(r), z, a)'
    BY <2>7, <2>8, <2>9, RecordWritten
  <2> QED
    BY <1>8, <2>10
<1> QED
  BY <1>7, <1>8

LEMMA BulkDrafts ==
  ASSUME TypeInv, TrailInv, TypeInv', TrailInv', DraftsTrue,
         NEW r \in Request, NEW y \in Record, NEW v \in Held, BulkWrite(r, y, v)
  PROVE  DraftsTrue'
<1> SUFFICES ASSUME NEW q \in Request, NEW z \in Record, NEW a \in Action, ~Spoken(q, z)'
             PROVE  Match(drafts[q], History(q), z, a)'
  BY DEF DraftsTrue
<1>1. /\ Writing(r, y, v) /\ past' = past \cup {<<r, y>>}
      /\ UNCHANGED <<value, commits, drafts, undone, misread>>
  BY DEF BulkWrite
<1>2. /\ DOMAIN tx'[r] = DOMAIN tx[r] \cup {y}
      /\ \A x \in DOMAIN tx[r] : x # y => tx'[r][x] = tx[r][x]
      /\ \A p \in Request : p # r => tx'[p] = tx[p]
  BY <1>1, WritingType
<1>3. q # r \/ z # y
  BY <1>1 DEF Spoken
<1>4. Match(drafts[q], History(q), z, a)
  BY <1>1 DEF DraftsTrue, Spoken
<1>5. /\ z \in DOMAIN tx'[q] <=> z \in DOMAIN tx[q]
      /\ z \in DOMAIN tx[q] => tx'[q][z] = tx[q][z]
  BY <1>2, <1>3
<1> QED
  BY <1>1, <1>4, <1>5, RecordStays

LEMMA StepDrafts ==
  ASSUME TypeInv, TrailInv, TypeInv', TrailInv', DraftsTrue, [Next]_vars
  PROVE  DraftsTrue'
<1> USE DEF db, news, request, history, counts
<1>1. CASE UNCHANGED vars
  BY <1>1, DraftsIdle DEF vars
<1>2. CASE Crash
  <2>1. \A r \in Request : tx'[r] = Nothing /\ Undoing(r) \subseteq undone'
    BY <1>2 DEF Crash
  <2> QED
    BY <1>2, <2>1, DraftsIdle DEF Crash
<1>3. ASSUME NEW r \in Request, Work(r) PROVE DraftsTrue'
  <2>1. CASE Open(r) \/ Succeed(r) \/ Fail(r)
    BY <2>1, DraftsIdle DEF Open, Succeed, Fail
  <2>2. CASE Rollback(r)
    <3>1. /\ tx'[r] = Nothing /\ Undoing(r) \subseteq undone'
          /\ \A q \in Request : q # r => tx'[q] = tx[q]
      BY <2>2 DEF Rollback, TypeInv, TxInv
    <3> QED
      BY <2>2, <3>1, DraftsIdle DEF Rollback
  <2>3. ASSUME NEW y \in Record, NEW new \in Held, UpdateBefore(r, y, new) PROVE DraftsTrue'
    BY <2>3, DraftsIdle DEF UpdateBefore
  <2> QED
    BY <1>3, <2>1, <2>2, <2>3, UpdateDrafts, CommitDrafts, CreateDrafts, BulkDrafts DEF Work
<1>4. ASSUME NEW r \in Request, Announce(r) \/ Spoil(r) PROVE DraftsTrue'
  <2>1. UNCHANGED <<value, commits, drafts, tx, misread, undone, past>>
    BY <1>4 DEF Announce, Spoil, WriteEvent, Notify, Mail, RouteFails, EventFails, Fault
  <2> QED
    BY <2>1, DraftsIdle
<1> QED
  BY <1>1, <1>2, <1>3, <1>4 DEF Next

\* What the fold makes of the drafts of an answered request is real.
LEMMA FoldedIsReal ==
  ASSUME TypeInv, TrailInv, DraftsTrue, NEW r \in Request, tx[r] = Nothing,
         NEW e \in Folded(drafts[r]), ~Spoken(r, e.rec)
  PROVE  Real(r, e)
<1> DEFINE d == drafts[r]
<1>1. d \in Seq(Change)
  BY DEF TypeInv, TypeOK
<1>2. PICK i, j \in DOMAIN d : Ends(d, i, j) /\ e = [d[i] EXCEPT !.new = d[j].new]
  BY <1>1, FoldedFrom
<1>3. d[i] \in Change /\ DOMAIN d \subseteq Nat
  BY <1>1, <1>2
<1>4. e.rec = d[i].rec /\ e.action = d[i].action /\ e.old = d[i].old /\ e.new = d[j].new
  BY <1>2, <1>3 DEF Change
<1>5. PICK y \in Record, a \in Action : y = e.rec /\ a = e.action
  BY <1>3, <1>4 DEF Change, Action
<1>6. Spans(Drafted(d, y, a), i, j)
  BY <1>2, <1>4, <1>5 DEF Ends, Spans, Drafted
<1>7. Match(d, History(r), y, a)
  BY <1>5 DEF DraftsTrue
<1>8. PICK p \in Drafted(d, y, a), q \in Drafted(d, y, a),
           k \in Made(History(r), y, a), l \in Made(History(r), y, a) :
        /\ Spans(Drafted(d, y, a), p, q) /\ Spans(Made(History(r), y, a), k, l)
        /\ d[p].old = History(r)[k].over[y] /\ d[q].new = History(r)[l].wrote[y]
  BY <1>6, <1>7 DEF Match, Spans
<1>9. p = i /\ q = j
  <2>1. p <= i /\ i <= p /\ q <= j /\ j <= q
    BY <1>6, <1>8 DEF Spans
  <2>2. p \in Nat /\ q \in Nat /\ i \in Nat /\ j \in Nat
    BY <1>2, <1>3, <1>8 DEF Drafted
  <2> QED
    BY <2>1, <2>2
<1>10. Made(History(r), y, a) = Did(r, y, a) /\ \A m \in Did(r, y, a) : History(r)[m] = commits[r][m]
  <2>1. y \notin DOMAIN tx[r]
    BY DEF Nothing
  <2>2. /\ Made(History(r), y, a) =
             Did(r, y, a) \cup {m \in {Len(commits[r]) + 1} :
               y \in DOMAIN tx[r] /\ Kind([over |-> value, wrote |-> tx[r]], y) = a}
        /\ \A m \in Did(r, y, a) : History(r)[m] = commits[r][m]
    BY MadeNow
  <2> QED
    BY <2>1, <2>2
<1> HIDE DEF d
<1>11. /\ k \in Did(r, y, a) /\ l \in Did(r, y, a)
       /\ \A m \in Did(r, y, a) : k <= m /\ m <= l
       /\ commits[r][k].over[y] = e.old /\ commits[r][l].wrote[y] = e.new
  BY <1>4, <1>8, <1>9, <1>10 DEF Spans
<1> QED
  BY <1>5, <1>11 DEF Real

True(r, c) == Spoken(r, c.rec) \/ Real(r, c)

Heard(r) == {events[r][n] : n \in DOMAIN events[r]}

\* What was told, or is to be told, stays true: its request commits nothing any more.
LEMMA NewsStays ==
  ASSUME OnceInv, NewsInv, NewsIsTrue, undone \subseteq undone', misread \subseteq misread',
         past \subseteq past', \A r \in Request : ~Unanswered(r) => commits'[r] = commits[r],
         NEW r \in Request, NEW c \in todo[r] \cup Heard(r)
  PROVE  True(r, c)'
<1>1. CASE Unanswered(r)
  <2>1. todo[r] = {} /\ Heard(r) = {}
    BY <1>1 DEF OnceInv, NewsInv, Heard
  <2> QED
    BY <2>1
<1>2. CASE ~Unanswered(r)
  <2>1. commits'[r] = commits[r]
    BY <1>2
  <2>2. Did(r, c.rec, c.action)' = Did(r, c.rec, c.action)
    BY <2>1 DEF Did, Kind
  <2>3. Real(r, c) => Real(r, c)'
    BY <2>1, <2>2 DEF Real
  <2>4. True(r, c)
    BY DEF NewsInv, NewsIsTrue, True, Spoken, Heard
  <2> QED
    BY <2>3, <2>4 DEF True, Spoken
<1> QED
  BY <1>1, <1>2

\* What has been told and what is still to be told, all of it true, make the news true.
LEMMA NewsHolds ==
  ASSUME \A r \in Request : \A c \in todo'[r] \cup Heard(r)' : True(r, c)',
         \A r \in Request : pc'[r] \notin {"open", "write"} => tx'[r] = Nothing,
         \A r \in Request : Unanswered(r)' => todo'[r] = {}
  PROVE  NewsInv' /\ NewsIsTrue'
<1>1. NewsInv'
  BY DEF NewsInv, True, Spoken
<1>2. NewsIsTrue'
  <2> SUFFICES ASSUME NEW r \in Request, NEW n \in DOMAIN events'[r]
               PROVE  (<<r, events[r][n].rec>> \in undone \cup misread \cup past
                         \/ Real(r, events[r][n]))'
    BY DEF NewsIsTrue
  <2>1. PICK c : c = events'[r][n]
    OBVIOUS
  <2>2. c \in Heard(r)'
    BY <2>1 DEF Heard
  <2>3. True(r, c)'
    BY <2>2
  <2>4. (<<r, c.rec>> \in undone \cup misread \cup past \/ Real(r, c))'
    BY <2>3 DEF True, Spoken
  <2> QED
    BY <2>1, <2>4 DEF Real, Did, Kind
<1> QED
  BY <1>1, <1>2

\* Steps that tell nothing.
LEMMA NewsIdle ==
  ASSUME OnceInv, NewsInv, NewsIsTrue, undone \subseteq undone', misread \subseteq misread',
         past \subseteq past', \A r \in Request : ~Unanswered(r) => commits'[r] = commits[r],
         UNCHANGED events, \A r \in Request : todo'[r] \subseteq todo[r],
         \A r \in Request : pc'[r] \notin {"open", "write"} => tx'[r] = Nothing,
         \A r \in Request : Unanswered(r)' => Unanswered(r)
  PROVE  NewsInv' /\ NewsIsTrue'
<1>1. \A r \in Request : Heard(r)' = Heard(r)
  BY DEF Heard
<1>2. \A r \in Request : \A c \in todo'[r] \cup Heard(r)' : c \in todo[r] \cup Heard(r)
  BY <1>1
<1>3. \A r \in Request : \A c \in todo'[r] \cup Heard(r)' : True(r, c)'
  BY <1>2, NewsStays
<1>4. \A r \in Request : Unanswered(r)' => todo'[r] = {}
  BY DEF NewsInv
<1> QED
  BY <1>3, <1>4, NewsHolds

LEMMA SucceedNews ==
  ASSUME TypeInv, TrailInv, OnceInv, DraftsTrue, NewsInv, NewsIsTrue, NEW r \in Request, Succeed(r)
  PROVE  NewsInv' /\ NewsIsTrue'
<1>1. /\ pc[r] \in {"between", "rolled"} /\ pc'[r] = "flush" /\ todo'[r] = Folded(drafts[r])
      /\ \A q \in Request : q # r => pc'[q] = pc[q] /\ todo'[q] = todo[q]
      /\ UNCHANGED <<value, events, tx, drafts, commits, undone, misread, past>>
  BY DEF Succeed, TypeInv, TypeOK, db, news, request, history
<1>2. tx[r] = Nothing /\ Unanswered(r)
  BY <1>1 DEF NewsInv, Unanswered
<1>3. \A q \in Request : Heard(q)' = Heard(q)
  BY <1>1 DEF Heard
<1>4. \A q \in Request : \A c \in todo[q] \cup Heard(q) : True(q, c)'
  BY <1>1, NewsStays
<1>5. \A c \in todo'[r] : True(r, c)'
  <2> SUFFICES ASSUME NEW c \in Folded(drafts[r]), ~Spoken(r, c.rec)
               PROVE  Real(r, c)'
    BY <1>1 DEF True, Spoken
  <2>1. Real(r, c)
    BY <1>2, FoldedIsReal
  <2> QED
    <3>1. commits'[r] = commits[r]
      BY <1>1
    <3> DEFINE made(h) == {i \in DOMAIN h : c.rec \in DOMAIN h[i].wrote /\ Kind(h[i], c.rec) = c.action}
    <3>2. Did(r, c.rec, c.action) = made(commits[r]) /\ Did(r, c.rec, c.action)' = made(commits'[r])
      BY DEF Did, Kind
    <3>3. Did(r, c.rec, c.action)' = Did(r, c.rec, c.action)
      BY <3>1, <3>2, Zenon
    <3> QED
      BY <2>1, <3>1, <3>3, Zenon DEF Real
<1>6. \A q \in Request : \A c \in todo'[q] \cup Heard(q)' : True(q, c)'
  BY <1>1, <1>3, <1>4, <1>5
<1>7. \A q \in Request : Unanswered(q)' => Unanswered(q) /\ q # r
  BY <1>1 DEF Unanswered
<1>8. \A q \in Request : Unanswered(q)' => todo'[q] = {}
  BY <1>1, <1>7 DEF NewsInv
<1>9. \A q \in Request : pc'[q] \notin {"open", "write"} => tx'[q] = Nothing
  BY <1>1, <1>2 DEF NewsInv
<1> QED
  BY <1>6, <1>8, <1>9, NewsHolds

LEMMA WriteEventNews ==
  ASSUME TypeInv, OnceInv, NewsInv, NewsIsTrue, NEW r \in Request, NEW c \in todo[r], WriteEvent(r, c)
  PROVE  NewsInv' /\ NewsIsTrue'
<1>1. /\ todo'[r] = todo[r] \ {c} /\ events'[r] = Append(events[r], c)
      /\ pc[r] = "flush" /\ pc'[r] = "notify"
      /\ \A q \in Request : q # r => todo'[q] = todo[q] /\ events'[q] = events[q] /\ pc'[q] = pc[q]
      /\ UNCHANGED <<tx, commits, undone, misread, past>>
  BY DEF WriteEvent, Goto, TypeInv, TypeOK, request, history
<1>2. Heard(r)' \subseteq Heard(r) \cup {c}
  <2>1. events[r] \in Seq(Change) /\ c \in Change
    BY DEF TypeInv, TypeOK
  <2>2. \A n \in DOMAIN events'[r] :
          (n \in DOMAIN events[r] /\ events'[r][n] = events[r][n]) \/ events'[r][n] = c
    BY <1>1, <2>1
  <2> QED
    BY <2>2 DEF Heard
<1>3. \A q \in Request : q # r => Heard(q)' = Heard(q)
  BY <1>1 DEF Heard
<1>4. \A q \in Request : \A b \in todo'[q] \cup Heard(q)' : b \in todo[q] \cup Heard(q)
  BY <1>1, <1>2, <1>3
<1>5. \A q \in Request : \A b \in todo'[q] \cup Heard(q)' : True(q, b)'
  BY <1>1, <1>4, NewsStays
<1>6. \A q \in Request : Unanswered(q)' => Unanswered(q) /\ q # r
  BY <1>1 DEF Unanswered
<1>7. \A q \in Request : Unanswered(q)' => todo'[q] = {}
  BY <1>1, <1>6 DEF NewsInv
<1>8. \A q \in Request : pc'[q] \notin {"open", "write"} => tx'[q] = Nothing
  BY <1>1 DEF NewsInv
<1> QED
  BY <1>5, <1>7, <1>8, NewsHolds

LEMMA StepNews ==
  ASSUME TypeInv, TrailInv, OnceInv, DraftsTrue, NewsInv, NewsIsTrue, [Next]_vars
  PROVE  NewsInv' /\ NewsIsTrue'
<1> USE DEF db, news, request, history, counts
<1>1. CASE UNCHANGED vars
  BY <1>1, NewsIdle DEF vars, NewsInv, Unanswered
<1>2. CASE Crash
  <2>1. /\ UNCHANGED <<events, commits, misread, past>> /\ undone \subseteq undone'
        /\ \A r \in Request : tx'[r] = Nothing /\ todo'[r] = {}
    BY <1>2 DEF Crash
  <2>2. \A r \in Request : Unanswered(r)' => Unanswered(r)
    BY <1>2 DEF Crash, Unanswered, Busy
  <2> QED
    BY <2>1, <2>2, NewsIdle
<1>3. ASSUME NEW r \in Request, Work(r) PROVE NewsInv' /\ NewsIsTrue'
  <2>1. ASSUME Open(r) \/ UpdateWrite(r) \/ Commit(r) \/ Rollback(r) \/ Fail(r)
        PROVE NewsInv' /\ NewsIsTrue'
    <3>1. /\ UNCHANGED <<events, todo, past>> /\ undone \subseteq undone' /\ misread \subseteq misread'
          /\ Unanswered(r)
      BY <2>1 DEF Open, UpdateWrite, Commit, Rollback, Fail, Goto, Unanswered
    <3>2. \A q \in Request : (Unanswered(q)' => Unanswered(q)) /\ (q # r => pc'[q] = pc[q])
      BY <2>1 DEF Open, UpdateWrite, Commit, Rollback, Fail, Goto, Unanswered, TypeInv, TypeOK
    <3>3. \A q \in Request : q # r => tx'[q] = tx[q]
      BY <2>1 DEF Open, UpdateWrite, Writing, Commit, Rollback, Fail, TypeInv, TxInv
    <3>4. pc'[r] \notin {"open", "write"} => tx'[r] = Nothing
      BY <2>1 DEF Open, UpdateWrite, Commit, Rollback, Fail, Goto, TypeInv, TypeOK, TxInv, NewsInv
    <3>5. \A q \in Request : q # r => commits'[q] = commits[q]
      BY <2>1 DEF Open, UpdateWrite, Commit, Rollback, Fail, TrailInv, CommitsInv
    <3>6. \A q \in Request : pc'[q] \notin {"open", "write"} => tx'[q] = Nothing
      BY <3>2, <3>3, <3>4 DEF NewsInv
    <3> QED
      BY <3>1, <3>2, <3>5, <3>6, NewsIdle
  <2>2. ASSUME NEW y \in Record, NEW v \in Value, CreateRecord(r, y, v) PROVE NewsInv' /\ NewsIsTrue'
    <3>1. /\ UNCHANGED <<pc, events, todo, commits, undone, misread, past>> /\ pc[r] = "open"
          /\ \A q \in Request : q # r => tx'[q] = tx[q]
      BY <2>2 DEF CreateRecord, Writing, TypeInv, TxInv
    <3>2. \A q \in Request : (Unanswered(q)' => Unanswered(q))
                             /\ (pc'[q] \notin {"open", "write"} => tx'[q] = Nothing)
      BY <3>1 DEF Unanswered, NewsInv
    <3> QED
      BY <3>1, <3>2, NewsIdle
  <2>3. ASSUME NEW y \in Record, NEW new \in Held, UpdateBefore(r, y, new)
        PROVE NewsInv' /\ NewsIsTrue'
    <3>1. /\ UNCHANGED <<events, todo, commits, tx, undone, past>> /\ misread \subseteq misread'
          /\ pc[r] = "open" /\ pc'[r] = "write" /\ \A q \in Request : q # r => pc'[q] = pc[q]
      BY <2>3 DEF UpdateBefore, Goto, TypeInv, TypeOK
    <3>2. \A q \in Request : (Unanswered(q)' => Unanswered(q))
                             /\ (pc'[q] \notin {"open", "write"} => tx'[q] = Nothing)
      BY <3>1 DEF Unanswered, NewsInv
    <3> QED
      BY <3>1, <3>2, NewsIdle
  <2>4. ASSUME NEW y \in Record, NEW v \in Held, BulkWrite(r, y, v) PROVE NewsInv' /\ NewsIsTrue'
    <3>1. /\ UNCHANGED <<pc, events, todo, commits, undone, misread>> /\ past \subseteq past'
          /\ pc[r] = "open" /\ \A q \in Request : q # r => tx'[q] = tx[q]
      BY <2>4 DEF BulkWrite, Writing, TypeInv, TxInv, news
    <3>2. \A q \in Request : (Unanswered(q)' => Unanswered(q))
                             /\ (pc'[q] \notin {"open", "write"} => tx'[q] = Nothing)
      BY <3>1 DEF Unanswered, NewsInv
    <3> QED
      BY <3>1, <3>2, NewsIdle
  <2> QED
    BY <1>3, <2>1, <2>2, <2>3, <2>4, SucceedNews DEF Work
<1>4. ASSUME NEW r \in Request, Notify(r) \/ Mail(r) \/ RouteFails(r) \/ \E c \in todo[r] : EventFails(r, c)
      PROVE NewsInv' /\ NewsIsTrue'
  <2>1. /\ UNCHANGED <<events, commits, tx, undone, misread, past>>
        /\ pc[r] \in {"flush", "notify", "mail"} /\ pc'[r] \in {"flush", "mail"}
        /\ \A q \in Request : q # r => pc'[q] = pc[q]
    BY <1>4 DEF Notify, Mail, RouteFails, EventFails, Goto, TypeInv, TypeOK
  <2>2. \A q \in Request : todo'[q] \subseteq todo[q]
    BY <1>4 DEF Notify, Mail, RouteFails, EventFails, Others, TypeInv, TypeOK
  <2>3. \A q \in Request : (Unanswered(q)' => Unanswered(q))
                           /\ (pc'[q] \notin {"open", "write"} => tx'[q] = Nothing)
    BY <2>1 DEF Unanswered, NewsInv
  <2> QED
    BY <2>1, <2>2, <2>3, NewsIdle
<1> QED
  BY <1>1, <1>2, <1>3, <1>4, WriteEventNews DEF Next, Announce, Spoil

-----------------------------------------------------------------------------
(* All of it *)

\* A request has done this to a record, or its open transaction has.
Doing(r, y, a) ==
  \/ Did(r, y, a) # {}
  \/ y \in DOMAIN tx[r] /\ Kind([over |-> value, wrote |-> tx[r]], y) = a

Collected(r, y, a) == Drafted(drafts[r], y, a) # {}

Missed(r, y) == <<r, y>> \in misread \cup past

CollectedInv == \A r \in Request, y \in Record, a \in Action :
  Doing(r, y, a) => Missed(r, y) \/ Collected(r, y, a)

\* It is to be told, or being told, or a fault befell it.
Coming(r, y, a) ==
  \/ <<r, y, a>> \in untold
  \/ \E c \in todo[r] \cup InHand(r) : Key(c) = <<y, a>>

\* All a request did has been told, or is coming.
Covered(r) == \A y \in Record, a \in Action :
  Did(r, y, a) # {} => Missed(r, y) \/ Told(r, y, a) \/ Coming(r, y, a)

\* Every event but the one in hand has been mailed.
Tell(r) ==
  /\ mailed[r] <= Len(events[r])
  /\ Unanswered(r) => events[r] = <<>>
  /\ pc[r] = "flush" /\ todo[r] # {} => mailed[r] = Len(events[r])
  /\ pc[r] \in {"notify", "mail"} => mailed[r] + 1 = Len(events[r])
  /\ pc[r] \in {"flush", "notify", "mail"} => Covered(r)

TellInv == \A r \in Request : Tell(r)

\* Whatever was drafted is in the fold.
LEMMA FoldedAll ==
  ASSUME NEW d \in Seq(Change), NEW y, NEW a, Drafted(d, y, a) # {}
  PROVE  \E c \in Folded(d) : Key(c) = <<y, a>>
<1> DEFINE S == Drafted(d, y, a)
<1>1. S \in SUBSET Nat /\ Len(d) \in Nat /\ (\A k \in S : k <= Len(d)) /\ S \subseteq DOMAIN d
  BY DEF Drafted
<1>2. PICK i \in S : \A k \in S : i <= k
  <2> HIDE DEF S
  <2> QED  BY <1>1, LeastOne DEF S
<1>3. PICK j \in S : \A k \in S : k <= j
  <2> HIDE DEF S
  <2> QED  BY <1>1, GreatestOne DEF S
<1>4. d[i].rec = y /\ d[i].action = a /\ d[j].rec = y /\ d[j].action = a
  BY DEF Drafted
<1>5. Ends(d, i, j)
  BY <1>2, <1>3, <1>4 DEF Ends, Drafted
<1>6. i \in DOMAIN d /\ j \in DOMAIN d /\ d[i] \in Change /\ d[j] \in Change
  BY <1>1
<1> DEFINE c == [d[i] EXCEPT !.new = d[j].new]
<1>7. c \in Folded(d)
  <2>1. <<i, j>> \in {ij \in (DOMAIN d) \X (DOMAIN d) : Ends(d, ij[1], ij[2])}
    BY <1>5, <1>6
  <2>2. PICK p \in {ij \in (DOMAIN d) \X (DOMAIN d) : Ends(d, ij[1], ij[2])} : p = <<i, j>>
    BY <2>1
  <2>3. c = [d[p[1]] EXCEPT !.new = d[p[2]].new]
    BY <2>2
  <2> HIDE DEF c
  <2> QED
    BY <2>3 DEF Folded
<1>8. Key(c) = <<y, a>>
  BY <1>4, <1>6 DEF Key, Change
<1> QED
  BY <1>7, <1>8

\* A step after which nothing has been done to a record that had not been, unless it was
\* drafted, and no draft is lost.
LEMMA CollectedStays ==
  ASSUME CollectedInv, misread \subseteq misread', past \subseteq past',
         \A r \in Request, y \in Record, a \in Action :
           /\ Doing(r, y, a)' /\ ~Missed(r, y)' => Doing(r, y, a) \/ Collected(r, y, a)'
           /\ Collected(r, y, a) => Collected(r, y, a)'
  PROVE  CollectedInv'
BY DEF CollectedInv, Missed

\* A step that neither commits nor writes a record has done nothing to it.
LEMMA DoingIdle ==
  ASSUME NEW r \in Request, NEW y \in Record, NEW a \in Action, commits'[r] = commits[r],
         y \in DOMAIN tx'[r] =>
           y \in DOMAIN tx[r] /\ tx'[r][y] = tx[r][y] /\ value'[y] = value[y],
         Doing(r, y, a)'
  PROVE  Doing(r, y, a)
<1>1. CASE Did(r, y, a)' # {}
  BY <1>1 DEF Did, Kind, Doing
<1>2. CASE y \in DOMAIN tx'[r] /\ Kind([over |-> value', wrote |-> tx'[r]], y) = a
  BY <1>2 DEF Kind, Doing
<1> QED
  BY <1>1, <1>2 DEF Doing, Kind

\* Steps that commit and draft nothing, and do to a transaction nothing but undo it.
LEMMA CollectedIdle ==
  ASSUME CollectedInv, UNCHANGED <<value, commits, drafts>>, misread \subseteq misread',
         past \subseteq past', \A r \in Request : tx'[r] = tx[r] \/ tx'[r] = Nothing
  PROVE  CollectedInv'
<1>1. DOMAIN Nothing = {}
  BY DEF Nothing
<1>2. ASSUME NEW r \in Request, NEW y \in Record, NEW a \in Action, Doing(r, y, a)'
      PROVE Doing(r, y, a)
  BY <1>1, <1>2, DoingIdle
<1>3. \A r \in Request, y \in Record, a \in Action : Collected(r, y, a) => Collected(r, y, a)'
  BY DEF Collected, Drafted
<1> QED
  BY <1>2, <1>3, CollectedStays

\* Drafts only come.
LEMMA DraftsGrow ==
  ASSUME TypeInv, NEW r \in Request, NEW f,
         \/ drafts' = drafts
         \/ f \in Change /\ drafts' = [drafts EXCEPT ![r] = Append(@, f)]
  PROVE  /\ \A q \in Request, y \in Record, a \in Action : Collected(q, y, a) => Collected(q, y, a)'
         /\ drafts' # drafts => Collected(r, f.rec, f.action)'
<1>1. CASE drafts' = drafts
  BY <1>1 DEF Collected, Drafted
<1>2. CASE f \in Change /\ drafts' = [drafts EXCEPT ![r] = Append(@, f)]
  <2>1. /\ drafts'[r] = Append(drafts[r], f) /\ drafts[r] \in Drafts
        /\ \A q \in Request : q # r => drafts'[q] = drafts[q]
    BY <1>2 DEF TypeInv, TypeOK, Drafts
  <2>2. \A y, a : Drafted(drafts'[r], y, a) =
          Drafted(drafts[r], y, a) \cup {i \in {Len(drafts[r]) + 1} : f.rec = y /\ f.action = a}
    BY <2>1, DraftedAt
  <2>3. \A q \in Request, y \in Record, a \in Action : Collected(q, y, a) => Collected(q, y, a)'
    BY <2>1, <2>2 DEF Collected, Drafted
  <2>4. Drafted(drafts'[r], f.rec, f.action) # {}
    <3>1. Drafted(drafts'[r], f.rec, f.action) =
            Drafted(drafts[r], f.rec, f.action)
              \cup {i \in {Len(drafts[r]) + 1} : f.rec = f.rec /\ f.action = f.action}
      BY <1>2, <2>1, DraftedAt
    <3> QED
      BY <3>1
  <2>5. Collected(r, f.rec, f.action)'
    BY <2>4, Zenon DEF Collected, Drafted
  <2> QED
    BY <2>3, <2>5
<1> QED
  BY <1>1, <1>2

LEMMA CommitCollected ==
  ASSUME TypeInv, TrailInv, CollectedInv, NEW r \in Request, Commit(r)
  PROVE  CollectedInv'
<1> DEFINE c == [over |-> value, wrote |-> tx[r]]
<1>1. /\ UNCHANGED <<drafts, misread, past>> /\ tx' = [tx EXCEPT ![r] = Nothing]
      /\ commits' = [commits EXCEPT ![r] = Append(@, c)]
      /\ value' = [z \in Record |-> IF z \in DOMAIN tx[r] THEN tx[r][z] ELSE value[z]]
  BY DEF Commit
<1>2. DOMAIN tx'[r] = {} /\ \A q \in Request : q # r => tx'[q] = tx[q]
  BY <1>1, EmptiedType
<1>3. /\ commits[r] \in Seq([over : [Record -> Held], wrote : Records])
      /\ commits'[r] = Append(commits[r], c)
      /\ \A q \in Request : q # r => commits'[q] = commits[q]
  BY <1>1 DEF TrailInv, CommitsInv
<1>4. ASSUME NEW q \in Request, NEW y \in Record, NEW a \in Action, Doing(q, y, a)'
      PROVE  Doing(q, y, a)
  <2>1. CASE q # r
    <3>1. y \in DOMAIN tx[q] => y \notin DOMAIN tx[r]
      BY <2>1 DEF TrailInv, Locked
    <3>2. y \in DOMAIN tx'[q] =>
            y \in DOMAIN tx[q] /\ tx'[q][y] = tx[q][y] /\ value'[y] = value[y]
      BY <1>1, <1>2, <2>1, <3>1
    <3> QED
      BY <1>3, <1>4, <2>1, <3>2, DoingIdle
  <2>2. CASE q = r
    <3>1. Did(r, y, a)' # {}
      BY <1>2, <1>4, <2>2 DEF Doing
    <3>2. PICK i \in DOMAIN commits'[r] :
            y \in DOMAIN commits'[r][i].wrote /\ Kind(commits'[r][i], y) = a
      BY <3>1 DEF Did, Kind
    <3>3. \/ i \in DOMAIN commits[r] /\ commits'[r][i] = commits[r][i]
          \/ commits'[r][i] = c
      BY <1>3
    <3>4. CASE i \in DOMAIN commits[r] /\ commits'[r][i] = commits[r][i]
      BY <2>2, <3>2, <3>4 DEF Doing, Did
    <3>5. CASE commits'[r][i] = c
      BY <2>2, <3>2, <3>5 DEF Doing
    <3> QED
      BY <3>3, <3>4, <3>5
  <2> QED
    BY <2>1, <2>2
<1>5. \A q \in Request, y \in Record, a \in Action : Collected(q, y, a) => Collected(q, y, a)'
  BY <1>1 DEF Collected, Drafted
<1> QED
  BY <1>1, <1>4, <1>5, CollectedStays

\* A write of one record: what it makes of the record was drafted, or it is not vouched for.
LEMMA WriteCollected ==
  ASSUME TypeInv, CollectedInv, NEW r \in Request, NEW y \in Record, NEW v \in Held, Writing(r, y, v),
         UNCHANGED <<value, commits>>, misread \subseteq misread', past \subseteq past',
         NEW f,
         \/ drafts' = drafts
         \/ f \in Change /\ drafts' = [drafts EXCEPT ![r] = Append(@, f)],
         \/ Missed(r, y)'
         \/ Kind([over |-> value, wrote |-> tx'[r]], y) \notin Action
         \/ /\ drafts' = [drafts EXCEPT ![r] = Append(@, f)] /\ f.rec = y
            /\ f.action = Kind([over |-> value, wrote |-> tx'[r]], y)
  PROVE  CollectedInv'
<1>1. /\ DOMAIN tx'[r] = DOMAIN tx[r] \cup {y}
      /\ \A z \in DOMAIN tx[r] : z # y => tx'[r][z] = tx[r][z]
      /\ \A q \in Request : q # r => tx'[q] = tx[q]
  BY WritingType
<1>2. /\ \A q \in Request, z \in Record, a \in Action : Collected(q, z, a) => Collected(q, z, a)'
      /\ drafts' # drafts => Collected(r, f.rec, f.action)'
  BY DraftsGrow
<1>3. ASSUME NEW q \in Request, NEW z \in Record, NEW a \in Action, Doing(q, z, a)', ~Missed(q, z)'
      PROVE  Doing(q, z, a) \/ Collected(q, z, a)'
  <2>1. CASE q # r \/ z # y
    <3>1. z \in DOMAIN tx'[q] => z \in DOMAIN tx[q] /\ tx'[q][z] = tx[q][z] /\ value'[z] = value[z]
      BY <1>1, <2>1
    <3>2. commits'[q] = commits[q]
      OBVIOUS
    <3> QED
      BY <1>3, <3>1, <3>2, DoingIdle
  <2>2. CASE q = r /\ z = y
    <3>1. CASE Did(q, z, a)' # {}
      BY <3>1 DEF Did, Kind, Doing
    <3>2. CASE Kind([over |-> value, wrote |-> tx'[r]], y) = a
      <4>1. drafts' = [drafts EXCEPT ![r] = Append(@, f)] /\ f.rec = y /\ f.action = a
        BY <1>3, <2>2, <3>2
      <4>2. drafts'[r] # drafts[r]
        BY <4>1 DEF TypeInv, TypeOK
      <4>3. Collected(r, f.rec, f.action)'
        BY <1>2, <4>2
      <4> QED
        BY <2>2, <4>1, <4>3
    <3>3. Did(q, z, a)' # {} \/ Kind([over |-> value, wrote |-> tx'[r]], y) = a
      BY <1>3, <2>2 DEF Doing, Kind
    <3> QED
      BY <3>1, <3>2, <3>3
  <2> QED
    BY <2>1, <2>2
<1> QED
  BY <1>2, <1>3, CollectedStays

LEMMA UpdateCollected ==
  ASSUME TypeInv, TrailInv, CollectedInv, NEW r \in Request, UpdateWrite(r)
  PROVE  CollectedInv'
<1>0. PICK o, y : o = op[r] /\ y = o.rec
  OBVIOUS
<1> DEFINE k == Kind([over |-> value, wrote |-> tx'[r]], y)
<1>1. o \in [rec : Record, new : Held, before : Held, then : Held] /\ y \in Record /\ o.new \in Held
  BY <1>0 DEF TypeInv, TypeOK
<1>2. /\ Writing(r, y, o.new) /\ pc[r] = "write" /\ Current(r, y) # Absent
      /\ UNCHANGED <<value, commits, past>> /\ misread \subseteq misread'
  BY <1>0 DEF UpdateWrite, Goto
<1>3. tx'[r][y] = o.new
  BY <1>1, <1>2, WritingType
<1>4. CASE Missed(r, y)'
  <2>1. CASE Differs(o)
    <3>1. Draft(o) \in Change /\ drafts' = [drafts EXCEPT ![r] = Append(@, Draft(o))]
      BY <1>0, <1>1, <2>1, DraftIsChange DEF UpdateWrite, Collect
    <3> HIDE DEF k
    <3> QED
      BY <1>1, <1>2, <1>4, <3>1, WriteCollected
  <2>2. CASE ~Differs(o)
    <3>1. drafts' = drafts
      BY <1>0, <2>2 DEF UpdateWrite
    <3> HIDE DEF k
    <3> QED
      BY <1>1, <1>2, <1>4, <3>1, WriteCollected
  <2> QED
    BY <2>1, <2>2
<1>5. CASE ~Missed(r, y)'
  <2>1. o.then = Current(r, y) /\ <<r, y>> \notin misread
    BY <1>0, <1>2, <1>5 DEF UpdateWrite, Missed
  <2>2. o.before = o.then /\ (y \in DOMAIN tx[r] => o.then = value[y])
    BY <1>0, <1>2, <2>1 DEF TrailInv, ReadRight
  <2>3. o.before = value[y] /\ value[y] # Absent
    BY <1>2, <2>1, <2>2 DEF Current
  <2>4. CASE Differs(o)
    <3>1. Draft(o) \in Change /\ drafts' = [drafts EXCEPT ![r] = Append(@, Draft(o))]
      BY <1>0, <1>1, <2>4, DraftIsChange DEF UpdateWrite, Collect
    <3>2. Draft(o).rec = y /\ Draft(o).action = k
      BY <1>0, <1>3, <2>3, <2>4 DEF Draft, Kind, Differs
    <3> QED
      BY <1>1, <1>2, <3>1, <3>2, WriteCollected
  <2>5. CASE ~Differs(o)
    <3>1. drafts' = drafts
      BY <1>0, <2>5 DEF UpdateWrite
    <3>2. k \notin Action
      BY <1>3, <2>3, <2>5 DEF Kind, Differs, Action
    <3> QED
      BY <1>1, <1>2, <3>1, <3>2, WriteCollected
  <2> QED
    BY <2>4, <2>5
<1> QED
  BY <1>4, <1>5

LEMMA StepCollected ==
  ASSUME TypeInv, TrailInv, CollectedInv, [Next]_vars
  PROVE  CollectedInv'
<1> USE DEF db, news, request, history, counts
<1>1. CASE UNCHANGED vars
  BY <1>1, CollectedIdle DEF vars
<1>2. CASE Crash
  BY <1>2, CollectedIdle DEF Crash
<1>3. ASSUME NEW r \in Request, Work(r) PROVE CollectedInv'
  <2>1. CASE Open(r) \/ Succeed(r) \/ Fail(r)
    BY <2>1, CollectedIdle DEF Open, Succeed, Fail
  <2>2. CASE Rollback(r)
    <3>1. \A q \in Request : tx'[q] = tx[q] \/ tx'[q] = Nothing
      BY <2>2 DEF Rollback, TypeInv, TxInv
    <3> QED
      BY <2>2, <3>1, CollectedIdle DEF Rollback
  <2>3. ASSUME NEW y \in Record, NEW new \in Held, UpdateBefore(r, y, new) PROVE CollectedInv'
    BY <2>3, CollectedIdle DEF UpdateBefore
  <2>4. ASSUME NEW y \in Record, NEW v \in Value, CreateRecord(r, y, v) PROVE CollectedInv'
    <3> DEFINE f == [rec |-> y, action |-> "CREATE", old |-> Absent, new |-> v]
    <3>1. /\ ~Known(y) /\ Writing(r, y, v) /\ v \in Held /\ f \in Change
          /\ drafts' = [drafts EXCEPT ![r] = Append(@, f)]
          /\ UNCHANGED <<value, commits, misread, past>>
      BY <2>4 DEF CreateRecord, GiveOut, Collect, Known, Held, Change
    <3>2. value[y] = Absent /\ tx'[r][y] = v
      BY <3>1, WritingType DEF TrailInv, OnlyTheKnown
    <3>3. Kind([over |-> value, wrote |-> tx'[r]], y) = "CREATE"
      BY <3>2, RecordAssumption DEF Kind
    <3>4. f.rec = y /\ f.action = "CREATE"
      OBVIOUS
    <3> HIDE DEF f
    <3> QED
      BY <3>1, <3>3, <3>4, WriteCollected
  <2>5. ASSUME NEW y \in Record, NEW v \in Held, BulkWrite(r, y, v) PROVE CollectedInv'
    <3>1. /\ Writing(r, y, v) /\ Missed(r, y)' /\ past \subseteq past'
          /\ UNCHANGED <<value, commits, misread, drafts>>
      BY <2>5 DEF BulkWrite, Missed
    <3> QED
      BY <3>1, WriteCollected
  <2> QED
    BY <1>3, <2>1, <2>2, <2>3, <2>4, <2>5, UpdateCollected, CommitCollected DEF Work
<1>4. ASSUME NEW r \in Request, Announce(r) \/ Spoil(r) PROVE CollectedInv'
  <2>1. UNCHANGED <<value, commits, drafts, tx, misread, past>>
    BY <1>4 DEF Announce, Spoil, WriteEvent, Notify, Mail, RouteFails, EventFails, Fault
  <2> QED
    BY <2>1, CollectedIdle
<1> QED
  BY <1>1, <1>2, <1>3, <1>4 DEF Next

LEMMA DidStays ==
  ASSUME NEW r \in Request, NEW y, NEW a, commits'[r] = commits[r]
  PROVE  Did(r, y, a)' = Did(r, y, a)
BY DEF Did, Kind

\* What is told remains so.
LEMMA ToldStays ==
  ASSUME NEW r \in Request, NEW y, NEW a, Told(r, y, a),
         mailed[r] \in Nat, mailed'[r] \in Nat, mailed[r] <= mailed'[r],
         \A n \in 1 .. mailed[r] : events'[r][n] = events[r][n]
  PROVE  Told(r, y, a)'
<1>1. PICK n \in 1 .. mailed[r] : events[r][n].rec = y /\ events[r][n].action = a
  BY DEF Told
<1>2. n \in 1 .. mailed'[r] /\ events'[r][n].rec = y /\ events'[r][n].action = a
  BY <1>1
<1> QED
  BY <1>2 DEF Told

\* A step that leaves a request where it is.
LEMMA TellSame ==
  ASSUME TypeInv, NEW r \in Request, Tell(r), commits'[r] = commits[r], misread \subseteq misread',
         past \subseteq past', untold \subseteq untold', pc'[r] = pc[r], todo'[r] = todo[r],
         events'[r] = events[r], mailed'[r] = mailed[r]
  PROVE  Tell(r)'
<1>1. InHand(r)' = InHand(r)
  BY DEF InHand
<1>2. Covered(r) => Covered(r)'
  <2> SUFFICES ASSUME Covered(r), NEW y \in Record, NEW a \in Action, Did(r, y, a)' # {}
               PROVE  (Missed(r, y) \/ Told(r, y, a) \/ Coming(r, y, a))'
    BY DEF Covered
  <2>1. Missed(r, y) \/ Told(r, y, a) \/ Coming(r, y, a)
    BY DidStays DEF Covered
  <2>2. Told(r, y, a) => Told(r, y, a)'
    BY DEF Told
  <2>3. Coming(r, y, a) => Coming(r, y, a)'
    BY <1>1 DEF Coming, Key
  <2> QED
    BY <2>1, <2>2, <2>3 DEF Missed
<1> QED
  BY <1>2 DEF Tell, Unanswered

\* A request that is not answered, or never will be with success, has told nothing.
LEMMA TellUnanswered ==
  ASSUME TypeInv, NEW r \in Request, Tell(r), Unanswered(r), Unanswered(r)' \/ pc'[r] = "failed",
         events'[r] = events[r], mailed'[r] = mailed[r]
  PROVE  Tell(r)'
BY DEF Tell, Unanswered

LEMMA SucceedTell ==
  ASSUME TypeInv, CollectedInv, NEW r \in Request, Tell(r), Succeed(r)
  PROVE  Tell(r)'
<1>1. /\ pc[r] \in {"between", "rolled"} /\ pc'[r] = "flush" /\ todo'[r] = Folded(drafts[r])
      /\ UNCHANGED <<events, mailed, drafts, commits, misread, past>>
  BY DEF Succeed, TypeInv, TypeOK, news, request, history
<1>2. events[r] = <<>> /\ mailed[r] = 0
  BY <1>1 DEF Tell, Unanswered, TypeInv, TypeOK
<1>3. Covered(r)'
  <2> SUFFICES ASSUME NEW y \in Record, NEW a \in Action, Did(r, y, a)' # {}, ~Missed(r, y)'
               PROVE  Coming(r, y, a)'
    BY DEF Covered
  <2>1. Did(r, y, a) # {} /\ ~Missed(r, y)
    BY <1>1, DidStays DEF Missed
  <2>2. Drafted(drafts[r], y, a) # {}
    BY <2>1 DEF CollectedInv, Doing, Collected
  <2>3. drafts[r] \in Seq(Change)
    BY DEF TypeInv, TypeOK
  <2>4. PICK c \in Folded(drafts[r]) : Key(c) = <<y, a>>
    BY <2>2, <2>3, FoldedAll
  <2>5. c \in todo'[r]
    BY <1>1, <2>4
  <2> QED
    BY <2>4, <2>5 DEF Coming, Key
<1> QED
  BY <1>1, <1>2, <1>3 DEF Tell, Unanswered

LEMMA WriteEventTell ==
  ASSUME TypeInv, NEW r \in Request, Tell(r), NEW c \in todo[r], WriteEvent(r, c)
  PROVE  Tell(r)'
<1>1. /\ pc[r] = "flush" /\ pc'[r] = "notify" /\ todo'[r] = todo[r] \ {c}
      /\ events'[r] = Append(events[r], c)
      /\ UNCHANGED <<mailed, commits, misread, past, untold>>
  BY DEF WriteEvent, Goto, TypeInv, TypeOK, history
<1>2. /\ events[r] \in Seq(Change) /\ c \in Change /\ mailed[r] \in Nat /\ mailed[r] = Len(events[r])
  BY <1>1 DEF Tell, TypeInv, TypeOK
<1>3. /\ Len(events'[r]) = Len(events[r]) + 1 /\ events'[r][Len(events'[r])] = c
      /\ \A n \in 1 .. mailed[r] : events'[r][n] = events[r][n]
  BY <1>1, <1>2
<1>4. InHand(r)' = {c} /\ InHand(r) = {}
  BY <1>1, <1>3 DEF InHand
<1>5. Covered(r)'
  <2> SUFFICES ASSUME NEW y \in Record, NEW a \in Action, Did(r, y, a)' # {}
               PROVE  (Missed(r, y) \/ Told(r, y, a) \/ Coming(r, y, a))'
    BY DEF Covered
  <2>1. Missed(r, y) \/ Told(r, y, a) \/ Coming(r, y, a)
    BY <1>1, DidStays DEF Covered, Tell
  <2>2. Told(r, y, a) => Told(r, y, a)'
    BY <1>1, <1>2, <1>3, ToldStays
  <2>3. Coming(r, y, a) => Coming(r, y, a)'
    BY <1>1, <1>4 DEF Coming, Key
  <2> QED
    BY <1>1, <2>1, <2>2, <2>3 DEF Missed
<1> QED
  BY <1>1, <1>2, <1>3, <1>5 DEF Tell, Unanswered

LEMMA MailTell ==
  ASSUME TypeInv, NEW r \in Request, Tell(r), Mail(r)
  PROVE  Tell(r)'
<1>1. /\ pc[r] = "mail" /\ pc'[r] = "flush" /\ mailed'[r] = mailed[r] + 1
      /\ UNCHANGED <<events, todo, commits, misread, past, untold>>
  BY DEF Mail, Goto, TypeInv, TypeOK, history
<1>2. events[r] \in Seq(Change) /\ mailed[r] \in Nat /\ mailed[r] + 1 = Len(events[r])
  BY <1>1 DEF Tell, TypeInv, TypeOK
<1>3. Covered(r)'
  <2> SUFFICES ASSUME NEW y \in Record, NEW a \in Action, Did(r, y, a)' # {}
               PROVE  (Missed(r, y) \/ Told(r, y, a) \/ Coming(r, y, a))'
    BY DEF Covered
  <2>1. Missed(r, y) \/ Told(r, y, a) \/ Coming(r, y, a)
    BY <1>1, DidStays DEF Covered, Tell
  <2>2. Told(r, y, a) => Told(r, y, a)'
    BY <1>1, <1>2, ToldStays
  <2>3. CASE <<r, y, a>> \in untold \/ \E c \in todo[r] : Key(c) = <<y, a>>
    BY <1>1, <2>3 DEF Coming, Key
  <2>4. CASE \E c \in InHand(r) : Key(c) = <<y, a>>
    <3>1. Key(events[r][Len(events[r])]) = <<y, a>>
      BY <1>1, <2>4 DEF InHand
    <3>2. /\ events'[r][mailed'[r]].rec = y /\ events'[r][mailed'[r]].action = a
          /\ mailed'[r] \in 1 .. mailed'[r]
      BY <1>1, <1>2, <3>1 DEF Key
    <3> QED
      BY <3>2 DEF Told
  <2> QED
    BY <1>1, <2>1, <2>2, <2>3, <2>4 DEF Missed, Coming
<1> QED
  BY <1>1, <1>2, <1>3 DEF Tell, Unanswered

\* Changes dropped by a fault are known to have been.
LEMMA DroppedTell ==
  ASSUME TypeInv, NEW r \in Request, Tell(r), pc'[r] = "flush",
         pc[r] \in {"flush", "notify", "mail"}, todo'[r] \subseteq todo[r],
         pc[r] # "flush" => todo'[r] = {}, untold \subseteq untold',
         Silenced(r, (todo[r] \cup InHand(r)) \ todo'[r]) \subseteq untold',
         UNCHANGED <<events, mailed, commits, misread, past>>
  PROVE  Tell(r)'
<1>1. mailed[r] \in Nat /\ Len(events[r]) \in Nat
  BY DEF TypeInv, TypeOK
<1>2. Covered(r)'
  <2> SUFFICES ASSUME NEW y \in Record, NEW a \in Action, Did(r, y, a)' # {}
               PROVE  (Missed(r, y) \/ Told(r, y, a) \/ Coming(r, y, a))'
    BY DEF Covered
  <2>1. Missed(r, y) \/ Told(r, y, a) \/ Coming(r, y, a)
    BY DidStays DEF Covered, Tell
  <2>2. Told(r, y, a) => Told(r, y, a)'
    BY <1>1, ToldStays
  <2>3. ASSUME NEW c \in todo[r] \cup InHand(r), Key(c) = <<y, a>>
        PROVE  Coming(r, y, a)'
    <3>1. CASE c \in todo'[r]
      BY <2>3, <3>1 DEF Coming, Key
    <3>2. CASE c \notin todo'[r]
      <4>1. <<r, c.rec, c.action>> \in untold'
        BY <3>2 DEF Silenced
      <4> QED
        BY <2>3, <4>1 DEF Coming, Key
    <3> QED
      BY <3>1, <3>2
  <2> QED
    BY <2>1, <2>2, <2>3 DEF Missed, Coming
<1> QED
  BY <1>1, <1>2 DEF Tell, Unanswered

LEMMA CrashTell ==
  ASSUME TypeInv, NEW r \in Request, Tell(r), Crash
  PROVE  Tell(r)'
<1>1. /\ pc'[r] = IF Busy(r) THEN "failed" ELSE pc[r]
      /\ todo'[r] = {} /\ untold \subseteq untold'
      /\ UNCHANGED <<events, mailed, commits, misread, past>>
  BY DEF Crash, news
<1>2. CASE Busy(r)
  BY <1>1, <1>2 DEF Tell, Unanswered
<1>3. CASE ~Busy(r) /\ pc[r] = "flush"
  BY <1>1, <1>3, TellSame DEF Busy
<1>4. CASE ~Busy(r) /\ pc[r] # "flush"
  BY <1>1, <1>4 DEF Busy, Tell, Unanswered
<1> QED
  BY <1>2, <1>3, <1>4

LEMMA StepTell ==
  ASSUME TypeInv, TrailInv, CollectedInv, TellInv, [Next]_vars
  PROVE  TellInv'
<1> USE DEF db, news, request, history, counts
<1> SUFFICES ASSUME NEW q \in Request PROVE Tell(q)'
  BY DEF TellInv
<1>t. Tell(q)
  BY DEF TellInv
<1>1. CASE UNCHANGED vars
  BY <1>1, <1>t, TellSame DEF vars
<1>2. CASE Crash
  BY <1>2, <1>t, CrashTell
<1>3. ASSUME NEW r \in Request, Work(r) PROVE Tell(q)'
  <2>1. ASSUME ~Succeed(r)
        PROVE  /\ UNCHANGED <<events, mailed, todo, untold>>
               /\ misread \subseteq misread' /\ past \subseteq past'
               /\ Unanswered(r) /\ (Unanswered(r)' \/ pc'[r] = "failed")
               /\ \A p \in Request : p # r => pc'[p] = pc[p] /\ commits'[p] = commits[p]
    <3>1. CASE Open(r) \/ Rollback(r) \/ Fail(r)
      BY <3>1 DEF Open, Rollback, Fail, Unanswered, TypeInv, TypeOK
    <3>2. CASE UpdateWrite(r)
      BY <3>2 DEF UpdateWrite, Goto, Unanswered, TypeInv, TypeOK
    <3>3. CASE Commit(r)
      BY <3>3 DEF Commit, Goto, Unanswered, TypeInv, TypeOK, TrailInv, CommitsInv
    <3>4. ASSUME NEW y \in Record, NEW v \in Value, CreateRecord(r, y, v)
          PROVE  /\ UNCHANGED <<events, mailed, todo, untold, misread, past, pc, commits>>
                 /\ pc[r] = "open"
      BY <3>4 DEF CreateRecord
    <3>5. ASSUME NEW y \in Record, NEW v \in Held, BulkWrite(r, y, v)
          PROVE  /\ UNCHANGED <<events, mailed, todo, untold, misread, pc, commits>>
                 /\ past \subseteq past' /\ pc[r] = "open"
      BY <3>5 DEF BulkWrite
    <3>6. ASSUME NEW y \in Record, NEW v \in Held, UpdateBefore(r, y, v)
          PROVE  /\ UNCHANGED <<events, mailed, todo, untold, past, commits>>
                 /\ misread \subseteq misread' /\ pc[r] = "open" /\ pc'[r] = "write"
                 /\ \A p \in Request : p # r => pc'[p] = pc[p]
      BY <3>6 DEF UpdateBefore, Goto, TypeInv, TypeOK
    <3> QED
      BY <1>3, <2>1, <3>1, <3>2, <3>3, <3>4, <3>5, <3>6 DEF Work, Unanswered
  <2>2. CASE Succeed(r) /\ q = r
    BY <1>t, <2>2, SucceedTell
  <2>3. CASE Succeed(r) /\ q # r
    BY <1>t, <2>3, TellSame DEF Succeed, TypeInv, TypeOK
  <2>4. CASE ~Succeed(r) /\ q = r
    BY <1>t, <2>1, <2>4, TellUnanswered
  <2>5. CASE ~Succeed(r) /\ q # r
    BY <1>t, <2>1, <2>5, TellSame
  <2> QED
    BY <2>2, <2>3, <2>4, <2>5
<1>4. ASSUME NEW r \in Request, Announce(r) \/ Spoil(r) PROVE Tell(q)'
  <2>1. CASE q # r
    <3>1. /\ UNCHANGED <<commits, misread, past>> /\ untold \subseteq untold'
          /\ pc'[q] = pc[q] /\ todo'[q] = todo[q]
          /\ events'[q] = events[q] /\ mailed'[q] = mailed[q]
      BY <1>4, <2>1 DEF Announce, Spoil, WriteEvent, Notify, Mail, RouteFails, EventFails, Goto,
                        TypeInv, TypeOK
    <3> QED
      BY <1>t, <3>1, TellSame
  <2>2. CASE q = r /\ \E c \in todo[r] : WriteEvent(r, c)
    BY <1>t, <2>2, WriteEventTell
  <2>3. CASE q = r /\ Notify(r)
    <3>1. /\ pc[r] = "notify" /\ pc'[r] = "mail"
          /\ UNCHANGED <<events, mailed, todo, commits, misread, past, untold>>
      BY <2>3 DEF Notify, Goto, TypeInv, TypeOK
    <3>2. InHand(r)' = InHand(r)
      BY <3>1 DEF InHand
    <3>3. Covered(r)'
      <4> SUFFICES ASSUME NEW y \in Record, NEW a \in Action, Did(r, y, a)' # {}
                   PROVE  (Missed(r, y) \/ Told(r, y, a) \/ Coming(r, y, a))'
        BY DEF Covered
      <4>1. Missed(r, y) \/ Told(r, y, a) \/ Coming(r, y, a)
        BY <1>t, <2>3, <3>1, DidStays DEF Covered, Tell
      <4> QED
        BY <3>1, <3>2, <4>1 DEF Missed, Told, Coming, Key
    <3> QED
      BY <1>t, <2>3, <3>1, <3>3 DEF Tell, Unanswered
  <2>4. CASE q = r /\ Mail(r)
    BY <1>t, <2>4, MailTell
  <2>5. CASE q = r /\ RouteFails(r)
    <3>1. /\ pc[r] \in {"flush", "notify", "mail"} /\ pc'[r] = "flush" /\ todo'[r] = {}
          /\ untold' = untold \cup Silenced(r, todo[r] \cup InHand(r))
          /\ UNCHANGED <<events, mailed, commits, misread, past>>
      BY <2>5 DEF RouteFails, TypeInv, TypeOK
    <3> QED
      BY <1>t, <2>5, <3>1, DroppedTell
  <2>6. CASE q = r /\ \E c \in todo[r] : EventFails(r, c)
    <3>1. PICK c \in todo[r] : EventFails(r, c)
      BY <2>6
    <3>2. /\ pc[r] = "flush" /\ pc'[r] = "flush" /\ todo'[r] = todo[r] \ {c}
          /\ untold' = untold \cup Silenced(r, {c})
          /\ UNCHANGED <<events, mailed, commits, misread, past>>
      BY <3>1 DEF EventFails, Others, TypeInv, TypeOK
    <3>3. InHand(r) = {} /\ (todo[r] \cup InHand(r)) \ todo'[r] = {c}
      BY <3>2 DEF InHand
    <3> QED
      BY <1>t, <2>6, <3>2, <3>3, DroppedTell
  <2> QED
    BY <1>4, <2>1, <2>2, <2>3, <2>4, <2>5, <2>6 DEF Announce, Spoil
<1> QED
  BY <1>1, <1>2, <1>3, <1>4 DEF Next

-----------------------------------------------------------------------------
(* The theorems *)

IInv == TypeInv /\ HandInv /\ OnceInv /\ TrailInv

\* Every reachable state satisfies the inductive invariant.
THEOREM Invariance == Spec => []IInv
<1>1. Init => OnceInv /\ HandInv
  BY DEF Init, OnceInv, HandInv
<1>2. Init => IInv
  BY <1>1, InitType, InitTrail DEF IInv
<1>3. IInv /\ [Next]_vars => IInv'
  BY StepType, StepHand, StepOnce, StepTrail DEF IInv
<1> QED
  BY <1>2, <1>3, PTL DEF Spec

\* Drafts, events and the trail keep their types: a creation has no old value, a deletion
\* no new one, an update both (auditMiddleware).
THEOREM TypeCorrect == Spec => []TypeOK
BY Invariance, PTL DEF IInv, TypeInv

\* A record is news once for each kind of change, however often its transaction was run
\* (foldChanges).
THEOREM NewsOnce == Spec => []ToldOnce
<1>1. IInv => ToldOnce
  BY DEF IInv, OnceInv, ToldOnce, Key
<1> QED
  BY <1>1, Invariance, PTL

\* Every committed update, and every creation and deletion of an account or a role, has its
\* audit row, with the value it replaced, unless the row was misread, its audit row was
\* lost, or the request wrote it past the middleware (auditMiddleware).
THEOREM UpdatesAreAudited == Spec => []TrailIsComplete
<1>1. IInv => TrailIsComplete
  BY DEF IInv, TrailInv
<1> QED
  BY <1>1, Invariance, PTL

\* What is announced really happened, from the first value to the last, whatever the other
\* requests did meanwhile and however often a transaction was run again: but for the records
\* of an undone transaction, those that were misread, and those the request also wrote past
\* the middleware.
THEOREM NewsStaysTrue == Spec => []NewsIsTrue
<1>1. Init => TrueInv
  <2> SUFFICES ASSUME Init PROVE TrueInv
    OBVIOUS
  <2>1. \A r \in Request : /\ drafts[r] = <<>> /\ commits[r] = <<>> /\ events[r] = <<>>
                           /\ todo[r] = {} /\ tx[r] = Nothing /\ pc[r] = "idle"
    BY DEF Init
  <2>2. DraftsTrue
    <3> SUFFICES ASSUME NEW r \in Request, NEW y \in Record, NEW a \in Action
                 PROVE  Match(drafts[r], History(r), y, a)
      BY DEF DraftsTrue
    <3>1. Drafted(drafts[r], y, a) = {}
      BY <2>1 DEF Drafted
    <3>2. \A i \in DOMAIN History(r) : y \notin DOMAIN History(r)[i].wrote
      BY <2>1 DEF History, Nothing
    <3>3. Made(History(r), y, a) = {}
      BY <3>2 DEF Made
    <3> QED
      BY <3>1, <3>3 DEF Match
  <2>3. NewsInv /\ NewsIsTrue
    BY <2>1 DEF NewsInv, NewsIsTrue
  <2> QED
    BY <2>2, <2>3 DEF TrueInv
<1>2. IInv /\ IInv' /\ TrueInv /\ [Next]_vars => TrueInv'
  BY StepDrafts, StepNews DEF IInv, TrueInv
<1>3. TrueInv => NewsIsTrue
  BY DEF TrueInv
<1> QED
  BY <1>1, <1>2, <1>3, Invariance, PTL DEF Spec

\* Once a successful request's changes are through, each kind of change it committed to a
\* record has been announced and mailed, but for the rows misread or written past the
\* middleware, and the changes a fault befell, or a failed look-up of whom to tell took
\* along (flushChanges, recordChanges).
THEOREM EverythingIsAnnounced == Spec => []AllAnnounced
<1>1. Init => CollectedInv /\ TellInv
  <2> SUFFICES ASSUME Init PROVE CollectedInv /\ TellInv
    OBVIOUS
  <2>1. \A r \in Request : /\ commits[r] = <<>> /\ events[r] = <<>> /\ mailed[r] = 0
                           /\ DOMAIN tx[r] = {} /\ pc[r] = "idle"
    BY DEF Init, Nothing
  <2>2. \A r \in Request : \A y, a : ~Doing(r, y, a)
    BY <2>1 DEF Doing, Did
  <2> QED
    BY <2>1, <2>2 DEF CollectedInv, TellInv, Tell
<1>2. IInv /\ CollectedInv /\ TellInv /\ [Next]_vars => CollectedInv' /\ TellInv'
  BY StepCollected, StepTell DEF IInv
<1>3. TellInv => AllAnnounced
  <2> SUFFICES ASSUME TellInv, NEW r \in Request, pc[r] = "flush", todo[r] = {},
                      NEW y \in Record, NEW a \in Action, Did(r, y, a) # {}
               PROVE  <<r, y>> \in misread \cup past \/ <<r, y, a>> \in untold \/ Told(r, y, a)
    BY DEF AllAnnounced, AllTold
  <2>1. Missed(r, y) \/ Told(r, y, a) \/ Coming(r, y, a)
    BY DEF TellInv, Tell, Covered
  <2>2. Coming(r, y, a) => <<r, y, a>> \in untold
    BY DEF Coming, InHand
  <2> QED
    BY <2>1, <2>2 DEF Missed
<1> QED
  BY <1>1, <1>2, <1>3, Invariance, PTL DEF Spec

=============================================================================
