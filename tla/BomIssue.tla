------------------------------ MODULE BomIssue ------------------------------
(***************************************************************************)
(* What a bill-of-materials line has been issued, and the log of how:       *)
(* routes/materials.ts (issue a line, type its figure, save, add and remove *)
(* lines) and the linking of a line to a material in routes/inventory.ts.   *)
(*                                                                          *)
(* A line has a figure and a log of differences that should add up to it.   *)
(* A line linked to a material of the catalogue moves stock as well: these  *)
(* routes call the inventory service, which moves stock and figure in a     *)
(* transaction of its own, and write the log in a later one.  Removing and  *)
(* linking read whether the line has a history, and write later.            *)
(* One order, one material.                                                 *)
(***************************************************************************)
EXTENDS Integers, FiniteSets, FiniteSetsExt, Functions

CONSTANTS
  Person,       \* people, one request in flight each
  Item,         \* lines there are at first, and those to come
  Listed,       \* those there are at first
  MaxEntry,     \* bound: one quantity, one figure typed
  MaxFigure,    \* bound: one line's figure, and all that is out
  MaxRequests   \* bound: requests made

ASSUME LineAssumption == Listed \subseteq Item
ASSUME BoundAssumption == MaxEntry \in Nat /\ MaxFigure \in Nat /\ MaxRequests \in Nat

VARIABLES
  born, there,   \* lines ever written, and those there are
  linked,        \* bom_items.materialId: lines linked to the material
  figure,        \* bom_items.issuedQty
  log, logged,   \* material_issues: their sum per line, and the lines that have any
  held,          \* lines with a reservation or a request open
  out,           \* the order's ISSUE less RETURN movements of the material
  step, job,     \* per session: where its request is, and what it works from
  blamed,        \* history: lines whose log parted from their figure in a way named below
  requests       \* history: how many were begun

lines == <<born, there, linked>>
books == <<figure, log, logged>>
marks == <<blamed, requests>>
bomVars == <<lines, books, held, out, step, job, marks>>

-----------------------------------------------------------------------------
NoJob == [on |-> {}, was |-> 0, delta |-> 0, linked |-> FALSE, clean |-> TRUE]

Begin(s, at, j) ==
  /\ step[s] = "idle" /\ requests < MaxRequests
  /\ j.on \in there
  /\ step' = [step EXCEPT ![s] = at]
  /\ job' = [job EXCEPT ![s] = j]
  /\ requests' = requests + 1
  /\ UNCHANGED <<lines, books, held, out, blamed>>

End(s) == step' = [step EXCEPT ![s] = "idle"] /\ job' = [job EXCEPT ![s] = NoJob]

Plus(f, n, d) == [f EXCEPT ![n] = @ + d]

\* A figure and its log move together, in one transaction.
Book(n, d) ==
  /\ figure' = Plus(figure, n, d) /\ figure'[n] <= MaxFigure
  /\ log' = Plus(log, n, d)
  /\ logged' = IF d = 0 THEN logged ELSE logged \cup {n}

\* Nothing was ever issued against the line, and nothing is kept for it.
Untouched(n) == figure[n] = 0 /\ n \notin logged /\ n \notin held

-----------------------------------------------------------------------------
(* Issuing a line, and typing its figure (setIssuedQty, from a save of a    *)
(* linked line or from PATCH)                                               *)

Ask(s, at, n, d) ==
  Begin(s, at, [on |-> n, was |-> figure[n], delta |-> d, linked |-> n \in linked, clean |-> TRUE])

Issue(s, n, q) == Ask(s, "issue", n, q)

Correct(s, n, v) == v # figure[n] /\ Ask(s, "correct", n, v - figure[n])

\* Mutant of IssuedAfter: the figure is not kept from going below zero.
IssuedUnfloored(n, d) == figure[n] + d

\* A line's figure once the inventory service has moved d.
IssuedAfter(n, d) == Max({0, figure[n] + d})

\* issueToProduction or returnFromProduction, told to leave the log alone.  More comes
\* back than the line has when somebody else returned from it since its figure was read.
MoveStock(s) ==
  LET n == job[s].on
      d == job[s].delta
  IN  /\ step[s] \in {"issue", "correct"} /\ job[s].linked
      /\ n \in linked /\ out + d \in 0 .. MaxFigure
      /\ figure' = [figure EXCEPT ![n] = IssuedAfter(n, d)] /\ figure'[n] <= MaxFigure
      /\ out' = out + d
      /\ blamed' = IF figure[n] + d < 0 THEN blamed \cup {n} ELSE blamed
      /\ step' = [step EXCEPT ![s] = IF @ = "issue" THEN "log" ELSE "settle"]
      /\ UNCHANGED <<lines, log, logged, held, job, requests>>

\* Mutant of Settled: the figure as it was typed, whatever was issued meanwhile.
AsTyped(j, now) == j.was + j.delta

\* The figure typed, and what was issued or returned while stock was moving.
Settled(j, now) ==
  LET typed == j.was + j.delta
      meanwhile == now - (j.was + j.delta)
  IN  typed + meanwhile

\* The log row, in a transaction of its own; a correction writes the figure again, under
\* the line's lock.
WriteLog(s) ==
  LET n == job[s].on
  IN  /\ step[s] \in {"log", "settle"} /\ n \in there /\ End(s)
      /\ figure' = IF step[s] = "log" THEN figure
                   ELSE [figure EXCEPT ![n] = Settled(job[s], figure[n])]
      /\ log' = Plus(log, n, job[s].delta)
      /\ logged' = logged \cup {n}
      /\ UNCHANGED <<lines, held, out, marks>>

\* For a line that was linked to nothing when it was read: relative to what it has now, or
\* up or down to what was typed.
Difference(s) ==
  IF step[s] = "issue" THEN job[s].delta ELSE job[s].was + job[s].delta - figure[job[s].on]

\* Such a line is booked under its lock.
BookDirectly(s) ==
  LET n == job[s].on
  IN  /\ step[s] \in {"issue", "correct"} /\ ~job[s].linked /\ n \in there /\ End(s)
      /\ Book(n, Difference(s))
      /\ UNCHANGED <<lines, held, out, marks>>

-----------------------------------------------------------------------------
(* Saving the whole bill: a line linked to nothing                          *)

\* The save's transaction reads the figure (the bill and its links were read a moment
\* before it began; here both are read at once),
SaveRead(s, n, v) == n \notin linked /\ Ask(s, "save", n, v - figure[n])

\* and writes the one typed, with the difference from what it read.
SaveWrite(s) ==
  LET n == job[s].on
      d == job[s].delta
  IN  /\ step[s] = "save" /\ n \in there /\ End(s)
      /\ IF d = 0 THEN UNCHANGED <<books, blamed>>
         ELSE /\ figure' = [figure EXCEPT ![n] = job[s].was + d]
              /\ log' = Plus(log, n, d)
              /\ logged' = logged \cup {n}
              /\ blamed' = IF figure[n] # job[s].was THEN blamed \cup {n} ELSE blamed
      /\ UNCHANGED <<lines, held, out, requests>>

\* A new line, linked to nothing: saved with the bill it is logged, added by itself not.
AddLine(n, v, withBill) ==
  /\ n \notin born
  /\ born' = born \cup {n} /\ there' = there \cup {n}
  /\ figure' = [figure EXCEPT ![n] = v]
  /\ IF withBill /\ v > 0
     THEN log' = [log EXCEPT ![n] = v] /\ logged' = logged \cup {n} /\ UNCHANGED blamed
     ELSE /\ blamed' = IF v > 0 THEN blamed \cup {n} ELSE blamed
          /\ UNCHANGED <<log, logged>>
  /\ UNCHANGED <<linked, held, out, step, job, requests>>

-----------------------------------------------------------------------------
(* Removing a line, and linking it                                          *)

\* bomRemovalBlocker, and the same questions of the linking route.
Claimed(n) == figure[n] > 0 \/ n \in logged \/ n \in held

\* With a save, by itself, or to link it to the material or to none.
ClaimCheck(s, at, n) ==
  /\ ~Claimed(n)
  /\ Begin(s, at, [on |-> n, was |-> 0, delta |-> 0, linked |-> n \in linked,
                   clean |-> Untouched(n)])

\* The log rows go with the line; movements and reservations stay, naming none.
Vanish(s, n) ==
  /\ n \in there /\ End(s)
  /\ there' = there \ {n} /\ linked' = linked \ {n}
  /\ figure' = [figure EXCEPT ![n] = 0] /\ log' = [log EXCEPT ![n] = 0]
  /\ logged' = logged \ {n} /\ held' = held \ {n}
  /\ blamed' = blamed \ {n}
  /\ UNCHANGED <<born, out, requests>>

\* Mutant of StillFree: the rows are deleted by id.
ById(n) == TRUE

\* What a save's deleteMany asks again.
StillFree(n) == n \notin logged /\ n \notin held

RemoveWrite(s) == step[s] = "remove" /\ StillFree(job[s].on) /\ Vanish(s, job[s].on)

DeleteWrite(s) == step[s] = "delete" /\ Vanish(s, job[s].on)

LinkWrite(s) ==
  LET n == job[s].on
  IN  /\ step[s] = "link" /\ n \in there /\ End(s)
      /\ linked' = IF job[s].linked THEN linked \ {n} ELSE linked \cup {n}
      /\ UNCHANGED <<born, there, books, held, out, marks>>

-----------------------------------------------------------------------------
\* The request ends where it is: stock or the database refuses it, the line is gone, or
\* the server stops.
GiveUp(s) ==
  /\ step[s] # "idle" /\ End(s)
  /\ blamed' = IF step[s] \in {"log", "settle"} /\ job[s].on \in there
               THEN blamed \cup {job[s].on} ELSE blamed
  /\ UNCHANGED <<lines, books, held, out, requests>>

\* The Materials tab: stock moves, and figure and log with it, in one transaction.
FromStock(n, q) ==
  /\ n \in linked /\ Book(n, q)
  /\ out' = out + q /\ out' <= MaxFigure
  /\ UNCHANGED <<lines, held, step, job, marks>>

BackToStock(n, q) ==
  /\ n \in linked /\ q <= out
  /\ Book(n, IssuedAfter(n, -q) - figure[n])
  /\ out' = out - q
  /\ UNCHANGED <<lines, held, step, job, marks>>

\* Movements of the order that name no line.
General(d) ==
  /\ out + d \in 0 .. MaxFigure /\ out' = out + d
  /\ UNCHANGED <<lines, books, held, step, job, marks>>

\* A line is reserved or asked for, or no longer.
SetHeld(n) ==
  /\ n \in held \/ n \in linked
  /\ held' = IF n \in held THEN held \ {n} ELSE held \cup {n}
  /\ UNCHANGED <<lines, books, out, step, job, marks>>

-----------------------------------------------------------------------------
BomInit ==
  /\ born = Listed /\ there = Listed
  /\ linked \in SUBSET Listed
  /\ figure = [n \in Item |-> 0] /\ log = [n \in Item |-> 0] /\ logged = {}
  /\ held = {} /\ out = 0
  /\ step = [s \in Person |-> "idle"] /\ job = [s \in Person |-> NoJob]
  /\ blamed = {} /\ requests = 0

Request(s) ==
  \/ \E n \in there :
       \/ \E q \in 1 .. MaxEntry : Issue(s, n, q)
       \/ \E v \in 0 .. MaxEntry : Correct(s, n, v) \/ SaveRead(s, n, v)
       \/ \E at \in {"remove", "delete", "link"} : ClaimCheck(s, at, n)
  \/ MoveStock(s) \/ WriteLog(s) \/ BookDirectly(s) \/ SaveWrite(s)
  \/ RemoveWrite(s) \/ DeleteWrite(s) \/ LinkWrite(s) \/ GiveUp(s)

BomNext ==
  \/ \E s \in Person : Request(s)
  \/ \E n \in Item :
       \/ \E v \in 0 .. MaxEntry, withBill \in BOOLEAN : AddLine(n, v, withBill)
       \/ \E q \in 1 .. MaxEntry : FromStock(n, q) \/ BackToStock(n, q)
       \/ SetHeld(n)
  \/ \E d \in -MaxEntry .. MaxEntry : General(d)

BomSpec == BomInit /\ [][BomNext]_bomVars

-----------------------------------------------------------------------------
(* Properties *)

Place == {"idle", "issue", "correct", "log", "settle", "save", "remove", "delete", "link"}
Job == [on : Item \cup {{}}, was : Nat, delta : Int, linked : BOOLEAN, clean : BOOLEAN]

\* The tables hold what the code stores; in particular no line's figure is below zero,
\* though more may come back than it has.
BomTypeOK ==
  /\ there \subseteq born /\ born \subseteq Item
  /\ linked \cup logged \cup held \subseteq there
  /\ figure \in [Item -> Nat] /\ log \in [Item -> Int] /\ out \in Nat
  /\ step \in [Person -> Place] /\ job \in [Person -> Job]
  /\ blamed \subseteq there /\ requests \in 0 .. MaxRequests

\* A movement made whose log row is still to come.
Unlogged(n) == {s \in Person : step[s] \in {"log", "settle"} /\ job[s].on = n}

\* "The log remains a running account that adds up to the total on the item": it is short
\* by the movements still to be logged and by nothing else, however issues, corrections
\* and saves overlap, unless the line was given a figure when it was added, a save wrote
\* over what came in since it had read, more came back than the line had, or a request
\* stopped between the stock and the log.
LogIsExplained == \A n \in there \ blamed :
  figure[n] = log[n] + SumFunctionOnSet([s \in Person |-> job[s].delta], Unlogged(n))

\* A request that looked, found nothing issued or kept, and was overtaken.  With a save, it
\* is overtaken only by stock moved for the line and not logged, yet or for good.
Overtaken(s, n) ==
  /\ job[s].on = n /\ job[s].clean /\ step'[s] = "idle"
  /\ \/ step[s] \in {"delete", "link"}
     \/ step[s] = "remove" /\ n \notin logged /\ n \notin held
        /\ (Unlogged(n) # {} \/ n \in blamed)

\* A line that has a history is not removed, nor linked to anything else, but by a request
\* that was overtaken since it looked.
HistoryKeepsItsLine == [][\A n \in there :
  n \notin there' \/ (n \in linked) # (n \in linked') =>
    Untouched(n) \/ \E s \in Person : Overtaken(s, n)]_bomVars

=============================================================================
