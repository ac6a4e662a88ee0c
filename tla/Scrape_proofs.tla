---------------------------- MODULE Scrape_proofs ----------------------------
(***************************************************************************)
(* Scraping implements the index of PrefixIndex, for every flake, any set  *)
(* of processes and any prefixes they ask for.                             *)
(***************************************************************************)
EXTENDS Scrape, PkgDb_proofs

\* Every step of one turn of scrapePrefix()'s loop is one of five kinds.
Turn(p, t) == SkipTarget(p, t) \/ FillTarget(p, t) \/ PassTarget(p, t)
              \/ FailTarget(p, t) \/ BusyTarget(p, t)
-----------------------------------------------------------------------------
(***************************************************************************)
(* Types.                                                                  *)
(***************************************************************************)
LEMMA AbandonTypes ==
  ASSUME TypeOK, NEW p \in Scrapers, NEW stage \in Stages, Abandon(p, stage)
  PROVE  TypeOK'
BY DEF TypeOK, Abandon, Leave, Goto

LEMMA TurnTypes ==
  ASSUME TypeOK, NEW p \in Scrapers, NEW t \in todo[p], Turn(p, t)
  PROVE  TypeOK'
<1>1. t \in AttrSets /\ View(p) \in Contents /\ Kids(t) \subseteq AttrSets
  BY DEF TypeOK, View, Kids
<1>2. CASE SkipTarget(p, t)
  BY <1>2 DEF TypeOK, SkipTarget, Target
<1>3. CASE FillTarget(p, t)
  <2>1. dirty' \in Contents /\ db' = db /\ shared' = shared /\ pc' = pc
        /\ req' = req /\ writer' = p
    BY <1>1, <1>3, ScrapeTargetEffect DEF FillTarget
  <2>2. todo' \in [Scrapers -> SUBSET AttrSets]
    BY <1>1, <1>3 DEF TypeOK, FillTarget, Target
  <2>3. QED
    BY <2>1, <2>2 DEF TypeOK
<1>4. CASE PassTarget(p, t)
  BY <1>1, <1>4 DEF TypeOK, PassTarget, Target
<1>5. CASE FailTarget(p, t) \/ BusyTarget(p, t)
  BY <1>5, AbandonTypes DEF FailTarget, BusyTarget, Stages, Idle
<1>6. QED
  BY <1>2, <1>3, <1>4, <1>5 DEF Turn

\* Types are kept because a process has checked what it goes on to use: a
\* prefix on its way to be scraped is an attribute set of the flake.
LEMMA TypeStep ==
  ASSUME TypeOK, \A p \in Scrapers : WayIn(p), [Next]_vars
  PROVE  TypeOK'
<1> USE DEF Stages, Idle, InTxn
<1>1. ASSUME NEW p \in Scrapers, NEW q \in Requested, NEW force \in BOOLEAN,
             Ask(p, q, force)
      PROVE  TypeOK'
  <2>1. [prefix |-> q, force |-> force] \in Request
    BY DEF Request
  <2>2. QED
    BY <1>1, <2>1 DEF TypeOK, Ask, Goto
<1>2. ASSUME NEW p \in Scrapers, Open(p) PROVE TypeOK'
  BY <1>2, AbandonTypes DEF TypeOK, Open, Goto
<1>3. ASSUME NEW p \in Scrapers, AddRow(p) PROVE TypeOK'
  <2>1. ASSUME NEW a \in Paths PROVE AddAttrSet(db, a) \in Contents
    BY DEF TypeOK, AddAttrSet, Contents
  <2>2. QED
    BY <1>3, <2>1, AbandonTypes DEF TypeOK, AddRow, Goto, Write
<1>4. ASSUME NEW p \in Scrapers, Clear(p) PROVE TypeOK'
  <2>1. SetPrefixDone(db, req[p].prefix, FALSE) \in Contents
    BY SetPrefixDoneEffect DEF TypeOK
  <2>2. QED
    BY <1>4, <2>1, AbandonTypes DEF TypeOK, Clear, Goto, Write
<1>5. ASSUME NEW p \in Scrapers, Check(p) PROVE TypeOK'
  BY <1>5, AbandonTypes DEF TypeOK, Check, Goto
<1>6. ASSUME NEW p \in Scrapers, Begin(p) PROVE TypeOK'
  <2>1. req[p].prefix \in AttrSets
    BY <1>6 DEF Begin, WayIn
  <2>2. QED
    BY <1>6, <2>1 DEF TypeOK, Begin, Goto
<1>7. ASSUME NEW p \in Scrapers, ScrapeNext(p) PROVE TypeOK'
  BY <1>7, TurnTypes DEF ScrapeNext, Turn
<1>8. ASSUME NEW p \in Scrapers, MarkDone(p) PROVE TypeOK'
  <2>1. View(p) \in Contents
    BY DEF TypeOK, View
  <2>2. SetPrefixDone(View(p), req[p].prefix, TRUE) \in Contents
    BY <2>1, SetPrefixDoneEffect
  <2>3. QED
    BY <1>8, <2>2, AbandonTypes DEF TypeOK, MarkDone, Goto
<1>9. ASSUME NEW p \in Scrapers, Commit(p) PROVE TypeOK'
  <2>1. CASE db' = dirty /\ UNCHANGED dirty /\ Leave(p, "ok")
    BY <2>1 DEF TypeOK, Leave, Goto
  <2>2. CASE Abandon(p, "ok")
    BY <2>2, AbandonTypes
  <2>3. QED
    BY <1>9, <2>1, <2>2 DEF Commit
<1>10. ASSUME NEW p \in Scrapers, Crash(p) PROVE TypeOK'
  BY <1>10, AbandonTypes DEF Crash
<1>11. ASSUME NEW r \in Readers, BeginRead(r) \/ EndRead(r) PROVE TypeOK'
  BY <1>11 DEF TypeOK, BeginRead, EndRead
<1>12. CASE UNCHANGED vars
  BY <1>12 DEF TypeOK, vars
<1>13. QED
  BY <1>1, <1>2, <1>3, <1>4, <1>5, <1>6, <1>7, <1>8, <1>9, <1>10, <1>11, <1>12
  DEF Next, Work
-----------------------------------------------------------------------------
(***************************************************************************)
(* Interference.  A step of p leaves the other scrapers where they are, and *)
(* changes the committed contents only if no other process holds SHARED:   *)
(* never under the transaction of another scraper.                         *)
(***************************************************************************)
StepOf(p) ==
    /\ \A o \in Scrapers \ {p} :
          /\ pc'[o] = pc[o] /\ req'[o] = req[o] /\ todo'[o] = todo[o]
          /\ writer' = o <=> writer = o
          /\ writer = o => dirty' = dirty
    /\ db' = db \/ shared \subseteq {p}
    /\ db.rows \subseteq db'.rows /\ db.pkgs \subseteq db'.pkgs

LEMMA OthersUndisturbed ==
  ASSUME LocksHeld, NEW p, StepOf(p),
         NEW o \in Scrapers \ {p}, WayIn(o), TxnOnTrack(o)
  PROVE  WayIn(o)' /\ TxnOnTrack(o)'
<1>1. /\ pc'[o] = pc[o] /\ req'[o] = req[o] /\ todo'[o] = todo[o]
      /\ db.rows \subseteq db'.rows
  BY DEF StepOf
<1>2. WayIn(o)'
  BY <1>1 DEF WayIn
<1>3. CASE pc[o] \notin InTxn
  BY <1>1, <1>2, <1>3 DEF TxnOnTrack, InTxn
<1>4. CASE pc[o] \in InTxn
  <2>1. o \in shared
    BY <1>4 DEF LocksHeld
  <2>2. db' = db
    BY <2>1 DEF StepOf
  <2>3. View(o)' = View(o)
    BY <2>2 DEF StepOf, View
  <2>4. pc[o] = "commit" => dirty' = dirty
    BY DEF LocksHeld, StepOf
  <2>5. pc[o] = "scrape" => Underway(db, View(o), req[o].prefix, todo[o])'
    BY <1>1, <2>2, <2>3 DEF TxnOnTrack, Underway
  <2>6. QED
    BY <1>1, <1>2, <2>2, <2>4, <2>5 DEF TxnOnTrack, Result
<1>5. QED
  BY <1>3, <1>4

\* What each step of a scraper has to establish.
Keeps(p) == LocksHeld' /\ Sound(db)' /\ WayIn(p)' /\ TxnOnTrack(p)' /\ StepOf(p)

\* Returning or dying without a commit leaves no trace but the locks' release.
LEMMA AbandonKeeps ==
  ASSUME ScrapeInv, NEW p \in Scrapers, NEW stage \in Idle, Abandon(p, stage)
  PROVE  Keeps(p) /\ db' = db
<1> USE DEF ScrapeInv, TypeOK
<1>1. /\ pc' = [pc EXCEPT ![p] = stage]
      /\ req' = [req EXCEPT ![p] = None]
      /\ todo' = [todo EXCEPT ![p] = {}]
      /\ shared' = shared \ {p}
      /\ writer' = IF writer = p THEN None ELSE writer
      /\ dirty' = IF writer = p THEN db ELSE dirty
      /\ db' = db
  BY DEF Abandon, Leave, Goto
<1>2. stage \notin InTxn /\ p # None
  BY RequestedAssumption DEF Idle, InTxn
<1>3. LocksHeld'
  BY <1>1, <1>2 DEF LocksHeld, InTxn
<1>4. Sound(db)'
  BY <1>1
<1>5. WayIn(p)' /\ TxnOnTrack(p)'
  BY <1>1, <1>2 DEF WayIn, TxnOnTrack, Idle, InTxn
<1>6. StepOf(p)
  BY <1>1, <1>2, RequestedAssumption DEF StepOf
<1>7. QED
  BY <1>1, <1>3, <1>4, <1>5, <1>6 DEF Keeps
-----------------------------------------------------------------------------
(***************************************************************************)
(* Each action of a scraper keeps the invariant, and what it does to the   *)
(* committed contents is a step of the index.                              *)
(***************************************************************************)
LEMMA AskKeeps ==
  ASSUME ScrapeInv, NEW p \in Scrapers, NEW q \in Requested,
         NEW force \in BOOLEAN, Ask(p, q, force)
  PROVE  Keeps(p) /\ db' = db
<1> USE DEF ScrapeInv, TypeOK, Idle, InTxn
<1>1. /\ pc'[p] \in {"forceOpen", "check"}
      /\ \A o \in Scrapers \ {p} : pc'[o] = pc[o] /\ req'[o] = req[o]
      /\ req'[p] = [prefix |-> q, force |-> force]
      /\ pc'[p] = "forceOpen" => force
      /\ UNCHANGED <<db, dirty, writer, shared, todo>>
      /\ pc[p] \in Idle
  BY DEF Ask, Goto
<1>2. LocksHeld' /\ Sound(db)'
  BY <1>1 DEF LocksHeld
<1>3. WayIn(p)' /\ TxnOnTrack(p)'
  BY <1>1 DEF WayIn, TxnOnTrack, Request
<1>4. QED
  BY <1>1, <1>2, <1>3 DEF Keeps, StepOf

LEMMA OpenKeeps ==
  ASSUME ScrapeInv, NEW p \in Scrapers, Open(p)
  PROVE  Keeps(p) /\ db' = db
<1> USE DEF ScrapeInv, TypeOK, Idle, InTxn
<1>1. CASE Abandon(p, "error")
  BY <1>1, AbandonKeeps
<1>2. CASE /\ Goto(p, IF pc[p] = "open" THEN "rows" ELSE "forceRows")
           /\ UNCHANGED <<db, dirty, writer, shared, req, todo>>
  <2>1. LocksHeld' /\ Sound(db)'
    BY <1>2 DEF Open, Goto, LocksHeld
  <2>2. WayIn(p)' /\ TxnOnTrack(p)'
    BY <1>2 DEF Open, Goto, WayIn, TxnOnTrack
  <2>3. QED
    BY <1>2, <2>1, <2>2 DEF Goto, Keeps, StepOf
<1>3. QED
  BY <1>1, <1>2 DEF Open

\* Once no attribute of the prefix lacks its row, the prefix has one.
LEMMA AddRowKeeps ==
  ASSUME ScrapeInv, NEW p \in Scrapers, AddRow(p)
  PROVE  /\ Keeps(p)
         /\ db' = db \/ \E s \in Paths : /\ s \notin db.rows
                                         /\ HasParentRow(db, s)
                                         /\ db' = AddAttrSet(db, s)
<1> USE DEF ScrapeInv, TypeOK, Idle, InTxn
<1> DEFINE missing == {a \in Paths \ db.rows : IsPrefix(a, req[p].prefix)}
<1>1. /\ pc[p] \in {"forceRows", "rows"}
      /\ req[p] \in Request
      /\ req[p].prefix \in Paths
      /\ pc[p] = "rows" => req[p].prefix \in AttrSets
  BY RequestedAssumption DEF AddRow, WayIn, Request
<1>2. CASE Abandon(p, "error")
  BY <1>2, AbandonKeeps
<1>3. CASE /\ missing = {}
           /\ Goto(p, IF pc[p] = "rows" THEN "begin" ELSE "clear")
           /\ UNCHANGED <<db, dirty, writer, shared, req, todo>>
  <2>1. req[p].prefix \in db.rows
    BY <1>1, <1>3, PrefixRefl, PathsAssumption
  <2>2. LocksHeld' /\ Sound(db)'
    BY <1>1, <1>3 DEF Goto, LocksHeld
  <2>3. WayIn(p)' /\ TxnOnTrack(p)'
    BY <1>1, <1>3, <2>1 DEF Goto, WayIn, TxnOnTrack
  <2>4. QED
    BY <1>3, <2>2, <2>3 DEF Goto, Keeps, StepOf
<1>4. CASE /\ shared = {}
           /\ \E a \in missing : HasParentRow(db, a) /\ Write(AddAttrSet(db, a))
           /\ UNCHANGED <<writer, shared, pc, req, todo>>
  <2>1. PICK a \in Paths \ db.rows :
               HasParentRow(db, a) /\ Write(AddAttrSet(db, a))
    BY <1>4
  <2>2. /\ db' = AddAttrSet(db, a) /\ dirty' = db'
        /\ Sound(db)' /\ db.rows \subseteq db'.rows /\ db'.pkgs = db.pkgs
    <3>1. /\ db.rows \subseteq AddAttrSet(db, a).rows
          /\ AddAttrSet(db, a).pkgs = db.pkgs
      BY DEF AddAttrSet, Contents
    <3>2. QED
      BY <2>1, <3>1, AddKeepsSound DEF Write
  <2>3. writer = None /\ LocksHeld'
    BY <1>4, <2>2 DEF LocksHeld
  <2>4. WayIn(p)' /\ TxnOnTrack(p)'
    BY <1>1, <1>4, <2>2 DEF WayIn, TxnOnTrack
  <2>5. StepOf(p)
    BY <1>4, <2>2, <2>3, RequestedAssumption DEF StepOf
  <2>6. QED
    BY <2>1, <2>2, <2>3, <2>4, <2>5 DEF Keeps
<1>5. QED
  BY <1>2, <1>3, <1>4 DEF AddRow

LEMMA ClearKeeps ==
  ASSUME ScrapeInv, NEW p \in Scrapers, Clear(p)
  PROVE  /\ Keeps(p)
         /\ db' = db \/ \E q \in Paths : /\ Len(q) > 1
                                         /\ q \in db.rows
                                         /\ db' = SetPrefixDone(db, q, FALSE)
<1> USE DEF ScrapeInv, TypeOK, Idle, InTxn
<1> DEFINE q == req[p].prefix
<1>1. /\ pc[p] = "clear" /\ req[p] \in Request
      /\ q \in Paths /\ q \in db.rows /\ Len(q) > 1
  BY RequestedAssumption DEF Clear, WayIn, Request
<1>2. CASE Abandon(p, "error")
  BY <1>2, AbandonKeeps
<1>3. CASE /\ shared = {}
           /\ Write(SetPrefixDone(db, q, FALSE))
           /\ Goto(p, "check")
           /\ UNCHANGED <<writer, shared, req, todo>>
  <2>1. /\ db' = SetPrefixDone(db, q, FALSE) /\ dirty' = db'
        /\ Sound(db)' /\ db'.rows = db.rows /\ db'.pkgs = db.pkgs
    BY <1>1, <1>3, ClearKeepsSound, SetPrefixDoneEffect DEF Write
  <2>2. writer = None /\ LocksHeld'
    BY <1>3, <2>1 DEF Goto, LocksHeld
  <2>3. WayIn(p)' /\ TxnOnTrack(p)'
    BY <1>1, <1>3, <2>1 DEF Goto, WayIn, TxnOnTrack
  <2>4. StepOf(p)
    BY <1>3, <2>1, <2>2, RequestedAssumption DEF Goto, StepOf
  <2>5. QED
    BY <1>1, <2>1, <2>2, <2>3, <2>4 DEF Keeps
<1>4. QED
  BY <1>2, <1>3 DEF Clear

LEMMA CheckKeeps ==
  ASSUME ScrapeInv, NEW p \in Scrapers, Check(p)
  PROVE  Keeps(p) /\ db' = db
<1> USE DEF ScrapeInv, TypeOK, Idle, InTxn
<1>1. CASE Abandon(p, "ok")
  BY <1>1, AbandonKeeps
<1>2. CASE /\ req[p].prefix \in AttrSets
           /\ Goto(p, "open")
           /\ UNCHANGED <<db, dirty, writer, shared, req, todo>>
  <2>1. LocksHeld' /\ Sound(db)'
    BY <1>2 DEF Check, Goto, LocksHeld
  <2>2. WayIn(p)' /\ TxnOnTrack(p)'
    BY <1>2 DEF Check, Goto, WayIn, TxnOnTrack
  <2>3. QED
    BY <1>2, <2>1, <2>2 DEF Goto, Keeps, StepOf
<1>3. QED
  BY <1>1, <1>2 DEF Check

LEMMA BeginKeeps ==
  ASSUME ScrapeInv, NEW p \in Scrapers, Begin(p)
  PROVE  Keeps(p) /\ db' = db
<1> USE DEF ScrapeInv, TypeOK, Idle, InTxn
<1> DEFINE q == req[p].prefix
<1>1. /\ pc[p] = "begin" /\ req[p] \in Request
      /\ q \in AttrSets /\ q \in db.rows
      /\ pc' = [pc EXCEPT ![p] = "scrape"]
      /\ todo' = [todo EXCEPT ![p] = {q}]
      /\ shared' = shared \cup {p}
      /\ UNCHANGED <<db, dirty, writer, req>>
  BY DEF Begin, Goto, WayIn
<1>2. p # None /\ p \notin shared /\ writer # p
  BY <1>1, RequestedAssumption DEF LocksHeld
<1>3. LocksHeld' /\ Sound(db)'
  BY <1>1, <1>2 DEF LocksHeld
<1>4. WayIn(p)'
  BY <1>1 DEF WayIn
<1>5. Underway(db, View(p), q, todo[p])'
  <2>1. View(p)' = db
    BY <1>1, <1>2 DEF View
  <2>2. Underway(db, db, q, {q})
    BY <1>1, UnderwayStarts
  <2>3. QED
    BY <1>1, <2>1, <2>2 DEF Underway
<1>6. TxnOnTrack(p)'
  BY <1>1, <1>5 DEF TxnOnTrack
<1>7. QED
  BY <1>1, <1>3, <1>4, <1>6 DEF Keeps, StepOf

\* A turn of the loop that goes on: the queue and the contents the process
\* sees change together.
LEMMA TurnKeeps ==
  ASSUME ScrapeInv, NEW p \in Scrapers, ScrapeNext(p)
  PROVE  Keeps(p) /\ db' = db
<1> USE DEF ScrapeInv, TypeOK, Idle, InTxn
<1> DEFINE q == req[p].prefix
<1>1. PICK t \in todo[p] : Turn(p, t)
  BY DEF ScrapeNext, Turn
<1>2. /\ pc[p] = "scrape" /\ p \in shared /\ p # None
      /\ req[p] \in Request /\ q \in AttrSets /\ q \in db.rows
      /\ Underway(db, View(p), q, todo[p])
      /\ View(p) \in Contents
      /\ t \in AttrSets
  BY <1>1, RequestedAssumption DEF ScrapeNext, LocksHeld, WayIn, TxnOnTrack, View
<1>3. CASE SkipTarget(p, t)
  <2>1. /\ t \in View(p).done
        /\ todo' = [todo EXCEPT ![p] = todo[p] \ {t}]
        /\ UNCHANGED <<db, dirty, writer, shared, pc, req>>
    BY <1>3 DEF SkipTarget, Target, CompletedRow
  <2>2. Underway(db, View(p), q, todo[p] \ {t})
    BY <1>1, <1>2, <2>1, UnderwaySkips
  <2>3. TxnOnTrack(p)'
    BY <1>2, <2>1, <2>2 DEF TxnOnTrack, View, Underway
  <2>4. LocksHeld' /\ Sound(db)' /\ WayIn(p)'
    BY <2>1 DEF LocksHeld, WayIn
  <2>5. QED
    BY <2>1, <2>3, <2>4 DEF Keeps, StepOf
<1>4. CASE FillTarget(p, t)
  <2> DEFINE E == ScrapeTarget(View(p), t)
  <2>1. /\ t \notin View(p).done /\ ~Fails(t)
        /\ MayReserve(p)
        /\ dirty' = E /\ writer' = p
        /\ todo' = [todo EXCEPT ![p] = (todo[p] \ {t}) \cup Kids(t)]
        /\ UNCHANGED <<db, shared, pc, req>>
    BY <1>4 DEF FillTarget, Target, CompletedRow
  <2>2. Underway(db, E, q, (todo[p] \ {t}) \cup Kids(t))
    BY <1>1, <1>2, <2>1, UnderwayFills
  <2> HIDE DEF E
  <2>3. TxnOnTrack(p)'
    BY ZenonT(40), <1>2, <2>1, <2>2 DEF TxnOnTrack, View, Underway
  <2>4. LocksHeld'
    BY <1>2, <2>1, RequestedAssumption DEF LocksHeld, MayReserve
  <2>5. Sound(db)' /\ WayIn(p)'
    BY <2>1 DEF WayIn
  <2>6. StepOf(p)
    BY <1>2, <2>1, RequestedAssumption DEF StepOf, MayReserve
  <2>7. QED
    BY <2>1, <2>3, <2>4, <2>5, <2>6 DEF Keeps
<1>5. CASE PassTarget(p, t)
  <2> DEFINE E == ScrapeTarget(View(p), t)
  <2>1. /\ t \notin View(p).done /\ ~Fails(t)
        /\ DrvsOf({t}) = {}
        /\ Kids(t) \subseteq View(p).rows
        /\ todo' = [todo EXCEPT ![p] = (todo[p] \ {t}) \cup Kids(t)]
        /\ UNCHANGED <<db, dirty, writer, shared, pc, req>>
    BY <1>5 DEF PassTarget, Target, CompletedRow
  <2>2. E = View(p)
    <3>1. /\ E \in Contents /\ View(p) \in Contents
          /\ E.rows = View(p).rows \cup Kids(t)
          /\ E.pkgs = View(p).pkgs \cup DrvsOf({t})
          /\ E.done = View(p).done
      BY <1>2, ScrapeTargetEffect
    <3> HIDE DEF E
    <3>2. E.rows = View(p).rows /\ E.pkgs = View(p).pkgs
      BY <2>1, <3>1
    <3>3. QED
      BY <3>1, <3>2, SameContents
  <2>3. Underway(db, E, q, (todo[p] \ {t}) \cup Kids(t))
    BY <1>1, <1>2, <2>1, UnderwayFills
  <2> HIDE DEF E
  <2>4. TxnOnTrack(p)'
    BY ZenonT(40), <1>2, <2>1, <2>2, <2>3 DEF TxnOnTrack, View, Underway
  <2>5. LocksHeld' /\ Sound(db)' /\ WayIn(p)'
    BY <2>1 DEF LocksHeld, WayIn
  <2>6. QED
    BY <2>1, <2>4, <2>5 DEF Keeps, StepOf
<1>6. CASE FailTarget(p, t) \/ BusyTarget(p, t)
  BY <1>6, AbandonKeeps DEF FailTarget, BusyTarget
<1>7. QED
  BY <1>1, <1>3, <1>4, <1>5, <1>6 DEF Turn

LEMMA MarkDoneKeeps ==
  ASSUME ScrapeInv, NEW p \in Scrapers, MarkDone(p)
  PROVE  Keeps(p) /\ db' = db
<1> USE DEF ScrapeInv, TypeOK, Idle, InTxn
<1> DEFINE q == req[p].prefix
<1>1. /\ pc[p] = "scrape" /\ p \in shared /\ p # None
      /\ req[p] \in Request /\ q \in AttrSets /\ q \in db.rows
      /\ Underway(db, View(p), q, {})
      /\ View(p) \in Contents
  BY RequestedAssumption DEF MarkDone, LocksHeld, WayIn, TxnOnTrack, View
<1>2. CASE Abandon(p, "error")
  BY <1>2, AbandonKeeps
<1>3. CASE /\ MayReserve(p)
           /\ dirty' = SetPrefixDone(View(p), q, TRUE)
           /\ writer' = p
           /\ Goto(p, "commit")
           /\ UNCHANGED <<db, shared, req, todo>>
  <2>1. SetPrefixDone(View(p), q, TRUE) = Result(db, q) /\ (q \in db.done \/ ~Fails(q))
    BY <1>1, UnderwayEnds
  <2>2. TxnOnTrack(p)'
    BY <1>3, <2>1 DEF TxnOnTrack, Goto, Result
  <2>3. LocksHeld'
    BY <1>1, <1>3, RequestedAssumption DEF LocksHeld, MayReserve, Goto
  <2>4. Sound(db)' /\ WayIn(p)'
    BY <1>1, <1>3 DEF WayIn, Goto
  <2>5. StepOf(p)
    BY <1>1, <1>3, RequestedAssumption DEF StepOf, MayReserve, Goto
  <2>6. QED
    BY <1>3, <2>2, <2>3, <2>4, <2>5 DEF Keeps
<1>4. QED
  BY <1>2, <1>3 DEF MarkDone

\* No one else holds SHARED at a commit, and what is committed was computed
\* from the contents that are still there.
LEMMA CommitKeeps ==
  ASSUME ScrapeInv, NEW p \in Scrapers, Commit(p)
  PROVE  /\ Keeps(p)
         /\ db' = db \/ \E q \in Paths :
                           /\ Len(q) > 1 /\ q \in db.rows \cap AttrSets
                           /\ db' = Result(db, q)
                           /\ q \in db.done \/ ~Fails(q)
<1> USE DEF ScrapeInv, TypeOK, Idle, InTxn
<1> DEFINE q == req[p].prefix
<1>1. /\ pc[p] = "commit" /\ writer = p /\ p # None
      /\ req[p] \in Request /\ q \in Paths /\ Len(q) > 1
      /\ q \in AttrSets /\ q \in db.rows
      /\ dirty = Result(db, q)
      /\ q \in db.done \/ ~Fails(q)
  BY RequestedAssumption DEF Commit, LocksHeld, WayIn, TxnOnTrack, Request
<1>2. CASE Abandon(p, "ok")
  BY <1>2, AbandonKeeps
<1>3. CASE ~OthersRead(p) /\ db' = dirty /\ UNCHANGED dirty /\ Leave(p, "ok")
  <2>1. /\ pc' = [pc EXCEPT ![p] = "ok"]
        /\ req' = [req EXCEPT ![p] = None]
        /\ todo' = [todo EXCEPT ![p] = {}]
        /\ shared' = shared \ {p} /\ shared \subseteq {p}
        /\ writer' = None
        /\ dirty' = dirty /\ db' = dirty
    BY <1>1, <1>3 DEF Leave, Goto, OthersRead
  <2>2. /\ Sound(Result(db, q))
        /\ db.rows \subseteq Result(db, q).rows
        /\ db.pkgs \subseteq Result(db, q).pkgs
    <3>1. CASE q \in db.done
      BY <1>1, <3>1, MarkKeepsSound, SetPrefixDoneEffect DEF Result
    <3>2. CASE q \notin db.done
      <4>1. /\ Sound(Filled(db, q)) /\ FullyScraped(Filled(db, q), q)
            /\ Filled(db, q) \in Contents
            /\ Filled(db, q).rows = db.rows \cup Reach[q]
            /\ db.pkgs \subseteq Filled(db, q).pkgs
        BY <1>1, FillKeepsSound, FilledEffect
      <4>2. q \in Filled(db, q).rows
        BY <1>1, <4>1
      <4>3. QED
        BY <1>1, <3>2, <4>1, <4>2, MarkKeepsSound, SetPrefixDoneEffect DEF Result
    <3>3. QED
      BY <3>1, <3>2
  <2>3. LocksHeld'
    BY <2>1 DEF LocksHeld
  <2>4. Sound(db)' /\ db.rows \subseteq db'.rows /\ db.pkgs \subseteq db'.pkgs
    BY <1>1, <2>1, <2>2
  <2>5. WayIn(p)' /\ TxnOnTrack(p)'
    BY <2>1 DEF WayIn, TxnOnTrack
  <2>6. StepOf(p)
    BY <1>1, <2>1, <2>4, RequestedAssumption DEF StepOf
  <2>7. QED
    BY <1>1, <2>1, <2>3, <2>4, <2>5, <2>6 DEF Keeps
<1>4. QED
  BY <1>2, <1>3 DEF Commit
-----------------------------------------------------------------------------
(***************************************************************************)
(* The operators of the index are those of the scrape.                     *)
(***************************************************************************)
LEMMA SameReach == \A q \in AttrSets : Index!Reach[q] = Reach[q]
<1>1. \A t : Index!Kids(t) = Kids(t)
  BY DEF Index!Kids, Kids, Index!TryRecur, TryRecur, Index!Recursed, Recursed,
         Index!Parent, Parent, Index!Front, Front, Index!Last, Last
<1>2. \A S : Index!Closed(S) <=> Closed(S)
  BY <1>1 DEF Index!Closed, Closed
<1>3. QED
  BY <1>2 DEF Index!Reach, Reach

LEMMA SameSetPrefixDone ==
  ASSUME NEW D, NEW q, NEW b
  PROVE  Index!SetPrefixDone(D, q, b) = SetPrefixDone(D, q, b)
BY DEF Index!SetPrefixDone, SetPrefixDone, Index!SubtreeRows, SubtreeRows,
       Index!Parent, Parent, Index!Front, Front, Index!IsPrefix, IsPrefix

LEMMA SameFilled ==
  ASSUME NEW D, NEW q \in AttrSets
  PROVE  Index!Filled(D, q) = Filled(D, q)
BY SameReach DEF Index!Filled, Filled, Index!DrvsOf, DrvsOf

\* A row on the way in, a cleared prefix and a commit: nothing else is ever
\* seen of a scrape from outside.
LEMMA RowIsReserve ==
  ASSUME NEW s \in Paths, s \notin db.rows, HasParentRow(db, s),
         db' = AddAttrSet(db, s)
  PROVE  Index!Next
BY DEF Index!Next, Index!Reserve, Index!HasParentRow, HasParentRow,
       Index!AddAttrSet, AddAttrSet, Index!Parent, Parent, Index!Front, Front,
       Index!Root, Root

LEMMA ClearIsRetract ==
  ASSUME NEW q \in Paths, Len(q) > 1, q \in db.rows,
         db' = SetPrefixDone(db, q, FALSE)
  PROVE  Index!Next
BY SameSetPrefixDone DEF Index!Next, Index!Retract

LEMMA CommitIsPublish ==
  ASSUME NEW q \in Paths, Len(q) > 1, q \in db.rows \cap AttrSets,
         db' = Result(db, q), q \in db.done \/ ~Fails(q)
  PROVE  Index!Next
<1>1. CASE q \in db.done
  BY <1>1, SameSetPrefixDone
  DEF Index!Next, Index!Reseal, Index!CompletedRow, Result
<1>2. CASE q \notin db.done
  <2>1. db' = Index!SetPrefixDone(Index!Filled(db, q), q, TRUE)
    BY <1>2, SameSetPrefixDone, SameFilled DEF Result
  <2>2. ~Index!Fails(q)
    BY <1>2 DEF Fails, Index!Fails, TryRecur, Index!TryRecur
  <2>3. QED
    BY <1>2, <2>1, <2>2 DEF Index!Next, Index!Publish, Index!CompletedRow
<1>3. QED
  BY <1>1, <1>2
-----------------------------------------------------------------------------
LEMMA WorkKeeps ==
  ASSUME ScrapeInv, NEW p \in Scrapers, Work(p)
  PROVE  Keeps(p) /\ [Index!Next]_db
<1>1. CASE \/ Open(p) \/ Check(p) \/ Begin(p) \/ ScrapeNext(p) \/ MarkDone(p)
  BY <1>1, OpenKeeps, CheckKeeps, BeginKeeps, TurnKeeps, MarkDoneKeeps
<1>2. CASE AddRow(p)
  BY <1>2, AddRowKeeps, RowIsReserve
<1>3. CASE Clear(p)
  BY <1>3, ClearKeeps, ClearIsRetract
<1>4. CASE Commit(p)
  BY <1>4, CommitKeeps, CommitIsPublish
<1>5. QED
  BY <1>1, <1>2, <1>3, <1>4 DEF Work

\* The inductive step, and with it the step of the refinement.
LEMMA ScrapeStep == ScrapeInv /\ [Next]_vars => ScrapeInv' /\ [Index!Next]_db
<1> SUFFICES ASSUME ScrapeInv, [Next]_vars PROVE ScrapeInv' /\ [Index!Next]_db
  OBVIOUS
<1>1. TypeOK'
  BY TypeStep DEF ScrapeInv
<1>2. ASSUME NEW p \in Scrapers, Keeps(p) PROVE ScrapeInv'
  <2>1. \A o \in Scrapers \ {p} : WayIn(o)' /\ TxnOnTrack(o)'
    BY <1>2, OthersUndisturbed DEF Keeps, ScrapeInv
  <2>2. QED
    BY <1>1, <1>2, <2>1 DEF Keeps, ScrapeInv
<1>3. ASSUME NEW p \in Scrapers, NEW q \in Requested, NEW force \in BOOLEAN,
             Ask(p, q, force)
      PROVE  ScrapeInv' /\ [Index!Next]_db
  BY <1>2, <1>3, AskKeeps
<1>4. ASSUME NEW p \in Scrapers, Work(p) PROVE ScrapeInv' /\ [Index!Next]_db
  BY <1>2, <1>4, WorkKeeps
<1>5. ASSUME NEW p \in Scrapers, Crash(p) PROVE ScrapeInv' /\ [Index!Next]_db
  BY <1>2, <1>5, AbandonKeeps DEF Crash, Idle
<1>6. CASE (\E r \in Readers : BeginRead(r) \/ EndRead(r)) \/ UNCHANGED vars
  <2>1. /\ UNCHANGED <<db, dirty, writer, pc, req, todo>>
        /\ \A p \in Scrapers : p \in shared' <=> p \in shared
        /\ writer \in shared => writer' \in shared' \/ writer = None
    BY <1>6, RequestedAssumption DEF BeginRead, EndRead, vars, ScrapeInv, TypeOK
  <2>2. LocksHeld'
    BY <2>1, RequestedAssumption DEF ScrapeInv, TypeOK, LocksHeld
  <2>3. \A p \in Scrapers : WayIn(p)' /\ TxnOnTrack(p)'
    BY ZenonT(40), <2>1 DEF ScrapeInv, WayIn, TxnOnTrack, Underway, View, Result
  <2>4. QED
    BY <1>1, <2>1, <2>2, <2>3 DEF ScrapeInv
<1>7. QED
  BY <1>3, <1>4, <1>5, <1>6 DEF Next

LEMMA ScrapeStarts == Init => ScrapeInv
<1> SUFFICES ASSUME Init PROVE ScrapeInv
  OBVIOUS
<1>1. TypeOK
  BY EmptyIsSound DEF Init, TypeOK, Stages, Idle, Sound
<1>2. Sound(db)
  BY EmptyIsSound DEF Init
<1>3. LocksHeld /\ \A p \in Scrapers : WayIn(p) /\ TxnOnTrack(p)
  BY DEF Init, LocksHeld, WayIn, TxnOnTrack, Idle, InTxn
<1>4. QED
  BY <1>1, <1>2, <1>3 DEF ScrapeInv

\* The inductive invariant: the locks are held by who should hold them, every
\* transaction is on track, and what is committed is sound.
THEOREM ScrapeInvariant == Spec => []ScrapeInv
BY ScrapeStarts, ScrapeStep, PTL DEF Spec

\* Every variable of scrapePrefix() keeps its type.
THEOREM ScrapeTypes == Spec => []TypeOK
<1>1. ScrapeInv => TypeOK
  BY DEF ScrapeInv
<1>2. QED
  BY <1>1, ScrapeInvariant, PTL
-----------------------------------------------------------------------------
LEMMA SoundIsWhole ==
  Sound(db) => RowsRooted /\ DoneExplained /\ NothingHalfVisible /\ SystemPrefixComplete
<1> SUFFICES ASSUME Sound(db)
             PROVE  RowsRooted /\ DoneExplained /\ NothingHalfVisible /\ SystemPrefixComplete
  OBVIOUS
<1>1. /\ IsRooted(db) /\ MarksExplained(db) /\ NoneHalfFilled(db)
      /\ \A s \in db.done : Len(s) = 2 => FullyScraped(db, s)
  BY SoundSystemPrefix DEF Sound
<1>2. \A s : Index!FullyScraped(db, s) <=> FullyScraped(db, s)
  BY SameReach DEF Index!FullyScraped, FullyScraped, Index!DrvsOf, DrvsOf
<1>3. RowsRooted
  BY <1>1 DEF RowsRooted, Index!RowsRooted, Index!IsRooted, IsRooted,
              Index!HasParentRow, HasParentRow, Index!Parent, Parent,
              Index!Front, Front, Index!Root, Root
<1>4. DoneExplained
  BY <1>1, <1>2 DEF DoneExplained, Index!DoneExplained, Index!MarksExplained,
                    MarksExplained, Index!Parent, Parent, Index!Front, Front
<1>5. NothingHalfVisible
  BY <1>1, <1>2 DEF NothingHalfVisible, Index!NothingHalfVisible,
                    Index!NoneHalfFilled, NoneHalfFilled
<1>6. SystemPrefixComplete
  BY <1>1, <1>2 DEF SystemPrefixComplete, Index!SystemPrefixComplete
<1>7. QED
  BY <1>3, <1>4, <1>5, <1>6

\* Whatever the processes do, the file holds a tree of rows whose marks have
\* a reason, never a part of a prefix, and all of a marked system prefix.
THEOREM ScrapeIsSound ==
  Spec => [](RowsRooted /\ DoneExplained /\ NothingHalfVisible
                        /\ SystemPrefixComplete)
<1>1. ScrapeInv => Sound(db)
  BY DEF ScrapeInv
<1>2. QED
  BY <1>1, SoundIsWhole, ScrapeInvariant, PTL

\* Each step of the abstract index keeps its contents sound.
LEMMA IndexKeepsSound == Sound(db) /\ [Index!Next]_db => Sound(db)'
<1> SUFFICES ASSUME Sound(db), [Index!Next]_db PROVE Sound(db')
  OBVIOUS
<1>1. ASSUME NEW s \in Paths, Index!Reserve(s) PROVE Sound(db')
  <2>1. s \notin db.rows /\ HasParentRow(db, s) /\ db' = AddAttrSet(db, s)
    BY <1>1 DEF Index!Reserve, Index!HasParentRow, HasParentRow, Index!AddAttrSet,
                AddAttrSet, Index!Parent, Parent, Index!Front, Front, Index!Root, Root
  <2>2. QED
    BY <2>1, AddKeepsSound
<1>2. ASSUME NEW q \in Paths, Len(q) > 1, Index!Publish(q) PROVE Sound(db')
  <2>1. /\ q \in db.rows \cap AttrSets /\ ~Fails(q)
        /\ db' = SetPrefixDone(Filled(db, q), q, TRUE)
    BY <1>2, SameSetPrefixDone, SameFilled
    DEF Index!Publish, Fails, Index!Fails, TryRecur, Index!TryRecur
  <2>2. /\ Sound(Filled(db, q)) /\ FullyScraped(Filled(db, q), q)
        /\ q \in Filled(db, q).rows
    BY <2>1, FillKeepsSound, FilledEffect DEF Sound
  <2>3. QED
    BY <1>2, <2>1, <2>2, MarkKeepsSound
<1>3. ASSUME NEW q \in Paths, Len(q) > 1, Index!Reseal(q) PROVE Sound(db')
  <2>1. /\ q \in db.done /\ q \in db.rows
        /\ db' = SetPrefixDone(db, q, TRUE)
    BY <1>3, SameSetPrefixDone DEF Index!Reseal, Index!CompletedRow, Sound, IsRooted
  <2>2. QED
    BY <1>3, <2>1, MarkKeepsSound
<1>4. ASSUME NEW q \in Paths, Index!Retract(q) PROVE Sound(db')
  BY <1>4, ClearKeepsSound, SameSetPrefixDone DEF Index!Retract
<1>5. CASE UNCHANGED db
  BY <1>5
<1>6. QED
  BY <1>1, <1>2, <1>3, <1>4, <1>5 DEF Index!Next

\* Whatever prefixes are added and forced again, in whatever order, the index
\* that scraping implements is sound, and all of a marked `<subtree>.<system>'
\* prefix is in it.
THEOREM IndexIsSound ==
  Index!Spec => [](Index!TypeOK /\ RowsRooted /\ DoneExplained /\ NothingHalfVisible
                                /\ SystemPrefixComplete)
<1>1. Index!Init => Sound(db)
  BY EmptyIsSound DEF Index!Init, EmptyDb, Index!EmptyDb
<1>2. Sound(db) => Index!TypeOK
  BY DEF Sound, Index!TypeOK, Contents, Index!Contents
<1>3. QED
  BY <1>1, <1>2, SoundIsWhole, IndexKeepsSound, PTL DEF Index!Spec

\* Three of them on their own.  The rows that readers join over form a tree:
\* an insert checks the parent's row, and no step deletes one.
THEOREM ScrapeRooted == Spec => []RowsRooted
BY ScrapeIsSound, PTL

\* No mark of setPrefixDone() is without a reason, whoever forced or failed.
THEOREM ScrapeExplainsMarks == Spec => []DoneExplained
BY ScrapeIsSound, PTL

\* The transaction of scrapePrefix() is all that readers ever see of it.
THEOREM ScrapeShowsWhole == Spec => []NothingHalfVisible
BY ScrapeIsSound, PTL

\* Scraping by many processes implements the index: a prefix is published in
\* one step, whatever locks are refused and whoever dies on the way.
THEOREM ScrapeImplementsIndex == Spec => ScrapesAreAtomic
<1>1. Init => Index!Init
  BY DEF Init, Index!Init, EmptyDb, Index!EmptyDb
<1>2. QED
  BY <1>1, ScrapeStarts, ScrapeStep, PTL DEF Spec, ScrapesAreAtomic, Index!Spec

\* No step of any process takes a row or a package away.
THEOREM ScrapeLosesNothing == Spec => NothingLost
<1>1. ScrapeInv /\ [Next]_vars
        => [db.rows \subseteq db'.rows /\ db.pkgs \subseteq db'.pkgs]_db
  <2> SUFFICES ASSUME ScrapeInv, [Next]_vars
               PROVE  [db.rows \subseteq db'.rows /\ db.pkgs \subseteq db'.pkgs]_db
    OBVIOUS
  <2>1. ASSUME NEW p \in Scrapers, NEW q \in Requested, NEW force \in BOOLEAN,
               Ask(p, q, force) \/ Work(p) \/ Crash(p)
        PROVE  StepOf(p)
    BY <2>1, AskKeeps, WorkKeeps, AbandonKeeps DEF Keeps, Crash, Idle
  <2>2. ASSUME NEW p \in Scrapers, Work(p) \/ Crash(p) PROVE StepOf(p)
    BY <2>2, WorkKeeps, AbandonKeeps DEF Keeps, Crash, Idle
  <2>3. CASE (\E r \in Readers : BeginRead(r) \/ EndRead(r)) \/ UNCHANGED vars
    BY <2>3 DEF BeginRead, EndRead, vars
  <2>4. QED
    BY <2>1, <2>2, <2>3 DEF Next, StepOf
<1>2. QED
  BY <1>1, ScrapeInvariant, PTL DEF Spec, NothingLost, Index!NothingLost

\* Only clearing takes marks away, only under the prefix that was forced.
THEOREM ScrapeMarksOnlyForced == Spec => MarksOnlyForced
<1>1. ScrapeInv /\ [Next]_vars =>
        \A s \in Paths : s \in db.done \ db'.done => ClearedByForce(s)
  <2> SUFFICES ASSUME ScrapeInv, [Next]_vars, NEW s \in db.done, s \notin db'.done
               PROVE  ClearedByForce(s)
    OBVIOUS
  <2>1. db \in Contents /\ ~(UNCHANGED db)
    BY DEF ScrapeInv, TypeOK
  <2>2. PICK p \in Scrapers : AddRow(p) \/ Clear(p) \/ Commit(p)
    BY <2>1, AskKeeps, OpenKeeps, CheckKeeps, BeginKeeps, TurnKeeps,
       MarkDoneKeeps, AbandonKeeps
    DEF Next, Work, Crash, Idle, BeginRead, EndRead, vars
  <2>3. CASE AddRow(p)
    <3>1. PICK a \in Paths : db' = AddAttrSet(db, a)
      BY <2>1, <2>3, AddRowKeeps
    <3>2. db'.done = db.done
      BY <2>1, <3>1 DEF AddAttrSet, Contents
    <3>3. QED
      BY <3>2
  <2>4. CASE Commit(p)
    <3>1. PICK q \in AttrSets : db' = Result(db, q)
      BY <2>1, <2>4, CommitKeeps
    <3>2. db.done \subseteq Result(db, q).done
      <4> DEFINE D == IF q \in db.done THEN db ELSE Filled(db, q)
      <4>1. D \in Contents /\ D.done = db.done
        BY <2>1, FilledEffect
      <4>2. Result(db, q) = SetPrefixDone(D, q, TRUE)
        BY DEF Result
      <4> HIDE DEF D
      <4>3. SetPrefixDone(D, q, TRUE).done = D.done \cup SubtreeRows(D, q)
        BY <4>1, SetPrefixDoneEffect
      <4>4. QED
        BY <4>1, <4>2, <4>3
    <3>3. QED
      BY <3>1, <3>2
  <2>5. CASE Clear(p)
    <3>1. db' = SetPrefixDone(db, req[p].prefix, FALSE)
      BY <2>1, <2>5 DEF Clear, Write, Abandon
    <3>2. IsPrefix(req[p].prefix, s)
      BY <2>1, <3>1, SetPrefixDoneEffect DEF SubtreeRows
    <3>3. pc[p] = "clear" /\ req[p].force
      BY <2>5 DEF Clear, ScrapeInv, WayIn
    <3>4. QED
      BY <3>2, <3>3 DEF ClearedByForce
  <2>6. QED
    BY <2>2, <2>3, <2>4, <2>5
<1>2. QED
  BY <1>1, ScrapeInvariant, PTL DEF Spec, MarksOnlyForced

\* A scrape that says it succeeded did, if its commit was not refused.
THEOREM ScrapeOkUnlessRefused == Spec => OkUnlessRefused
<1>1. ScrapeInv /\ [Next]_vars =>
        \A p \in Scrapers :
          Succeeds(p) => Answered(p) \/ (pc[p] = "commit" /\ OthersRead(p))
  <2> SUFFICES ASSUME ScrapeInv, [Next]_vars, NEW p \in Scrapers, Succeeds(p)
               PROVE  Answered(p) \/ (pc[p] = "commit" /\ OthersRead(p))
    OBVIOUS
  <2>1. Check(p) \/ Commit(p)
    <3>1. ASSUME NEW o \in Scrapers, o # p, StepOf(o) PROVE FALSE
      BY <3>1 DEF StepOf, Succeeds
    <3>2. ASSUME NEW o \in Scrapers, NEW q \in Requested, NEW force \in BOOLEAN,
                 Ask(o, q, force)
          PROVE  FALSE
      <4>1. StepOf(o)
        BY <3>2, AskKeeps DEF Keeps
      <4>2. o = p
        BY <3>1, <4>1
      <4>3. QED
        BY <3>2, <4>2 DEF Ask, Goto, Succeeds, ScrapeInv, TypeOK
    <3>3. ASSUME NEW o \in Scrapers, Work(o) \/ Crash(o) PROVE o = p
      BY <3>1, <3>3, WorkKeeps, AbandonKeeps DEF Keeps, Crash, Idle
    <3>4. Work(p) \/ Crash(p)
      <4>1. pc' # pc
        BY DEF Succeeds
      <4>2. QED
        BY <3>2, <3>3, <4>1 DEF Next, BeginRead, EndRead, vars
    <3>5. Work(p)
      BY <3>4 DEF Crash, Abandon, Leave, Goto, Succeeds, ScrapeInv, TypeOK
    <3>6. ~ScrapeNext(p)
      BY DEF ScrapeNext, SkipTarget, FillTarget, PassTarget, FailTarget, BusyTarget,
             Abandon, Leave, Goto, Succeeds, ScrapeInv, TypeOK
    <3>7. QED
      BY <3>5, <3>6
      DEF Work, Open, AddRow, Clear, Begin, MarkDone, Abandon, Leave, Goto,
          Succeeds, ScrapeInv, TypeOK
  <2>2. CASE Check(p)
    BY <2>2 DEF Check, Abandon, Leave, Goto, Succeeds, Answered, CompletedPath,
                ScrapeInv, TypeOK
  <2>3. CASE Commit(p)
    <3> DEFINE q == req[p].prefix
    <3>1. /\ pc[p] = "commit" /\ q \in Paths /\ Len(q) > 1
          /\ q \in AttrSets /\ q \in db.rows /\ dirty = Result(db, q)
      BY <2>3, RequestedAssumption
      DEF Commit, ScrapeInv, WayIn, TxnOnTrack, Request, Idle, InTxn
    <3>2. CASE OthersRead(p)
      BY <3>1, <3>2
    <3>3. CASE ~OthersRead(p)
      <4>1. db' = Result(db, q)
        BY <2>3, <3>1, <3>3 DEF Commit
      <4>2. q \in Result(db, q).done
        <5> DEFINE D == IF q \in db.done THEN db ELSE Filled(db, q)
        <5>1. D \in Contents /\ db.rows \subseteq D.rows
          BY <3>1, FilledEffect DEF ScrapeInv, TypeOK
        <5>2. Parent(q) \in db.rows /\ IsPrefix(q, q)
          BY <3>1, ParentLen, PrefixRefl, PathsAssumption
          DEF ScrapeInv, Sound, IsRooted, HasParentRow
        <5>3. q \in SubtreeRows(D, q)
          BY <3>1, <5>1, <5>2 DEF SubtreeRows
        <5>4. Result(db, q) = SetPrefixDone(D, q, TRUE)
          BY DEF Result
        <5> HIDE DEF D
        <5>5. QED
          BY <5>1, <5>3, <5>4, SetPrefixDoneEffect
      <4>3. QED
        BY <3>1, <4>1, <4>2, PrefixRefl, PathsAssumption DEF Answered, CompletedPath
    <3>4. QED
      BY <3>2, <3>3
  <2>4. QED
    BY <2>1, <2>2, <2>3
<1>2. QED
  BY <1>1, ScrapeInvariant, PTL DEF Spec, OkUnlessRefused
=============================================================================
