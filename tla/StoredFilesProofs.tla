--------------------------- MODULE StoredFilesProofs ---------------------------
(***************************************************************************)
(* Proofs about StoredFiles, for any number of handlers, rows and files.   *)
(* The parts of the invariant: a file that is being uploaded is known to   *)
(* its request alone; what is registered lies in the store until somebody  *)
(* is about to delete its row; the counters never run ahead; and, as long  *)
(* as no two requests have overlapped, they are exact, every registered    *)
(* file is in somebody's hands or was let go, nobody is out to delete what *)
(* a row refers to, and the mark says what was mailed.                     *)
(***************************************************************************)
EXTENDS StoredFiles, FiniteSetTheorems, TLAPS

\* A request is still about its upload.
Early == {"sum", "quota", "upload", "register", "drop"}

Fits(q) ==
  /\ q.at \in Early => q.file # 0
  /\ q.at \in {"blob", "unlink"} => q.file \in q.kill
  /\ q.kill # {} => q.at \in {"find", "blob", "unlink", "list"}
  /\ q.new # {} => q.at \in Early \union {"owner", "write", "answer"}
  /\ q.op \in {"edit", "remove"} => q.at = "write" /\ q.new = {}
  /\ q.at \in Early \union {"owner", "write"} => q.op # "none" /\ (q.op = "create" => q.old = {})

\* The ids a request has taken and not registered, and the files it knows of.
Own(q)  == IF q.at \in Early THEN {q.file} \union IF q.thumb THEN {q.file + 1} ELSE {} ELSE {}
Held(q) == q.old \union q.new \union q.kill

Known == /\ stored \subseteq 1 .. last
         /\ \A a \in Rows : refs[a] \subseteq stored
         /\ \A a \in Rows : refs[a] # {} => a \in exists
Fresh == /\ \A r \in Requests : Own(req[r]) \subseteq 1 .. last /\ Held(req[r]) \subseteq 1 .. last
         /\ \A r \in Requests : Own(req[r]) \intersect stored = {}
         /\ \A r, q \in Requests : Own(req[r]) \intersect Held(req[q]) = {}
         /\ \A r, q \in Requests : r # q => Own(req[r]) \intersect Own(req[q]) = {}
         /\ torn \subseteq 1 .. last /\ \A r \in Requests : Own(req[r]) \intersect torn = {}
ShapeInv == TypeOK /\ (\A r \in Requests : Fits(req[r])) /\ Known /\ Fresh

Losing(q, f) == q.at = "unlink" /\ q.file = f
InStore == /\ \A f \in stored : f \in objects \union torn \/ \E r \in Requests : Losing(req[r], f)
           /\ \A r \in Requests : req[r].at = "register" => req[r].file \in objects

NotAhead == usage.bytes <= Bytes[stored] /\ usage.files <= Cardinality(stored)
Exact    == usage.bytes = Bytes[stored] /\ usage.files = Cardinality(stored)

OneAtATime == \A p, q \in Requests : ~At(p, "idle") /\ ~At(q, "idle") => p = q

\* What a request that runs alone has read is still so.
Current(q, rf, st, mark) ==
  /\ q.at \in {"blob", "unlink"} => q.file \in st
  /\ q.at \in Early \union {"owner", "write"} => rf[q.row] = q.old
  /\ q.at = "answer" => q.new \subseteq rf[q.row]
  /\ q.at = "notify" => q.seen = mark

\* Nobody refers to what a request has registered but the row it is given to, nor,
\* unless the request of that row failed after its insertion, to what is being
\* deleted or was half deleted.
Apart(rf) == \A a, b \in Rows : a # b => rf[a] \intersect rf[b] = {}
Clear(q, rf, tn, un) ==
  /\ q.new \intersect tn = {}
  /\ \A a \in Rows : (q.at = "answer" => a # q.row) => rf[a] \intersect q.new = {}
  /\ \A a \in Rows \ un : rf[a] \intersect tn = {} /\ (q.at # "list" => rf[a] \intersect q.kill = {})

Hand(q)  == IF q.at = "list" THEN {} ELSE q.new \union q.kill
Cared(f) == (\E a \in Rows : f \in refs[a]) \/ \E r \in Requests : f \in Hand(req[r])

\* What was mailed is marked, or is about to be.
Marked == \/ mailed <= alerted /\ \A r \in Requests : ~At(r, "mark")
          \/ \E r \in Requests : At(r, "mark") /\ mailed <= req[r].pct

AloneInv ==
  ~overlapped => /\ OneAtATime /\ Exact
                 /\ \A r \in Requests : Current(req[r], refs, stored, alerted)
                 /\ ~unmarked => Marked
                 /\ \A f \in stored : Cared(f) \/ f \in left
                 /\ Apart(refs) /\ \A a \in Rows \ unanswered : refs[a] \intersect torn = {}
                 /\ \A r \in Requests : Clear(req[r], refs, torn, unanswered)

IInv == ShapeInv /\ InStore /\ NotAhead /\ AloneInv

-----------------------------------------------------------------------------
(* Bytes and numbers of sets of files.                                     *)

LEMMA Bounds == /\ MaxFiles \in Nat /\ MaxEdits \in Nat /\ MaxFaults \in Nat
                /\ Files = 1 .. MaxFiles
BY BoundAssumption DEF Files

LEMMA Counts ==
  ASSUME NEW S \in SUBSET Files
  PROVE  IsFiniteSet(S) /\ Cardinality(S) \in Nat /\ Bytes[S] \in Nat
<1>1. IsFiniteSet(Files)
  BY Bounds, FS_Interval
<1>2. IsFiniteSet(S)
  BY <1>1, FS_Subset
<1> QED
  BY <1>2, FS_CardinalityType, BytesAssumption

LEMMA OneMore ==
  ASSUME NEW S \in SUBSET Files, NEW f \in Files \ S
  PROVE  /\ S \union {f} \in SUBSET Files
         /\ Bytes[S \union {f}] = Bytes[S] + Bytes[{f}]
         /\ Cardinality(S \union {f}) = Cardinality(S) + 1
         /\ Bytes[{f}] \in Nat
<1>1. IsFiniteSet(S)
  BY Counts
<1>2. Cardinality(S \union {f}) = Cardinality(S) + 1
  BY <1>1, FS_AddElement
<1>3. {f} \in SUBSET Files
  OBVIOUS
<1> QED
  BY <1>2, <1>3, BytesAssumption

LEMMA OneLess ==
  ASSUME NEW S \in SUBSET Files, NEW f \in S
  PROVE  /\ Bytes[S] = Bytes[S \ {f}] + Bytes[{f}] /\ Cardinality(S) = Cardinality(S \ {f}) + 1
         /\ Bytes[S \ {f}] \in Nat /\ Bytes[{f}] \in Nat /\ Cardinality(S \ {f}) \in Nat
<1>1. S \ {f} \in SUBSET Files /\ f \in Files \ (S \ {f}) /\ (S \ {f}) \union {f} = S
  OBVIOUS
<1> QED
  BY <1>1, OneMore, Counts

-----------------------------------------------------------------------------
(* What a request is, and what the invariant says of it.                   *)

RowsTyped ==
  /\ kind \in [Rows -> Kinds] /\ refs \in [Rows -> SUBSET Files] /\ exists \subseteq Rows
  /\ stored \subseteq Files /\ objects \subseteq Files /\ usage \in [bytes : Nat, files : Nat]
  /\ alerted \in Thresholds /\ last \in 0 .. MaxFiles
PastTyped ==
  /\ edits \in 0 .. MaxEdits /\ faults \in 0 .. MaxFaults
  /\ left \subseteq Files /\ torn \subseteq Files /\ unanswered \subseteq Rows
  /\ overlapped \in BOOLEAN /\ unmarked \in BOOLEAN
  /\ mailed \in Thresholds

LEMMA Facts ==
  ASSUME IInv
  PROVE  /\ RowsTyped /\ PastTyped /\ req \in [Requests -> Request] /\ Known /\ Fresh
         /\ InStore /\ NotAhead /\ AloneInv
BY DEF IInv, ShapeInv, TypeOK, RowsTyped, PastTyped

LEMMA Typed ==
  ASSUME IInv, NEW r \in Requests
  PROVE  req[r] \in Request /\ Fits(req[r])
BY Facts DEF IInv, ShapeInv

LEMMA IdleType == Idle \in Request /\ Fits(Idle)
<1>1. (CHOOSE a \in Rows : TRUE) \in Rows
  BY FirstAssumption
<1> QED
  BY <1>1 DEF Idle, Request, Steps, Ops, Thresholds, Fits, Early

LEMMA IdleIs == /\ Idle.at = "idle" /\ Idle.op = "none" /\ Idle.old = {} /\ Idle.new = {}
                /\ Idle.kill = {} /\ Idle.file = 0 /\ Idle.thumb = FALSE
BY DEF Idle

\* What is left to delete after a handler has come to its end.
LEMMA KillingIs ==
  ASSUME NEW fs \in SUBSET Files
  PROVE  /\ Killing(fs) \in Request /\ Fits(Killing(fs))
         /\ Killing(fs).at \in {"idle", "find"} /\ Killing(fs).old = {} /\ Killing(fs).new = {}
         /\ Killing(fs).kill = fs /\ Own(Killing(fs)) = {}
<1>1. CASE fs = {}
  BY <1>1, IdleType, IdleIs DEF Killing, Own, Early
<1>2. CASE fs # {}
  <2> DEFINE x == [Idle EXCEPT !.at = "find", !.kill = fs]
  <2>1. Killing(fs) = x
    BY <1>2 DEF Killing
  <2>2. x \in Request
    BY IdleType DEF Request, Steps
  <2>3. x.at = "find" /\ x.op = "none" /\ x.old = {} /\ x.new = {} /\ x.kill = fs
    BY IdleType, IdleIs DEF Request
  <2> HIDE DEF x
  <2> QED
    BY <2>1, <2>2, <2>3 DEF Fits, Own, Early
<1> QED
  BY <1>1, <1>2

-----------------------------------------------------------------------------
(* A step of request r, which goes on with x.                              *)

\* If no two requests have overlapped afterwards, r is the only one.
Takes(r, x) ==
  /\ req' = [req EXCEPT ![r] = x]
  /\ ~overlapped' => ~overlapped /\ \A p \in Requests \ {r} : At(p, "idle")

LEMMA GotoTakes ==
  ASSUME IInv, NEW r \in Requests, ~At(r, "idle"), NEW x, Goto(r, x)
  PROVE  Takes(r, x) /\ UNCHANGED <<edits, overlapped>>
<1>1. ~overlapped => OneAtATime
  BY Facts DEF AloneInv
<1> QED
  BY <1>1 DEF Takes, Goto, OneAtATime

LEMMA StartTakes ==
  ASSUME IInv, NEW r \in Requests, NEW x, Start(r, x)
  PROVE  /\ Takes(r, x) /\ overlapped' \in BOOLEAN /\ UNCHANGED <<faults, past>> /\ At(r, "idle")
<1>1. (overlapped \/ \E p \in Requests \ {r} : ~At(p, "idle")) \in BOOLEAN
  OBVIOUS
<1> QED
  BY <1>1 DEF Takes, Start

LEMMA After ==
  ASSUME IInv, NEW r \in Requests, NEW x \in Request, Takes(r, x)
  PROVE  /\ req' \in [Requests -> Request] /\ req'[r] = x
         /\ \A q \in Requests \ {r} : req'[q] = req[q]
BY Facts DEF Takes

LEMMA ShapeKept ==
  ASSUME IInv, NEW r \in Requests, NEW x \in Request, Takes(r, x), Fits(x), RowsTyped', PastTyped',
         last <= last',
         Own(x) \subseteq Own(req[r]) \union (last + 1 .. last'),
         Held(x) \subseteq Held(req[r]) \union stored \union (Own(req[r]) \ Own(x)),
         torn' \subseteq torn \union Held(req[r]),
         stored' \subseteq stored \union (Own(req[r]) \ Own(x)),
         \A a \in Rows : refs'[a] \subseteq stored',
         \A a \in Rows : refs'[a] # {} => a \in exists'
  PROVE  ShapeInv'
<1>1. /\ req' \in [Requests -> Request] /\ req'[r] = x
      /\ \A q \in Requests \ {r} : req'[q] = req[q]
  BY After
<1>2. TypeOK' /\ \A q \in Requests : Fits(req'[q])
  BY <1>1, Typed DEF TypeOK, RowsTyped, PastTyped
<1>3. last \in Nat /\ last' \in Nat /\ 1 .. last \subseteq 1 .. last'
  BY Facts, Bounds DEF RowsTyped
<1>4. /\ stored \subseteq 1 .. last
      /\ \A q \in Requests : Own(req[q]) \subseteq 1 .. last /\ Held(req[q]) \subseteq 1 .. last
      /\ \A q \in Requests : Own(req[q]) \intersect stored = {}
      /\ \A p, q \in Requests : Own(req[p]) \intersect Held(req[q]) = {}
      /\ \A p, q \in Requests : p # q => Own(req[p]) \intersect Own(req[q]) = {}
      /\ torn \subseteq 1 .. last /\ \A q \in Requests : Own(req[q]) \intersect torn = {}
  BY Facts DEF Known, Fresh
<1>5. last + 1 .. last' \subseteq 1 .. last' /\ (last + 1 .. last') \intersect (1 .. last) = {}
  BY <1>3
<1>6. /\ Own(x) \subseteq 1 .. last' /\ Held(x) \subseteq 1 .. last' /\ stored' \subseteq 1 .. last'
  BY <1>3, <1>4, <1>5
<1>7. Own(x) \intersect stored' = {} /\ Own(x) \intersect Held(x) = {}
  BY <1>4, <1>5
<1>8. \A q \in Requests \ {r} :
        /\ Own(req[q]) \intersect stored' = {} /\ Own(req[q]) \intersect Own(x) = {}
        /\ Own(req[q]) \intersect Held(x) = {} /\ Own(x) \intersect Held(req[q]) = {}
  BY <1>4, <1>5
<1>9. \A q \in Requests :
        /\ Own(req'[q]) \subseteq 1 .. last' /\ Held(req'[q]) \subseteq 1 .. last'
        /\ Own(req'[q]) \intersect stored' = {}
  BY <1>1, <1>3, <1>4, <1>6, <1>7, <1>8
<1>10. \A p, q \in Requests :
         /\ Own(req'[p]) \intersect Held(req'[q]) = {}
         /\ p # q => Own(req'[p]) \intersect Own(req'[q]) = {}
  BY <1>1, <1>4, <1>7, <1>8
<1>13. /\ torn' \subseteq 1 .. last' /\ torn' \subseteq 1 .. last
       /\ \A q \in Requests : Own(req[q]) \intersect torn' = {}
  BY <1>3, <1>4
<1>14. \A q \in Requests : Own(req'[q]) \intersect torn' = {}
  BY <1>1, <1>5, <1>13
<1>11. Fresh'
  BY <1>9, <1>10, <1>13, <1>14 DEF Fresh, Own, Held
<1>12. Known'
  BY <1>6 DEF Known
<1> QED
  BY <1>2, <1>11, <1>12 DEF ShapeInv, Fits

LEMMA StoreKept ==
  ASSUME IInv, NEW r \in Requests, NEW x \in Request, Takes(r, x), torn \subseteq torn',
         \A f \in stored' : \/ f \in objects' \union torn' \/ Losing(x, f)
                            \/ f \in stored \ objects /\ ~Losing(req[r], f),
         x.at = "register" => x.file \in objects',
         objects \ objects' \subseteq Own(req[r]) \union Held(req[r])
  PROVE  InStore'
<1>1. req'[r] = x /\ \A q \in Requests \ {r} : req'[q] = req[q]
  BY After
<1>2. /\ \A f \in stored : f \in objects \union torn \/ \E q \in Requests : Losing(req[q], f)
      /\ \A q \in Requests : req[q].at = "register" => req[q].file \in objects
  BY Facts DEF InStore
<1>3. ASSUME NEW f \in stored'
      PROVE  f \in objects' \union torn' \/ \E q \in Requests : Losing(req'[q], f)
  <2>1. CASE f \in objects' \union torn' \/ Losing(x, f)
    BY <1>1, <2>1
  <2>2. CASE f \in stored \ objects /\ ~Losing(req[r], f)
    BY <1>1, <1>2, <1>3, <2>2
  <2> QED
    BY <2>1, <2>2
<1>4. ASSUME NEW q \in Requests \ {r}, req[q].at = "register"
      PROVE  req[q].file \in objects'
  <2>1. req[q].file \in Own(req[q])
    BY <1>4 DEF Own, Early
  <2>2. req[q].file \notin Own(req[r]) \union Held(req[r])
    BY <2>1, Facts DEF Fresh
  <2> QED
    BY <1>2, <1>4, <2>2
<1> QED
  BY <1>1, <1>3, <1>4 DEF InStore, Losing

\* What is mailed, for the one request there is.
MarkedFor(q, m, mark) == IF q.at = "mark" THEN m <= q.pct ELSE m <= mark

\* Where the files are, for the one request there is.
InHands(q, rf, st, lf) ==
  \A f \in st : (\E a \in Rows : f \in rf[a]) \/ f \in Hand(q) \/ f \in lf

LEMMA Alone ==
  ASSUME IInv, NEW r \in Requests, ~overlapped, \A p \in Requests \ {r} : At(p, "idle")
  PROVE  /\ Exact /\ Current(req[r], refs, stored, alerted)
         /\ ~unmarked => MarkedFor(req[r], mailed, alerted)
         /\ InHands(req[r], refs, stored, left)
         /\ Apart(refs) /\ Clear(req[r], refs, torn, unanswered)
<1>1. /\ Exact /\ Current(req[r], refs, stored, alerted)
      /\ ~unmarked => Marked
      /\ \A f \in stored : Cared(f) \/ f \in left
      /\ Apart(refs) /\ Clear(req[r], refs, torn, unanswered)
  BY Facts DEF AloneInv
<1>2. \A p \in Requests \ {r} : Hand(req[p]) = {}
  BY Typed DEF Hand, Fits, At, Early
<1>3. InHands(req[r], refs, stored, left)
  BY <1>1, <1>2 DEF Cared, InHands
<1>4. ~unmarked => MarkedFor(req[r], mailed, alerted)
  BY <1>1 DEF Marked, MarkedFor, At
<1> QED
  BY <1>1, <1>3, <1>4

LEMMA AloneKept ==
  ASSUME IInv, NEW r \in Requests, NEW x \in Request, Takes(r, x),
         ~overlapped' =>
           /\ Exact' /\ Current(x, refs', stored', alerted')
           /\ ~unmarked' => MarkedFor(x, mailed', alerted')
           /\ InHands(x, refs', stored', left')
           /\ Apart(refs') /\ Clear(x, refs', torn', unanswered')
  PROVE  AloneInv'
<1> SUFFICES ASSUME ~overlapped'
             PROVE  /\ OneAtATime' /\ Exact'
                    /\ \A q \in Requests : Current(req'[q], refs', stored', alerted')
                    /\ ~unmarked' => Marked'
                    /\ \A f \in stored' : Cared(f)' \/ f \in left'
                    /\ Apart(refs') /\ \A a \in Rows \ unanswered' : refs'[a] \intersect torn' = {}
                    /\ \A q \in Requests : Clear(req'[q], refs', torn', unanswered')
  BY DEF AloneInv, Current, Apart, Clear
<1>1. req'[r] = x /\ \A q \in Requests \ {r} : req'[q] = req[q] /\ req[q].at = "idle"
  BY After DEF Takes, At
<1>2. OneAtATime'
  BY <1>1 DEF OneAtATime, At
<1>3. \A q \in Requests : Current(req'[q], refs', stored', alerted')
  BY <1>1 DEF Current, Early
<1>4. ~unmarked' => Marked'
  BY <1>1 DEF MarkedFor, Marked, At
<1>5. \A f \in stored' : Cared(f)' \/ f \in left'
  BY <1>1 DEF Cared, InHands
<1>6. \A q \in Requests : Clear(req'[q], refs', torn', unanswered')
  <2>1. \A q \in Requests \ {r} : req[q].new = {} /\ req[q].kill = {}
    BY <1>1, Typed DEF Fits, Early
  <2>2. \A q \in Requests \ {r} : Clear(req'[q], refs', torn', unanswered')
    BY <1>1, <2>1 DEF Clear
  <2> QED
    BY <1>1, <2>2
<1>7. \A a \in Rows \ unanswered' : refs'[a] \intersect torn' = {}
  BY DEF Clear
<1> QED
  BY <1>2, <1>3, <1>4, <1>5, <1>6, <1>7

-----------------------------------------------------------------------------
(* Calls.                                                                  *)

LEMMA CallKeeps ==
  ASSUME IInv, NEW r \in Requests, NEW x \in Request, Start(r, x), Fits(x),
         UNCHANGED <<kind, refs, exists, stored, objects, usage, alerted>>,
         edits' \in 0 .. MaxEdits, last' \in 0 .. MaxFiles, last <= last',
         Own(x) \subseteq last + 1 .. last', Held(x) \subseteq stored,
         x.at \notin {"register", "mark", "answer"}, Current(x, refs, stored, alerted),
         x.new = {}, x.at # "list" => x.kill = {}
  PROVE  IInv'
<1>1. /\ Takes(r, x) /\ overlapped' \in BOOLEAN /\ req[r].at = "idle"
      /\ UNCHANGED <<faults, left, torn, unanswered, unmarked, mailed>>
  BY StartTakes DEF past, lost, At
<1>2. RowsTyped' /\ PastTyped'
  BY <1>1, Facts DEF RowsTyped, PastTyped
<1>3. (\A a \in Rows : refs'[a] \subseteq stored') /\ \A a \in Rows : refs'[a] # {} => a \in exists'
  BY Facts DEF Known
<1>4. ShapeInv'
  BY <1>1, <1>2, <1>3, ShapeKept
<1>5. InStore'
  BY <1>1, StoreKept DEF Losing
<1>6. NotAhead' /\ (Exact => Exact')
  BY Facts DEF NotAhead, Exact
<1>7. ASSUME ~overlapped'
      PROVE  /\ Exact' /\ Current(x, refs', stored', alerted')
             /\ ~unmarked' => MarkedFor(x, mailed', alerted')
             /\ InHands(x, refs', stored', left')
             /\ Apart(refs') /\ Clear(x, refs', torn', unanswered')
  <2>1. ~overlapped /\ \A p \in Requests \ {r} : At(p, "idle")
    BY <1>1, <1>7 DEF Takes
  <2>2. /\ Exact
        /\ ~unmarked => MarkedFor(req[r], mailed, alerted)
        /\ InHands(req[r], refs, stored, left)
        /\ Apart(refs) /\ Clear(req[r], refs, torn, unanswered)
    BY <2>1, Alone
  <2>3. Hand(req[r]) = {}
    BY <1>1, Typed DEF Hand, Fits, Early
  <2>4. Clear(x, refs', torn', unanswered')
    BY <1>1, <2>2 DEF Clear
  <2>5. InHands(x, refs', stored', left')
    BY <1>1, <2>2, <2>3 DEF InHands
  <2> QED
    BY <1>1, <1>6, <2>2, <2>4, <2>5 DEF MarkedFor
<1>8. AloneInv'
  BY <1>1, <1>7, AloneKept
<1> QED
  BY <1>4, <1>5, <1>6, <1>8 DEF IInv

LEMMA PictureCall ==
  ASSUME IInv, NEW r \in Requests, NEW a \in Rows, WithPicture(r, a)
  PROVE  IInv'
<1> DEFINE x == [Idle EXCEPT !.at = "sum", !.op = "replace", !.row = a,
                             !.old = refs[a], !.file = last + 1]
<1>1. /\ Start(r, x) /\ last' = last + 1 /\ last < MaxFiles
      /\ UNCHANGED <<kind, refs, exists, stored, objects, usage, alerted, edits>>
  BY DEF WithPicture
<1>2. last \in 0 .. MaxFiles /\ refs[a] \in SUBSET Files /\ refs[a] \subseteq stored
      /\ edits \in 0 .. MaxEdits
  BY Facts DEF RowsTyped, PastTyped, Known
<1>3. last' \in 0 .. MaxFiles /\ last <= last' /\ last + 1 \in Files /\ last + 1 # 0
      /\ last + 1 .. last' = {last + 1}
  BY <1>1, <1>2, Bounds
<1>4. x \in Request
  BY <1>2, <1>3, IdleType DEF Request, Steps, Ops
<1>5. /\ x.at = "sum" /\ x.op = "replace" /\ x.row = a /\ x.old = refs[a] /\ x.file = last + 1
      /\ x.thumb = FALSE /\ x.new = {} /\ x.kill = {}
  BY IdleType, IdleIs DEF Request
<1> HIDE DEF x
<1>6. Fits(x) /\ Current(x, refs, stored, alerted)
  BY <1>3, <1>5 DEF Fits, Current
<1>7. Own(x) = {last + 1} /\ Held(x) = refs[a]
  BY <1>5 DEF Own, Held, Early
<1> QED
  BY <1>1, <1>2, <1>3, <1>4, <1>5, <1>6, <1>7, CallKeeps

LEMMA NewCall ==
  ASSUME IInv, NEW r \in Requests, NEW a \in Rows, NEW n \in {1, 2}, NewRow(r, a, n)
  PROVE  IInv'
<1> DEFINE two == n = 2
           x == [Idle EXCEPT !.at = "sum", !.op = "create", !.row = a,
                             !.file = last + 1, !.thumb = two]
<1>1. /\ Start(r, x) /\ last' = last + n /\ last + n <= MaxFiles /\ a \notin exists
      /\ UNCHANGED <<kind, refs, exists, stored, objects, usage, alerted, edits>>
  BY DEF NewRow
<1>2. last \in 0 .. MaxFiles /\ edits \in 0 .. MaxEdits /\ refs[a] = {}
  BY <1>1, Facts DEF RowsTyped, PastTyped, Known
<1>3. last' \in 0 .. MaxFiles /\ last <= last' /\ last + 1 \in Files /\ last + 1 # 0
      /\ last + 1 .. last' = {last + 1} \union IF n = 2 THEN {last + 2} ELSE {}
  BY <1>1, <1>2, Bounds
<1>4. two \in BOOLEAN /\ (two <=> n = 2)
  OBVIOUS
<1> HIDE DEF two
<1>5. x \in Request
  BY <1>3, <1>4, IdleType DEF Request, Steps, Ops
<1>6. /\ x.at = "sum" /\ x.op = "create" /\ x.row = a /\ x.old = {} /\ x.file = last + 1
      /\ x.thumb = two /\ x.new = {} /\ x.kill = {}
  BY IdleType, IdleIs DEF Request
<1> HIDE DEF x
<1>7. Fits(x) /\ Current(x, refs, stored, alerted)
  BY <1>2, <1>3, <1>6 DEF Fits, Current
<1>8. Own(x) = last + 1 .. last'
  <2>1. last + 1 + 1 = last + 2
    BY <1>2
  <2> QED
    BY <1>3, <1>4, <1>6, <2>1 DEF Own, Early
<1>9. Held(x) = {}
  BY <1>6 DEF Held
<1> QED
  BY <1>1, <1>2, <1>3, <1>5, <1>6, <1>7, <1>8, <1>9, CallKeeps

LEMMA OtherCalls ==
  ASSUME IInv, NEW r \in Requests
  PROVE  /\ \A a \in Rows : Edit(r, a) \/ RemovePicture(r, a) => IInv'
         /\ ReconcileFiles(r) \/ WarnNearLimit(r) => IInv'
<1>1. /\ RowsTyped /\ Known /\ Idle \in Request
      /\ {"write", "list", "notify"} \subseteq Steps /\ {"edit", "remove"} \subseteq Ops
      /\ last \in 0 .. MaxFiles /\ last <= last
  BY Facts, IdleType, Bounds DEF Steps, Ops, RowsTyped
<1>2. Edited => edits' \in 0 .. MaxEdits
  BY Facts, Bounds DEF Edited, PastTyped
<1>3. ASSUME NEW x \in Request, Start(r, x), UNCHANGED rows, Edited, Fits(x), Held(x) \subseteq stored,
             x.at \in {"write", "list", "notify"}, Current(x, refs, stored, alerted),
             x.new = {}, x.at # "list" => x.kill = {}
      PROVE  IInv'
  <2>1. Own(x) = {}
    BY <1>3 DEF Own, Early
  <2>2. UNCHANGED <<kind, refs, exists, stored, objects, usage, alerted, last>>
    BY <1>3 DEF rows
  <2> QED
    BY <1>1, <1>2, <1>3, <2>1, <2>2, CallKeeps
<1>4. ASSUME NEW a \in Rows, NEW op \in {"edit", "remove"}, UNCHANGED rows, Edited,
             Start(r, [Idle EXCEPT !.at = "write", !.op = op, !.row = a, !.old = refs[a]])
      PROVE  IInv'
  <2> DEFINE x == [Idle EXCEPT !.at = "write", !.op = op, !.row = a, !.old = refs[a]]
  <2>1. refs[a] \in SUBSET Files /\ refs[a] \subseteq stored
    BY <1>1 DEF RowsTyped, Known
  <2>2. x \in Request
    BY <1>1, <2>1 DEF Request
  <2>3. /\ x.at = "write" /\ x.op = op /\ x.row = a /\ x.old = refs[a]
        /\ x.new = {} /\ x.kill = {}
    BY <1>1, IdleIs DEF Request
  <2>4. Start(r, x)
    BY <1>4
  <2> HIDE DEF x
  <2>5. Fits(x) /\ Current(x, refs, stored, alerted) /\ Held(x) \subseteq stored
    BY <2>1, <2>3 DEF Fits, Current, Held, Early
  <2> QED
    BY <1>3, <1>4, <2>2, <2>3, <2>4, <2>5
<1>5. \A a \in Rows : Edit(r, a) => IInv'
  BY <1>4 DEF Edit
<1>6. \A a \in Rows : RemovePicture(r, a) => IInv'
  BY <1>4 DEF RemovePicture
<1>7. ReconcileFiles(r) => IInv'
  <2> DEFINE x == [Idle EXCEPT !.at = "list", !.kill = stored]
  <2>1. x \in Request
    BY <1>1 DEF Request, RowsTyped
  <2>2. x.at = "list" /\ x.op = "none" /\ x.old = {} /\ x.new = {} /\ x.kill = stored
    BY <1>1, IdleIs DEF Request
  <2>3. ReconcileFiles(r) => Start(r, x) /\ Edited /\ UNCHANGED rows
    BY DEF ReconcileFiles
  <2> HIDE DEF x
  <2>4. Fits(x) /\ Current(x, refs, stored, alerted) /\ Held(x) \subseteq stored
    BY <2>2 DEF Fits, Current, Held, Early
  <2> QED
    BY <1>3, <2>1, <2>2, <2>3, <2>4
<1>8. ASSUME NEW held \in Reservations, UNCHANGED rows, Edited,
             Start(r, [Idle EXCEPT !.at = "notify", !.pct = Crossed(held), !.seen = alerted])
      PROVE  IInv'
  <2> DEFINE x == [Idle EXCEPT !.at = "notify", !.pct = Crossed(held), !.seen = alerted]
  <2>1. Crossed(held) \in Thresholds /\ alerted \in Thresholds
    BY <1>1 DEF Crossed, Thresholds, RowsTyped
  <2>2. x \in Request
    BY <1>1, <2>1 DEF Request
  <2>3. x.at = "notify" /\ x.op = "none" /\ x.old = {} /\ x.new = {} /\ x.kill = {} /\ x.seen = alerted
    BY <1>1, IdleIs DEF Request
  <2>4. Start(r, x)
    BY <1>8
  <2> HIDE DEF x
  <2>5. Fits(x) /\ Current(x, refs, stored, alerted) /\ Held(x) \subseteq stored
    BY <2>3 DEF Fits, Current, Held, Early
  <2> QED
    BY <1>3, <1>8, <2>2, <2>3, <2>4, <2>5
<1>9. WarnNearLimit(r) => IInv'
  BY <1>8 DEF WarnNearLimit
<1> QED
  BY <1>5, <1>6, <1>7, <1>9

LEMMA CallInv ==
  ASSUME IInv, NEW r \in Requests, Call(r)
  PROVE  IInv'
<1>1. ASSUME NEW a \in Rows,
             UpdateAsset(r, a) \/ UpdateOwner(r, a) \/ UpdateOwnProfile(r, a) \/ UpdateSettings(r, a)
      PROVE  IInv'
  BY <1>1, PictureCall DEF UpdateAsset, UpdateOwner, UpdateOwnProfile, UpdateSettings
<1>2. ASSUME NEW a \in Rows, CreateAsset(r, a) \/ CreateOwner(r, a) \/ CreateService(r, a)
      PROVE  IInv'
  BY <1>2, NewCall DEF CreateAsset, CreateOwner, CreateService
<1> QED
  BY <1>1, <1>2, OtherCalls DEF Call

-----------------------------------------------------------------------------
(* Steps that leave rows, files and counters alone.                        *)

LEMMA Quiet ==
  ASSUME IInv, NEW r \in Requests, NEW x \in Request, ~At(r, "idle"), Goto(r, x),
         Fits(x), UNCHANGED rows, PastTyped',
         left \subseteq left', torn \subseteq torn', torn' \subseteq torn \union Held(req[r]),
         At(r, "unlink") => req[r].file \in torn',
         Own(x) \subseteq Own(req[r]), Held(x) \subseteq Held(req[r]),
         x.at = "register" => x.file \in objects,
         ~overlapped => /\ Current(x, refs, stored, alerted)
                        /\ ~unmarked' => MarkedFor(x, mailed', alerted)
                        /\ Hand(req[r]) \intersect stored \subseteq
                             Hand(x) \union left' \union UNION {refs[a] : a \in Rows}
                        /\ Clear(x, refs, torn', unanswered')
  PROVE  IInv'
<1>1. /\ Takes(r, x) /\ UNCHANGED overlapped
      /\ UNCHANGED <<kind, refs, exists, stored, objects, usage, alerted, last>>
  BY GotoTakes DEF rows
<1>2. RowsTyped' /\ last <= last'
  BY <1>1, Facts, Bounds DEF RowsTyped
<1>3. (\A a \in Rows : refs'[a] \subseteq stored') /\ \A a \in Rows : refs'[a] # {} => a \in exists'
  BY <1>1, Facts DEF Known
<1>4. ShapeInv'
  BY <1>1, <1>2, <1>3, ShapeKept
<1>5. InStore'
  <2>1. ASSUME NEW f \in stored'
        PROVE  f \in objects' \union torn' \/ (f \in stored \ objects /\ ~Losing(req[r], f))
    BY <1>1 DEF At, Losing
  <2> QED
    BY <1>1, <2>1, StoreKept
<1>6. NotAhead' /\ (Exact => Exact')
  BY <1>1, Facts DEF NotAhead, Exact
<1>7. ASSUME ~overlapped'
      PROVE  /\ Exact' /\ Current(x, refs', stored', alerted')
             /\ ~unmarked' => MarkedFor(x, mailed', alerted')
             /\ InHands(x, refs', stored', left')
             /\ Apart(refs') /\ Clear(x, refs', torn', unanswered')
  <2>1. ~overlapped /\ \A p \in Requests \ {r} : At(p, "idle")
    BY <1>1, <1>7 DEF Takes
  <2>2. Exact /\ InHands(req[r], refs, stored, left) /\ Apart(refs)
    BY <2>1, Alone
  <2>3. InHands(x, refs', stored', left')
    <3>1. ASSUME NEW f \in stored
          PROVE  (\E a \in Rows : f \in refs[a]) \/ f \in Hand(x) \/ f \in left'
      BY <2>1, <2>2 DEF InHands
    <3> QED
      BY <1>1, <3>1 DEF InHands
  <2> QED
    BY <1>1, <1>6, <2>1, <2>2, <2>3
<1>8. AloneInv'
  BY <1>1, <1>7, AloneKept
<1> QED
  BY <1>4, <1>5, <1>6, <1>8 DEF IInv

\* A request that runs alone is marked for what its step says.
LEMMA NotMarking ==
  ASSUME IInv, NEW r \in Requests, ~At(r, "idle"), ~At(r, "mark"), ~overlapped, ~unmarked
  PROVE  mailed <= alerted
<1>1. \A p \in Requests \ {r} : At(p, "idle")
  BY Facts DEF AloneInv, OneAtATime
<1> QED
  BY <1>1, Alone DEF MarkedFor, At

\* A handler that fails holds on to the files it has registered.
LEMMA GivenUp ==
  ASSUME IInv, NEW r \in Requests, GiveUp(r), UNCHANGED <<rows, left, torn, unmarked, mailed>>,
         unanswered \subseteq unanswered', At(r, "answer") => req[r].row \in unanswered',
         PastTyped', req[r].at \in Early \union {"owner", "write", "answer"}
  PROVE  IInv'
<1> DEFINE x == Killing(req[r].new)
<1>1. req[r] \in Request /\ Fits(req[r]) /\ req[r].new \in SUBSET Files
  BY Typed DEF Request
<1>2. /\ x \in Request /\ Fits(x) /\ x.at \in {"idle", "find"} /\ x.old = {} /\ x.new = {}
      /\ x.kill = req[r].new /\ Own(x) = {}
  BY <1>1, KillingIs
<1>3. Goto(r, x)
  BY DEF GiveUp
<1> HIDE DEF x
<1>4. ~At(r, "idle") /\ ~At(r, "unlink") /\ ~At(r, "mark") /\ ~At(r, "list") /\ req[r].kill = {}
  BY <1>1 DEF At, Early, Fits
<1>5. Held(x) \subseteq Held(req[r]) /\ Hand(req[r]) \subseteq Hand(x)
  BY <1>2, <1>4 DEF Held, Hand, At
<1>6. Current(x, refs, stored, alerted)
  BY <1>2 DEF Current, Early
<1>7. ~overlapped /\ ~unmarked => MarkedFor(x, mailed', alerted)
  BY <1>2, <1>4, NotMarking DEF MarkedFor
<1>8. ~overlapped => Clear(x, refs, torn', unanswered')
  <2>1. ~overlapped => Clear(req[r], refs, torn, unanswered)
    BY Facts DEF AloneInv
  <2> QED
    BY <1>2, <2>1 DEF Clear, At
<1>9. x.at # "register"
  BY <1>2
<1> QED
  BY <1>2, <1>3, <1>4, <1>5, <1>6, <1>7, <1>8, <1>9, Quiet

\* A handler that goes on to another of its steps with all it holds.
LEMMA GoesOn ==
  ASSUME IInv, NEW r \in Requests, NEW x \in Request, Goto(r, x), UNCHANGED <<rows, past>>, PastTyped',
         req[r].at \in Early \union {"owner"}, x.at \in (Early \ {"register"}) \union {"write"},
         x.op = req[r].op, x.row = req[r].row, x.file = req[r].file, x.thumb = req[r].thumb,
         x.old = req[r].old, x.new = req[r].new, x.kill = req[r].kill, Fits(x),
         x.at \in Early => req[r].at \in Early
  PROVE  IInv'
<1>1. /\ ~At(r, "idle") /\ ~At(r, "unlink") /\ ~At(r, "mark") /\ ~At(r, "list")
      /\ x.at \notin {"register", "list", "mark"}
  BY DEF At, Early
<1>2. Own(x) \subseteq Own(req[r]) /\ Held(x) = Held(req[r]) /\ Hand(req[r]) = Hand(x)
  BY <1>1 DEF Own, Held, Hand, At
<1>3. ~overlapped => Current(x, refs, stored, alerted)
  <2>1. ~overlapped => Current(req[r], refs, stored, alerted)
    BY Facts DEF AloneInv
  <2> QED
    BY <2>1 DEF Current, Early
<1>4. ~overlapped /\ ~unmarked => MarkedFor(x, mailed', alerted)
  BY <1>1, NotMarking DEF MarkedFor, past, lost
<1>5. UNCHANGED <<rows, lost, unmarked>>
  BY DEF past
<1>6. ~overlapped => Clear(x, refs, torn', unanswered')
  <2>1. ~overlapped => Clear(req[r], refs, torn, unanswered)
    BY Facts DEF AloneInv
  <2> QED
    BY <1>1, <1>5, <2>1 DEF Clear, At, Early, lost
<1> QED
  BY <1>1, <1>2, <1>3, <1>4, <1>5, <1>6, Quiet DEF lost

\* A handler that goes on by the name of its step alone.
LEMMA Named ==
  ASSUME NEW q \in Request, NEW step \in Steps
  PROVE  LET x == [q EXCEPT !.at = step] IN
         /\ x \in Request /\ x.at = step /\ x.op = q.op /\ x.row = q.row /\ x.old = q.old
         /\ x.new = q.new /\ x.kill = q.kill /\ x.file = q.file /\ x.thumb = q.thumb
         /\ x.pct = q.pct /\ x.seen = q.seen
BY DEF Request

LEMMA SumAndQuota ==
  ASSUME IInv, NEW r \in Requests
  PROVE  ReadSum(r) \/ CheckQuota(r) => IInv'
<1>1. req[r] \in Request /\ Fits(req[r]) /\ {"quota", "upload"} \subseteq Steps /\ Bytes[stored] \in Nat
  BY Typed, Facts, Counts DEF Steps, RowsTyped
<1>2. UNCHANGED <<faults, past, edits, overlapped>> => PastTyped'
  BY Facts DEF PastTyped, past, lost
<1>3. ASSUME ReadSum(r)
      PROVE  IInv'
  <2> DEFINE x == [req[r] EXCEPT !.at = "quota", !.sum = Bytes[stored]]
  <2>1. /\ req[r].at = "sum" /\ Goto(r, x) /\ UNCHANGED <<rows, past>>
        /\ UNCHANGED <<faults, past, edits, overlapped>>
    BY <1>3 DEF ReadSum, At, Goto
  <2>2. x \in Request
    BY <1>1 DEF Request
  <2>3. /\ x.at = "quota" /\ x.op = req[r].op /\ x.row = req[r].row /\ x.file = req[r].file
        /\ x.thumb = req[r].thumb /\ x.old = req[r].old /\ x.new = req[r].new /\ x.kill = req[r].kill
    BY <1>1 DEF Request
  <2> HIDE DEF x
  <2>4. Fits(x)
    BY <1>1, <2>1, <2>3 DEF Fits, Early
  <2>5. req[r].at \in Early /\ x.at \in Early \ {"register"}
    BY <2>1, <2>3 DEF Early
  <2> QED
    BY <1>2, <2>1, <2>2, <2>3, <2>4, <2>5, GoesOn
<1>4. ASSUME CheckQuota(r)
      PROVE  IInv'
  <2>1. /\ req[r].at = "quota" /\ UNCHANGED <<rows, faults, past>>
        /\ GiveUp(r) \/ Goto(r, [req[r] EXCEPT !.at = "upload"])
    BY <1>4 DEF CheckQuota, At, Onward
  <2>2. UNCHANGED <<faults, past, edits, overlapped>> /\ PastTyped'
    BY <1>2, <2>1 DEF GiveUp, Goto
  <2>3. CASE GiveUp(r)
    BY <2>1, <2>2, <2>3, GivenUp DEF Early, past, lost, At
  <2>4. CASE Goto(r, [req[r] EXCEPT !.at = "upload"])
    <3> DEFINE x == [req[r] EXCEPT !.at = "upload"]
    <3>1. /\ x \in Request /\ x.at = "upload" /\ x.op = req[r].op /\ x.row = req[r].row
          /\ x.file = req[r].file /\ x.thumb = req[r].thumb /\ x.old = req[r].old
          /\ x.new = req[r].new /\ x.kill = req[r].kill /\ Goto(r, x)
      BY <1>1, <2>4, Named
    <3> HIDE DEF x
    <3>2. Fits(x)
      BY <1>1, <2>1, <3>1 DEF Fits, Early
    <3>3. req[r].at \in Early /\ x.at \in Early \ {"register"}
      BY <2>1, <3>1 DEF Early
    <3> QED
      BY <2>1, <2>2, <3>1, <3>2, <3>3, GoesOn
  <2> QED
    BY <2>1, <2>3, <2>4
<1> QED
  BY <1>3, <1>4

LEMMA HandlerFails ==
  ASSUME IInv, NEW r \in Requests,
         UploadFails(r) \/ RegisterFails(r) \/ WriteFails(r) \/ AnswerFails(r)
  PROVE  IInv'
<1>1. /\ faults' \in 0 .. MaxFaults /\ UNCHANGED <<edits, overlapped, rows, left, torn, unmarked, mailed>>
      /\ unanswered' \subseteq Rows
  BY Facts, Typed, Bounds DEF UploadFails, RegisterFails, WriteFails, AnswerFails, Fault, GiveUp,
     Onward, Goto, PastTyped, past, lost, Request
<1>2. PastTyped'
  BY <1>1, Facts DEF PastTyped
<1>3. CASE UploadFails(r) \/ WriteFails(r) \/ AnswerFails(r)
  <2>1. /\ GiveUp(r) /\ req[r].at \in Early \union {"owner", "write", "answer"}
        /\ unanswered \subseteq unanswered' /\ (At(r, "answer") => req[r].row \in unanswered')
    BY <1>3 DEF UploadFails, WriteFails, AnswerFails, At, Early, past, lost
  <2> QED
    BY <1>1, <1>2, <2>1, GivenUp
<1>4. CASE RegisterFails(r)
  <2> DEFINE x == [req[r] EXCEPT !.at = "drop"]
  <2>1. req[r].at = "register" /\ Goto(r, x) /\ UNCHANGED <<rows, past>>
    BY <1>4 DEF RegisterFails, At, Onward
  <2>2. req[r] \in Request /\ Fits(req[r]) /\ "drop" \in Steps
    BY Typed DEF Steps
  <2>3. /\ x \in Request /\ x.at = "drop" /\ x.op = req[r].op /\ x.row = req[r].row
        /\ x.file = req[r].file /\ x.thumb = req[r].thumb /\ x.old = req[r].old
        /\ x.new = req[r].new /\ x.kill = req[r].kill
    BY <2>2, Named
  <2> HIDE DEF x
  <2>4. Fits(x)
    BY <2>1, <2>2, <2>3 DEF Fits, Early
  <2>5. req[r].at \in Early /\ x.at \in Early \ {"register"}
    BY <2>1, <2>3 DEF Early
  <2> QED
    BY <1>1, <1>2, <2>1, <2>3, <2>4, <2>5, GoesOn
<1> QED
  BY <1>3, <1>4

\* A request that has come to its end, with what it has not given to a row left behind.
LEMMA Ends ==
  ASSUME IInv, NEW r \in Requests, ~At(r, "idle"), Goto(r, Idle), UNCHANGED <<rows, unanswered>>, PastTyped',
         left \subseteq left', UNCHANGED torn, ~At(r, "unlink"),
         ~overlapped => Hand(req[r]) \intersect stored \subseteq left' \union UNION {refs[a] : a \in Rows},
         ~overlapped /\ ~unmarked' => mailed' <= alerted
  PROVE  IInv'
<1>1. Current(Idle, refs, stored, alerted) /\ Own(Idle) = {} /\ Held(Idle) = {} /\ Hand(Idle) = {}
  BY IdleIs DEF Current, Early, Own, Held, Hand
<1>2. ~overlapped /\ ~unmarked' => MarkedFor(Idle, mailed', alerted)
  BY IdleIs DEF MarkedFor
<1>3. ~overlapped => Clear(Idle, refs, torn', unanswered')
  <2>1. ~overlapped => Clear(req[r], refs, torn, unanswered)
    BY Facts DEF AloneInv
  <2> QED
    BY <2>1, IdleIs DEF Clear
<1>4. Idle.at # "register"
  BY IdleIs
<1> QED
  BY <1>1, <1>2, <1>3, <1>4, IdleType, Quiet

LEMMA OwnerInv ==
  ASSUME IInv, NEW r \in Requests, CheckOwner(r)
  PROVE  IInv'
<1>1. /\ req[r].at = "owner" /\ UNCHANGED <<rows, faults, torn, unanswered, unmarked, mailed>>
      /\ \/ Goto(r, [req[r] EXCEPT !.at = "write"]) /\ UNCHANGED left
         \/ Goto(r, Idle) /\ left' = left \union req[r].new
  BY DEF CheckOwner, At, Onward
<1>2. req[r] \in Request /\ Fits(req[r]) /\ "write" \in Steps /\ req[r].kill = {}
  BY <1>1, Typed DEF Steps, Fits
<1>3. CASE Goto(r, [req[r] EXCEPT !.at = "write"]) /\ UNCHANGED left
  <2> DEFINE x == [req[r] EXCEPT !.at = "write"]
  <2>1. /\ x \in Request /\ x.at = "write" /\ x.op = req[r].op /\ x.row = req[r].row
        /\ x.file = req[r].file /\ x.thumb = req[r].thumb /\ x.old = req[r].old
        /\ x.new = req[r].new /\ x.kill = req[r].kill /\ Goto(r, x)
    BY <1>2, <1>3, Named
  <2> HIDE DEF x
  <2>2. Fits(x)
    BY <1>1, <1>2, <2>1 DEF Fits, Early
  <2>3. PastTyped' /\ UNCHANGED past
    BY <1>1, <1>3, Facts DEF PastTyped, Goto, past, lost
  <2> QED
    BY <1>1, <2>1, <2>2, <2>3, GoesOn DEF Early
<1>4. CASE Goto(r, Idle) /\ left' = left \union req[r].new
  <2>1. req[r].new \in SUBSET Files
    BY <1>2 DEF Request
  <2>2. PastTyped'
    BY <1>1, <1>4, <2>1, Facts DEF PastTyped, Goto
  <2>3. Hand(req[r]) = req[r].new
    BY <1>1, <1>2 DEF Hand
  <2>4. ~overlapped /\ ~unmarked => mailed' <= alerted
    BY <1>1, NotMarking DEF At
  <2> QED
    BY <1>1, <1>4, <2>2, <2>3, <2>4, Ends DEF At
<1> QED
  BY <1>1, <1>3, <1>4

\* A deletion that is rejected leaves its file behind, and goes on with the others.
LEMMA DeleteFailsInv ==
  ASSUME IInv, NEW r \in Requests, DeleteFails(r)
  PROVE  IInv'
<1>1. PICK f \in IF At(r, "find") THEN req[r].kill ELSE {req[r].file} :
        /\ Goto(r, Killing(req[r].kill \ {f})) /\ left' = left \union {f}
        /\ torn' = IF At(r, "unlink") THEN torn \union {f} ELSE torn
  BY DEF DeleteFails
<1> DEFINE fs == req[r].kill \ {f}
           x  == Killing(fs)
<1>2. /\ req[r].at \in {"find", "blob", "unlink"} /\ UNCHANGED <<rows, unanswered, unmarked, mailed>>
      /\ faults' \in 0 .. MaxFaults
  BY Facts, Bounds DEF DeleteFails, Fault, PastTyped
<1>3. /\ req[r] \in Request /\ Fits(req[r]) /\ req[r].new = {} /\ req[r].kill \in SUBSET Files
      /\ ~At(r, "idle") /\ ~At(r, "mark") /\ ~At(r, "list")
  BY <1>2, Typed DEF Fits, Early, At, Request
<1>4. f \in req[r].kill /\ f \in Files /\ (At(r, "unlink") => f = req[r].file)
  BY <1>1, <1>2, <1>3 DEF At, Fits
<1>5. fs \in SUBSET Files
  BY <1>3
<1>6. /\ x \in Request /\ Fits(x) /\ x.at \in {"idle", "find"} /\ x.old = {} /\ x.new = {}
      /\ x.kill = fs /\ Own(x) = {} /\ Goto(r, x)
  BY <1>1, <1>5, KillingIs
<1> HIDE DEF x
<1>7. PastTyped'
  BY <1>1, <1>2, <1>4, Facts DEF PastTyped, Goto
<1>8. /\ left \subseteq left' /\ torn \subseteq torn' /\ torn' \subseteq torn \union Held(req[r])
      /\ At(r, "unlink") => req[r].file \in torn'
  BY <1>1, <1>4 DEF Held
<1>9. Held(x) \subseteq Held(req[r]) /\ Hand(req[r]) \subseteq Hand(x) \union left'
  BY <1>1, <1>3, <1>6 DEF Held, Hand
<1>10. Current(x, refs, stored, alerted) /\ x.at # "register"
  BY <1>6 DEF Current, Early
<1>11. ~overlapped /\ ~unmarked' => MarkedFor(x, mailed', alerted)
  BY <1>2, <1>3, <1>6, NotMarking DEF MarkedFor
<1>12. ~overlapped => Clear(x, refs, torn', unanswered')
  <2>1. ~overlapped => Clear(req[r], refs, torn, unanswered)
    BY Facts DEF AloneInv
  <2> QED
    BY <1>1, <1>2, <1>3, <1>4, <1>6, <2>1 DEF Clear, At
<1> QED
  BY <1>2, <1>3, <1>6, <1>7, <1>8, <1>9, <1>10, <1>11, <1>12, Quiet

LEMMA MarkFailsInv ==
  ASSUME IInv, NEW r \in Requests, MarkFails(r)
  PROVE  IInv'
<1>1. /\ req[r].at = "mark" /\ Goto(r, Idle) /\ UNCHANGED <<rows, lost, mailed>> /\ unmarked' = TRUE
      /\ faults' \in 0 .. MaxFaults /\ UNCHANGED <<edits, overlapped>>
  BY Facts, Bounds DEF MarkFails, At, Goto, Fault, PastTyped
<1>2. PastTyped'
  BY <1>1, Facts DEF PastTyped, lost
<1>3. Hand(req[r]) = {}
  BY <1>1, Typed DEF Hand, Fits, Early
<1> QED
  BY <1>1, <1>2, <1>3, Ends DEF At, lost

LEMMA Failures ==
  ASSUME IInv, NEW r \in Requests, Fail(r)
  PROVE  IInv'
BY HandlerFails, DeleteFailsInv, MarkFailsInv DEF Fail

LEMMA AnswerInv ==
  ASSUME IInv, NEW r \in Requests, Answer(r)
  PROVE  IInv'
<1>1. /\ req[r].at = "answer" /\ Goto(r, Idle) /\ UNCHANGED <<rows, lost, unmarked>>
      /\ UNCHANGED <<faults, mailed, edits, overlapped>>
  BY DEF Answer, At, past, lost, Goto
<1>2. PastTyped'
  BY <1>1, Facts DEF PastTyped, lost
<1>3. req[r] \in Request /\ Fits(req[r]) /\ req[r].row \in Rows
  BY Typed DEF Request
<1>4. ~overlapped => Hand(req[r]) \subseteq refs[req[r].row]
  BY <1>1, <1>3, Facts DEF AloneInv, Current, Hand, Fits
<1>5. ~overlapped /\ ~unmarked => mailed' <= alerted
  BY <1>1, NotMarking DEF At
<1> QED
  BY <1>1, <1>2, <1>3, <1>4, <1>5, Ends DEF At, lost

\* Nothing lies under the prefix that is listed.
LEMMA NothingListed == Listed = {}
<1>1. SubSeq(Folder, 1, Len(SweepPrefix))[1] = "org" /\ SweepPrefix[1] = "id"
  BY DEF Folder, SweepPrefix
<1>2. ~IsUnder(Folder, SweepPrefix)
  BY <1>1 DEF IsUnder
<1> QED
  BY <1>2 DEF Listed

LEMMA DeleteOrphansInv ==
  ASSUME IInv, NEW r \in Requests, DeleteOrphans(r)
  PROVE  IInv'
<1>1. UNCHANGED objects
  BY NothingListed DEF DeleteOrphans
<1>2. /\ req[r].at = "list" /\ Goto(r, Idle) /\ UNCHANGED <<rows, lost, unmarked>>
      /\ UNCHANGED <<faults, mailed, edits, overlapped>>
  BY <1>1 DEF DeleteOrphans, At, past, lost, rows, Goto
<1>3. PastTyped'
  BY <1>2, Facts DEF PastTyped, lost
<1>4. Hand(req[r]) = {}
  BY <1>2 DEF Hand
<1>5. ~overlapped /\ ~unmarked => mailed' <= alerted
  BY <1>2, NotMarking DEF At
<1> QED
  BY <1>2, <1>3, <1>4, <1>5, Ends DEF At, lost

LEMMA FindFileInv ==
  ASSUME IInv, NEW r \in Requests, NEW f \in Files, FindFile(r, f)
  PROVE  IInv'
<1>1. /\ req[r].at = "find" /\ f \in req[r].kill /\ UNCHANGED <<rows, lost, unmarked, mailed>>
      /\ UNCHANGED <<faults, edits, overlapped>>
      /\ IF f \in stored THEN Goto(r, [req[r] EXCEPT !.at = "blob", !.file = f])
         ELSE Goto(r, Killing(req[r].kill \ {f}))
  BY DEF FindFile, At, past, lost, Goto
<1>2. PastTyped'
  BY <1>1, Facts DEF PastTyped, lost
<1>3. /\ req[r] \in Request /\ Fits(req[r]) /\ req[r].new = {}
      /\ ~At(r, "idle") /\ ~At(r, "unlink") /\ ~At(r, "mark")
  BY <1>1, Typed DEF Fits, Early, At
<1>4. ~overlapped /\ ~unmarked => mailed' <= alerted
  BY <1>1, <1>3, NotMarking
<1>8. ~overlapped => Clear(req[r], refs, torn', unanswered')
  BY <1>1, Facts DEF AloneInv, lost
<1>9. UNCHANGED <<left, torn, unanswered>>
  BY <1>1 DEF lost
<1>5. CASE f \in stored
  <2> DEFINE x == [req[r] EXCEPT !.at = "blob", !.file = f]
  <2>1. x \in Request
    BY <1>3 DEF Request, Steps
  <2>2. /\ x.at = "blob" /\ x.file = f /\ x.kill = req[r].kill /\ x.new = req[r].new
        /\ x.old = req[r].old /\ x.op = req[r].op
    BY <1>3 DEF Request
  <2>3. Goto(r, x)
    BY <1>1, <1>5
  <2> HIDE DEF x
  <2>4. Fits(x)
    BY <1>1, <1>3, <2>2 DEF Fits, Early
  <2>5. Own(x) = {} /\ Held(x) = Held(req[r]) /\ Hand(x) = Hand(req[r])
    BY <1>1, <2>2 DEF Own, Held, Hand, Early
  <2>6. Current(x, refs, stored, alerted)
    BY <1>5, <2>2 DEF Current, Early
  <2>7. ~overlapped /\ ~unmarked => MarkedFor(x, mailed', alerted)
    BY <1>4, <2>2 DEF MarkedFor
  <2>8. ~overlapped => Clear(x, refs, torn', unanswered')
    BY <1>1, <1>8, <2>2 DEF Clear
  <2> QED
    BY <1>1, <1>2, <1>3, <1>9, <2>1, <2>2, <2>3, <2>4, <2>5, <2>6, <2>7, <2>8, Quiet
<1>6. CASE f \notin stored
  <2> DEFINE fs == req[r].kill \ {f}
             x  == Killing(fs)
  <2>1. fs \in SUBSET Files
    BY <1>3 DEF Request
  <2>2. /\ x \in Request /\ Fits(x) /\ x.at \in {"idle", "find"} /\ x.old = {} /\ x.new = {}
        /\ x.kill = fs /\ Own(x) = {}
    BY <2>1, KillingIs
  <2>3. Goto(r, x)
    BY <1>1, <1>6
  <2> HIDE DEF x
  <2>4. Held(x) \subseteq Held(req[r])
    BY <2>2 DEF Held
  <2>5. Hand(req[r]) \intersect stored \subseteq Hand(x)
    BY <1>3, <1>6, <2>2 DEF Hand
  <2>6. Current(x, refs, stored, alerted)
    BY <2>2 DEF Current, Early
  <2>7. ~overlapped /\ ~unmarked => MarkedFor(x, mailed', alerted)
    BY <1>4, <2>2 DEF MarkedFor
  <2>8. ~overlapped => Clear(x, refs, torn', unanswered')
    BY <1>1, <1>8, <2>2 DEF Clear
  <2> QED
    BY <1>1, <1>2, <1>3, <1>9, <2>2, <2>3, <2>4, <2>5, <2>6, <2>7, <2>8, Quiet
<1> QED
  BY <1>5, <1>6

\* The mark of what was mailed is written next.
LEMMA NotifyInv ==
  ASSUME IInv, NEW r \in Requests, Notify(r)
  PROVE  IInv'
<1>1. /\ req[r].at = "notify" /\ UNCHANGED <<rows, lost, unmarked>>
      /\ UNCHANGED <<faults, edits, overlapped>>
      /\ IF req[r].pct > req[r].seen
         THEN /\ mailed' = IF req[r].pct > mailed THEN req[r].pct ELSE mailed
              /\ Goto(r, [req[r] EXCEPT !.at = "mark"])
         ELSE /\ mailed' = IF req[r].pct = 0 THEN 0 ELSE mailed
              /\ IF req[r].pct = 0 /\ req[r].seen # 0 THEN Goto(r, [req[r] EXCEPT !.at = "mark"])
                 ELSE Goto(r, Idle)
  BY DEF Notify, At, Onward, Goto
<1>2. /\ req[r] \in Request /\ Fits(req[r]) /\ req[r].pct \in Thresholds /\ req[r].seen \in Thresholds
      /\ mailed \in Thresholds /\ alerted \in Thresholds /\ Thresholds \subseteq Nat /\ 0 \in Thresholds
      /\ "mark" \in Steps
  BY Typed, Facts DEF Request, PastTyped, RowsTyped, Thresholds, Steps
<1>3. mailed' \in Thresholds
  BY <1>1, <1>2
<1>4. PastTyped' /\ UNCHANGED <<left, torn, unanswered>>
  BY <1>1, <1>3, Facts DEF PastTyped, lost
<1>5. /\ ~At(r, "idle") /\ ~At(r, "unlink") /\ ~At(r, "mark") /\ req[r].new = {} /\ req[r].kill = {}
  BY <1>1, <1>2 DEF At, Fits, Early
<1>6. ~overlapped /\ ~unmarked => mailed <= req[r].seen /\ req[r].seen = alerted
  BY <1>1, <1>5, Facts, NotMarking DEF AloneInv, Current
<1>7. CASE Goto(r, [req[r] EXCEPT !.at = "mark"]) /\ (~overlapped /\ ~unmarked => mailed' <= req[r].pct)
  <2> DEFINE x == [req[r] EXCEPT !.at = "mark"]
  <2>1. /\ x \in Request /\ x.at = "mark" /\ x.op = req[r].op /\ x.new = {} /\ x.kill = {}
        /\ x.old = req[r].old /\ x.pct = req[r].pct /\ Goto(r, x)
    BY <1>2, <1>5, <1>7, Named
  <2> HIDE DEF x
  <2>2. Fits(x) /\ Current(x, refs, stored, alerted) /\ Own(x) = {} /\ Hand(req[r]) = {}
    BY <1>1, <1>2, <1>5, <2>1 DEF Fits, Current, Own, Hand, Early
  <2>3. Held(x) = Held(req[r])
    BY <1>5, <2>1 DEF Held
  <2>4. ~overlapped /\ ~unmarked => MarkedFor(x, mailed', alerted)
    BY <1>7, <2>1 DEF MarkedFor
  <2>5. ~overlapped => Clear(x, refs, torn', unanswered')
    <3>1. ~overlapped => Clear(req[r], refs, torn, unanswered)
      BY Facts DEF AloneInv
    <3> QED
      BY <1>4, <2>1, <3>1 DEF Clear
  <2> QED
    BY <1>1, <1>4, <1>5, <2>1, <2>2, <2>3, <2>4, <2>5, Quiet
<1>8. CASE Goto(r, Idle) /\ (~overlapped /\ ~unmarked => mailed' <= alerted)
  <2>1. Hand(req[r]) = {}
    BY <1>5 DEF Hand
  <2> QED
    BY <1>1, <1>4, <1>5, <1>8, <2>1, Ends
<1>9. CASE req[r].pct > req[r].seen
  <2>1. ~overlapped /\ ~unmarked => mailed' <= req[r].pct
    BY <1>1, <1>2, <1>6, <1>9
  <2> QED
    BY <1>1, <1>7, <1>9, <2>1
<1>10. CASE ~(req[r].pct > req[r].seen)
  <2>1. mailed' = IF req[r].pct = 0 THEN 0 ELSE mailed
    BY <1>1, <1>10
  <2>2. req[r].pct = 0 => mailed' <= req[r].pct
    BY <1>2, <2>1
  <2>3. ~overlapped /\ ~unmarked => mailed' <= alerted
    BY <1>2, <1>6, <2>1
  <2> QED
    BY <1>1, <1>7, <1>8, <1>10, <2>2, <2>3
<1> QED
  BY <1>9, <1>10

-----------------------------------------------------------------------------
(* Steps that write.                                                       *)

LEMMA MarkInv ==
  ASSUME IInv, NEW r \in Requests, Mark(r)
  PROVE  IInv'
<1> DEFINE x == Idle
<1>1. /\ req[r].at = "mark" /\ alerted' = req[r].pct /\ Goto(r, x)
      /\ UNCHANGED <<kind, refs, exists, stored, objects, usage, last, faults, left, torn, unanswered, unmarked, mailed>>
  BY DEF Mark, At, past, lost
<1>2. Takes(r, x) /\ UNCHANGED <<edits, overlapped>>
  BY <1>1, GotoTakes DEF At
<1>3. req[r].pct \in Thresholds
  BY Typed DEF Request
<1>4. RowsTyped' /\ PastTyped' /\ last <= last'
  BY <1>1, <1>2, <1>3, Facts, Bounds DEF RowsTyped, PastTyped
<1>5. /\ x \in Request /\ Fits(x) /\ x.at = "idle" /\ Own(x) = {} /\ Held(x) = {}
      /\ x.new = {} /\ x.kill = {} /\ Current(x, refs', stored', alerted')
  BY IdleType, IdleIs DEF Own, Held, Current, Early
<1> HIDE DEF x
<1>6. ShapeInv'
  BY <1>1, <1>2, <1>4, <1>5, Facts, ShapeKept DEF Known
<1>7. InStore'
  BY <1>1, <1>2, <1>5, StoreKept DEF Losing
<1>8. NotAhead' /\ (Exact => Exact')
  BY <1>1, Facts DEF NotAhead, Exact
<1>9. ASSUME ~overlapped'
      PROVE  /\ Exact' /\ Current(x, refs', stored', alerted')
             /\ ~unmarked' => MarkedFor(x, mailed', alerted')
             /\ InHands(x, refs', stored', left')
             /\ Apart(refs') /\ Clear(x, refs', torn', unanswered')
  <2>1. ~overlapped /\ \A p \in Requests \ {r} : At(p, "idle")
    BY <1>2, <1>9 DEF Takes
  <2>2. Hand(req[r]) = {}
    BY <1>1, Typed DEF Hand, Fits, Early
  <2>3. /\ ~unmarked => MarkedFor(req[r], mailed, alerted)
        /\ InHands(req[r], refs, stored, left)
        /\ Exact /\ Apart(refs) /\ Clear(req[r], refs, torn, unanswered)
    BY <2>1, Alone
  <2>4. InHands(x, refs', stored', left')
    BY <1>1, <2>2, <2>3 DEF InHands
  <2>5. Clear(x, refs', torn', unanswered')
    BY <1>1, <1>5, <2>3 DEF Clear
  <2> QED
    BY <1>1, <1>5, <1>8, <2>3, <2>4, <2>5 DEF MarkedFor
<1>10. AloneInv'
  BY <1>2, <1>5, <1>9, AloneKept
<1> QED
  BY <1>6, <1>7, <1>8, <1>10 DEF IInv

LEMMA UploadInv ==
  ASSUME IInv, NEW r \in Requests, Upload(r)
  PROVE  IInv'
<1> DEFINE x == [req[r] EXCEPT !.at = "register"]
<1>1. /\ req[r].at = "upload" /\ objects' = objects \union {req[r].file} /\ Goto(r, x)
      /\ UNCHANGED <<kind, refs, exists, stored, usage, alerted, last, faults, left, torn, unanswered, unmarked, mailed>>
  BY DEF Upload, At, past, lost, Onward
<1>2. Takes(r, x) /\ UNCHANGED <<edits, overlapped>>
  BY <1>1, GotoTakes DEF At
<1>3. /\ req[r] \in Request /\ Fits(req[r]) /\ "register" \in Steps
  BY Typed DEF Steps
<1>4. /\ x \in Request /\ x.at = "register" /\ x.op = req[r].op /\ x.row = req[r].row
      /\ x.file = req[r].file /\ x.thumb = req[r].thumb /\ x.old = req[r].old
      /\ x.new = req[r].new /\ x.kill = req[r].kill
  BY <1>3, Named
<1> HIDE DEF x
<1>5. Fits(x) /\ req[r].file \in Files
  BY <1>1, <1>3, <1>4 DEF Fits, Early, Request
<1>6. RowsTyped' /\ PastTyped' /\ last <= last'
  BY <1>1, <1>2, <1>5, Facts, Bounds DEF RowsTyped, PastTyped
<1>7. Own(x) = Own(req[r]) /\ Held(x) = Held(req[r]) /\ Hand(x) = Hand(req[r])
  BY <1>1, <1>4 DEF Own, Held, Hand, Early
<1>8. ShapeInv'
  BY <1>1, <1>2, <1>4, <1>5, <1>6, <1>7, Facts, ShapeKept DEF Known
<1>9. InStore'
  <2>1. \A f \in stored' : f \in objects' \/ (f \in stored \ objects /\ ~Losing(req[r], f))
    BY <1>1 DEF Losing
  <2> QED
    BY <1>1, <1>2, <1>4, <2>1, StoreKept
<1>10. NotAhead' /\ (Exact => Exact')
  BY <1>1, Facts DEF NotAhead, Exact
<1>11. ASSUME ~overlapped'
       PROVE  /\ Exact' /\ Current(x, refs', stored', alerted')
              /\ ~unmarked' => MarkedFor(x, mailed', alerted')
              /\ InHands(x, refs', stored', left')
              /\ Apart(refs') /\ Clear(x, refs', torn', unanswered')
  <2>1. ~overlapped /\ \A p \in Requests \ {r} : At(p, "idle")
    BY <1>2, <1>11 DEF Takes
  <2>2. /\ Exact /\ Current(req[r], refs, stored, alerted)
        /\ ~unmarked => MarkedFor(req[r], mailed, alerted)
        /\ InHands(req[r], refs, stored, left)
        /\ Apart(refs) /\ Clear(req[r], refs, torn, unanswered)
    BY <2>1, Alone
  <2>3. Current(x, refs', stored', alerted')
    BY <1>1, <1>4, <2>2 DEF Current, Early
  <2>4. InHands(x, refs', stored', left')
    BY <1>1, <1>7, <2>2 DEF InHands
  <2>5. Clear(x, refs', torn', unanswered')
    BY <1>1, <1>4, <2>2 DEF Clear
  <2> QED
    BY <1>1, <1>4, <1>10, <2>2, <2>3, <2>4, <2>5 DEF MarkedFor
<1>12. AloneInv'
  BY <1>2, <1>4, <1>11, AloneKept
<1> QED
  BY <1>8, <1>9, <1>10, <1>12 DEF IInv

LEMMA DropObjectInv ==
  ASSUME IInv, NEW r \in Requests, DropObject(r)
  PROVE  IInv'
<1> DEFINE x == Killing(req[r].new)
<1>1. /\ req[r].at = "drop" /\ objects' \in {objects, objects \ {req[r].file}} /\ Goto(r, x)
      /\ UNCHANGED <<kind, refs, exists, stored, usage, alerted, last, left, torn, unanswered, unmarked, mailed>>
      /\ faults' \in 0 .. MaxFaults
  BY Facts, Bounds DEF DropObject, RemoveObject, At, past, lost, GiveUp, Fault, PastTyped
<1>2. Takes(r, x) /\ UNCHANGED <<edits, overlapped>>
  BY <1>1, GotoTakes DEF At
<1>3. req[r] \in Request /\ Fits(req[r]) /\ req[r].new \in SUBSET Files /\ req[r].kill = {}
  BY <1>1, Typed DEF Request, Fits
<1>4. /\ x \in Request /\ Fits(x) /\ x.at \in {"idle", "find"} /\ x.old = {} /\ x.new = {}
      /\ x.kill = req[r].new /\ Own(x) = {}
  BY <1>3, KillingIs
<1> HIDE DEF x
<1>5. RowsTyped' /\ PastTyped' /\ last <= last'
  BY <1>1, <1>2, Facts, Bounds DEF RowsTyped, PastTyped
<1>6. Held(x) \subseteq Held(req[r]) /\ Hand(req[r]) \subseteq Hand(x)
  BY <1>1, <1>3, <1>4 DEF Held, Hand
<1>7. ShapeInv'
  BY <1>1, <1>2, <1>4, <1>5, <1>6, Facts, ShapeKept DEF Known
<1>8. req[r].file \in Own(req[r]) /\ req[r].file \notin stored
  BY <1>1, Facts DEF Own, Early, Fresh
<1>9. InStore'
  <2>1. \A f \in stored' : f \in objects' \/ (f \in stored \ objects /\ ~Losing(req[r], f))
    BY <1>1, <1>8 DEF Losing
  <2>2. objects \ objects' \subseteq Own(req[r]) \union Held(req[r]) /\ x.at # "register"
    BY <1>1, <1>4, <1>8
  <2> QED
    BY <1>1, <1>2, <1>4, <2>1, <2>2, StoreKept
<1>10. NotAhead' /\ (Exact => Exact')
  BY <1>1, Facts DEF NotAhead, Exact
<1>11. ASSUME ~overlapped'
       PROVE  /\ Exact' /\ Current(x, refs', stored', alerted')
              /\ ~unmarked' => MarkedFor(x, mailed', alerted')
              /\ InHands(x, refs', stored', left')
              /\ Apart(refs') /\ Clear(x, refs', torn', unanswered')
  <2>1. ~overlapped /\ \A p \in Requests \ {r} : At(p, "idle")
    BY <1>2, <1>11 DEF Takes
  <2>2. /\ Exact
        /\ ~unmarked => MarkedFor(req[r], mailed, alerted)
        /\ InHands(req[r], refs, stored, left)
        /\ Apart(refs) /\ Clear(req[r], refs, torn, unanswered)
    BY <2>1, Alone
  <2>3. Current(x, refs', stored', alerted')
    BY <1>4 DEF Current, Early
  <2>4. InHands(x, refs', stored', left')
    BY <1>1, <1>6, <2>2 DEF InHands
  <2>5. Clear(x, refs', torn', unanswered')
    BY <1>1, <1>3, <1>4, <2>2 DEF Clear
  <2> QED
    BY <1>1, <1>4, <1>10, <2>2, <2>3, <2>4, <2>5 DEF MarkedFor
<1>12. AloneInv'
  BY <1>2, <1>4, <1>11, AloneKept
<1> QED
  BY <1>7, <1>9, <1>10, <1>12 DEF IInv

LEMMA DeleteBlobInv ==
  ASSUME IInv, NEW r \in Requests, DeleteBlob(r)
  PROVE  IInv'
<1> DEFINE x == [req[r] EXCEPT !.at = "unlink"]
<1>1. /\ req[r].at = "blob" /\ objects' \in {objects, objects \ {req[r].file}} /\ Goto(r, x)
      /\ UNCHANGED <<kind, refs, exists, stored, usage, alerted, last, left, torn, unanswered, unmarked, mailed>>
      /\ faults' \in 0 .. MaxFaults
  BY Facts, Bounds DEF DeleteBlob, RemoveObject, At, past, lost, Onward, Fault, PastTyped
<1>2. Takes(r, x) /\ UNCHANGED <<edits, overlapped>>
  BY <1>1, GotoTakes DEF At
<1>3. /\ req[r] \in Request /\ Fits(req[r]) /\ "unlink" \in Steps
  BY Typed DEF Steps
<1>4. /\ x \in Request /\ x.at = "unlink" /\ x.op = req[r].op /\ x.row = req[r].row
      /\ x.file = req[r].file /\ x.old = req[r].old /\ x.new = req[r].new /\ x.kill = req[r].kill
  BY <1>3, Named
<1> HIDE DEF x
<1>5. Fits(x) /\ req[r].file \in req[r].kill
  BY <1>1, <1>3, <1>4 DEF Fits, Early
<1>6. RowsTyped' /\ PastTyped' /\ last <= last'
  BY <1>1, <1>2, Facts, Bounds DEF RowsTyped, PastTyped
<1>7. Own(x) = {} /\ Held(x) = Held(req[r]) /\ Hand(x) = Hand(req[r])
  BY <1>1, <1>4 DEF Own, Held, Hand, Early
<1>8. ShapeInv'
  BY <1>1, <1>2, <1>4, <1>5, <1>6, <1>7, Facts, ShapeKept DEF Known
<1>9. InStore'
  <2>1. \A f \in stored' : \/ f \in objects' \/ Losing(x, f)
                           \/ f \in stored \ objects /\ ~Losing(req[r], f)
    BY <1>1, <1>4 DEF Losing
  <2>2. objects \ objects' \subseteq Own(req[r]) \union Held(req[r])
    BY <1>1, <1>5 DEF Held
  <2> QED
    BY <1>1, <1>2, <1>4, <2>1, <2>2, StoreKept
<1>10. NotAhead' /\ (Exact => Exact')
  BY <1>1, Facts DEF NotAhead, Exact
<1>11. ASSUME ~overlapped'
       PROVE  /\ Exact' /\ Current(x, refs', stored', alerted')
              /\ ~unmarked' => MarkedFor(x, mailed', alerted')
              /\ InHands(x, refs', stored', left')
              /\ Apart(refs') /\ Clear(x, refs', torn', unanswered')
  <2>1. ~overlapped /\ \A p \in Requests \ {r} : At(p, "idle")
    BY <1>2, <1>11 DEF Takes
  <2>2. /\ Exact /\ Current(req[r], refs, stored, alerted)
        /\ ~unmarked => MarkedFor(req[r], mailed, alerted)
        /\ InHands(req[r], refs, stored, left)
        /\ Apart(refs) /\ Clear(req[r], refs, torn, unanswered)
    BY <2>1, Alone
  <2>3. Current(x, refs', stored', alerted')
    BY <1>1, <1>4, <2>2 DEF Current, Early
  <2>4. InHands(x, refs', stored', left')
    BY <1>1, <1>7, <2>2 DEF InHands
  <2>5. Clear(x, refs', torn', unanswered')
    BY <1>1, <1>4, <2>2 DEF Clear
  <2> QED
    BY <1>1, <1>4, <1>10, <2>2, <2>3, <2>4, <2>5 DEF MarkedFor
<1>12. AloneInv'
  BY <1>2, <1>4, <1>11, AloneKept
<1> QED
  BY <1>8, <1>9, <1>10, <1>12 DEF IInv

LEMMA RegisterInv ==
  ASSUME IInv, NEW r \in Requests, Register(r)
  PROVE  IInv'
<1> DEFINE x == AfterRegister(r)
           f == req[r].file
<1>1. /\ req[r].at = "register" /\ stored' = stored \union {f} /\ Goto(r, x)
      /\ usage' = [bytes |-> usage.bytes + Bytes[{f}], files |-> usage.files + 1]
      /\ UNCHANGED <<kind, refs, exists, objects, alerted, last, faults, left, torn, unanswered, unmarked, mailed>>
  BY DEF Register, At, past, lost
<1>2. Takes(r, x) /\ UNCHANGED <<edits, overlapped>>
  BY <1>1, GotoTakes DEF At
<1>3. /\ req[r] \in Request /\ Fits(req[r]) /\ {"upload", "owner", "write"} \subseteq Steps
  BY Typed DEF Steps
<1>4. /\ Own(req[r]) = {f} \union IF req[r].thumb THEN {f + 1} ELSE {}
      /\ Own(req[r]) \subseteq Files /\ f \notin stored /\ f \in objects /\ f \in Nat
  <2>1. Own(req[r]) = {f} \union IF req[r].thumb THEN {f + 1} ELSE {}
    BY <1>1 DEF Own, Early
  <2>2. last \in 0 .. MaxFiles /\ 1 .. last \subseteq Files
    BY Facts, Bounds DEF RowsTyped
  <2>3. /\ Own(req[r]) \subseteq 1 .. last /\ Own(req[r]) \intersect stored = {} /\ f \in objects
    BY <1>1, Facts DEF Fresh, InStore
  <2>4. f \in 1 .. last
    BY <2>1, <2>3
  <2> QED
    BY <2>1, <2>2, <2>3, <2>4
<1>5. /\ x \in Request /\ x.op = req[r].op /\ x.row = req[r].row /\ x.old = req[r].old
      /\ x.new = req[r].new \union {f} /\ x.kill = req[r].kill
      /\ \/ x.at = "upload" /\ x.file = f + 1 /\ req[r].thumb /\ x.thumb = FALSE
         \/ x.at \in {"owner", "write"}
  <2> DEFINE y == [req[r] EXCEPT !.new = @ \union {f}]
  <2>1. y \in Request /\ y.new = req[r].new \union {f} /\ y.file = f /\ y.op = req[r].op
        /\ y.row = req[r].row /\ y.old = req[r].old /\ y.kill = req[r].kill
    BY <1>3, <1>4 DEF Request
  <2>2. x = CASE req[r].thumb -> [y EXCEPT !.at = "upload", !.file = @ + 1, !.thumb = FALSE]
              [] ~req[r].thumb /\ kind[req[r].row] = "asset" -> [y EXCEPT !.at = "owner"]
              [] OTHER -> [y EXCEPT !.at = "write"]
    BY DEF AfterRegister
  <2> HIDE DEF y, x
  <2>3. CASE req[r].thumb
    <3> DEFINE z == [y EXCEPT !.at = "upload", !.file = @ + 1, !.thumb = FALSE]
    <3>1. x = z
      BY <2>2, <2>3
    <3>2. f + 1 \in Files
      BY <1>4, <2>3
    <3>3. z \in Request
      BY <1>3, <2>1, <3>2 DEF Request
    <3>4. /\ z.at = "upload" /\ z.file = f + 1 /\ z.thumb = FALSE /\ z.op = y.op /\ z.row = y.row
          /\ z.old = y.old /\ z.new = y.new /\ z.kill = y.kill
      BY <2>1 DEF Request
    <3> QED
      BY <2>1, <2>3, <3>1, <3>3, <3>4
  <2>4. CASE ~req[r].thumb
    <3>1. PICK step \in {"owner", "write"} : x = [y EXCEPT !.at = step]
      BY <2>2, <2>4
    <3> QED
      BY <1>3, <2>1, <3>1, Named
  <2> QED
    BY <2>3, <2>4
<1> HIDE DEF x
<1>6. Fits(x) /\ req[r].kill = {}
  BY <1>1, <1>3, <1>4, <1>5 DEF Fits, Early
<1>7. Own(x) \subseteq Own(req[r]) /\ f \in Own(req[r]) \ Own(x)
  <2>1. CASE x.at = "upload"
    BY <1>4, <1>5, <2>1 DEF Own, Early
  <2>2. CASE x.at \in {"owner", "write"}
    BY <1>4, <1>5, <2>2 DEF Own, Early
  <2> QED
    BY <1>5, <2>1, <2>2
<1>8. Held(x) = Held(req[r]) \union {f} /\ Hand(x) = req[r].new \union {f} /\ Hand(req[r]) = req[r].new
  BY <1>1, <1>5, <1>6 DEF Held, Hand
<1>9. stored \in SUBSET Files /\ f \in Files \ stored /\ usage \in [bytes : Nat, files : Nat]
  BY <1>4, <1>7, Facts DEF RowsTyped
<1>10. /\ Bytes[stored'] = Bytes[stored] + Bytes[{f}] /\ Cardinality(stored') = Cardinality(stored) + 1
       /\ Bytes[{f}] \in Nat /\ Bytes[stored] \in Nat /\ Cardinality(stored) \in Nat
  BY <1>1, <1>9, OneMore, Counts
<1>11. usage' \in [bytes : Nat, files : Nat] /\ usage'.bytes = usage.bytes + Bytes[{f}]
       /\ usage'.files = usage.files + 1 /\ usage.bytes \in Nat /\ usage.files \in Nat
  BY <1>1, <1>9, <1>10
<1>12. RowsTyped' /\ PastTyped' /\ last <= last'
  <2>1. RowsTyped'
    BY <1>1, <1>9, <1>11, Facts DEF RowsTyped
  <2>2. PastTyped' /\ last <= last'
    BY <1>1, <1>2, Facts, Bounds DEF RowsTyped, PastTyped
  <2> QED
    BY <2>1, <2>2
<1>13. /\ \A a \in Rows : refs'[a] \subseteq stored'
       /\ \A a \in Rows : refs'[a] # {} => a \in exists'
  BY <1>1, Facts DEF Known
<1>14. stored' \subseteq stored \union (Own(req[r]) \ Own(x))
  BY <1>1, <1>7
<1>15. ShapeInv'
  BY <1>1, <1>2, <1>5, <1>6, <1>7, <1>8, <1>12, <1>13, <1>14, ShapeKept
<1>16. InStore'
  <2>1. \A g \in stored' : g \in objects' \/ (g \in stored \ objects /\ ~Losing(req[r], g))
    BY <1>1, <1>4 DEF Losing
  <2>2. objects \ objects' = {} /\ x.at # "register"
    BY <1>1, <1>5
  <2> QED
    BY <1>1, <1>2, <1>5, <2>1, <2>2, StoreKept
<1>17. NotAhead' /\ (Exact => Exact')
  BY <1>10, <1>11, Facts DEF NotAhead, Exact
<1>18. ASSUME ~overlapped'
       PROVE  /\ Exact' /\ Current(x, refs', stored', alerted')
              /\ ~unmarked' => MarkedFor(x, mailed', alerted')
              /\ InHands(x, refs', stored', left')
              /\ Apart(refs') /\ Clear(x, refs', torn', unanswered')
  <2>1. ~overlapped /\ \A p \in Requests \ {r} : At(p, "idle")
    BY <1>2, <1>18 DEF Takes
  <2>2. /\ Exact /\ Current(req[r], refs, stored, alerted)
        /\ ~unmarked => MarkedFor(req[r], mailed, alerted)
        /\ InHands(req[r], refs, stored, left)
        /\ Apart(refs) /\ Clear(req[r], refs, torn, unanswered)
    BY <2>1, Alone
  <2>3. Current(x, refs', stored', alerted')
    BY <1>1, <1>5, <2>2 DEF Current, Early
  <2>4. ~unmarked' => MarkedFor(x, mailed', alerted')
    BY <1>1, <1>5, <2>2 DEF MarkedFor
  <2>5. InHands(x, refs', stored', left')
    BY <1>1, <1>8, <2>2 DEF InHands
  <2>6. Clear(x, refs', torn', unanswered')
    <3>1. f \notin torn /\ \A a \in Rows : f \notin refs[a]
      BY <1>4, Facts DEF Known, Fresh
    <3>2. x.at # "answer" /\ x.kill = {}
      BY <1>5, <1>6
    <3> QED
      BY <1>1, <1>5, <2>2, <3>1, <3>2 DEF Clear
  <2> QED
    BY <1>1, <1>17, <2>2, <2>3, <2>4, <2>5, <2>6
<1>19. AloneInv'
  BY <1>2, <1>5, <1>18, AloneKept
<1> QED
  BY <1>15, <1>16, <1>17, <1>19 DEF IInv

\* The row is written with files that are there.
LEMMA WrittenInv ==
  ASSUME IInv, NEW r \in Requests, req[r].at = "write", Written(r) \subseteq stored,
         refs' = [refs EXCEPT ![req[r].row] = Written(r)], exists' = exists \union {req[r].row},
         Goto(r, AfterWrite(r)),
         UNCHANGED <<kind, stored, objects, usage, alerted, last, faults, past>>
  PROVE  IInv'
<1> DEFINE x == AfterWrite(r)
           b == req[r].row
<1>1. Takes(r, x) /\ UNCHANGED <<edits, overlapped>>
  BY GotoTakes DEF At
<1>2. /\ req[r] \in Request /\ Fits(req[r]) /\ "answer" \in Steps /\ b \in Rows
      /\ req[r].old \in SUBSET Files /\ req[r].new \in SUBSET Files /\ req[r].kill = {}
      /\ req[r].op \in {"create", "replace", "edit", "remove"}
  BY Typed DEF Steps, Request, Ops, Fits, Early
<1>3. /\ req[r].op = "create" => req[r].old = {} /\ Written(r) = req[r].new
      /\ req[r].op = "replace" => Written(r) = req[r].new
      /\ req[r].op = "edit" => Written(r) = req[r].old /\ req[r].new = {}
      /\ req[r].op = "remove" => Written(r) = {} /\ req[r].new = {}
  BY <1>2 DEF Written, Fits, Early
<1>4. Written(r) \in SUBSET Files
  BY <1>2, <1>3
<1>5. /\ x \in Request /\ Fits(x) /\ Own(x) = {} /\ Held(x) \subseteq Held(req[r])
      /\ x.at \in {"idle", "find", "answer"} /\ (x.at = "answer" => x.row = b /\ x.new = Written(r))
      /\ req[r].op \in {"replace", "remove"} => Hand(x) = req[r].old
  <2>1. CASE req[r].op \in {"replace", "remove"}
    <3>1. x = Killing(req[r].old)
      BY <2>1 DEF AfterWrite
    <3> HIDE DEF x
    <3>2. /\ x \in Request /\ Fits(x) /\ x.at \in {"idle", "find"} /\ x.old = {} /\ x.new = {}
          /\ x.kill = req[r].old /\ Own(x) = {}
      BY <1>2, <3>1, KillingIs
    <3> QED
      BY <3>2 DEF Held, Hand
  <2>2. CASE req[r].op = "create" /\ kind[req[r].row] = "service"
    <3>1. x = [req[r] EXCEPT !.at = "answer"]
      BY <2>2 DEF AfterWrite
    <3> HIDE DEF x
    <3>2. /\ x \in Request /\ x.at = "answer" /\ x.op = req[r].op /\ x.row = req[r].row
          /\ x.old = req[r].old /\ x.new = req[r].new /\ x.kill = req[r].kill
      BY <1>2, <3>1, Named
    <3> QED
      BY <1>2, <1>3, <2>2, <3>2 DEF Fits, Own, Held, Early
  <2>3. CASE ~(req[r].op \in {"replace", "remove"}) /\ ~(req[r].op = "create" /\ kind[req[r].row] = "service")
    <3>1. x = Idle
      BY <2>3 DEF AfterWrite
    <3> HIDE DEF x
    <3> QED
      BY <2>3, <3>1, IdleType, IdleIs DEF Own, Held, Early
  <2> QED
    BY <2>1, <2>2, <2>3
<1>14. /\ x.at = "answer" => x.kill = {} /\ req[r].op = "create"
       /\ x.at # "answer" => x.new = {}
                            /\ (x.kill = {} \/ (x.kill = req[r].old /\ req[r].op \in {"replace", "remove"}))
  <2>1. CASE req[r].op \in {"replace", "remove"}
    BY <1>2, <2>1, KillingIs DEF AfterWrite
  <2>2. CASE req[r].op = "create" /\ kind[req[r].row] = "service"
    <3>1. x = [req[r] EXCEPT !.at = "answer"]
      BY <2>2 DEF AfterWrite
    <3> QED
      BY <1>2, <2>2, <3>1, Named
  <2>3. CASE ~(req[r].op \in {"replace", "remove"}) /\ ~(req[r].op = "create" /\ kind[req[r].row] = "service")
    BY <2>3, IdleIs DEF AfterWrite
  <2> QED
    BY <2>1, <2>2, <2>3
<1> HIDE DEF x
<1>6. /\ refs \in [Rows -> SUBSET Files] /\ refs' \in [Rows -> SUBSET Files] /\ refs'[b] = Written(r)
      /\ \A a \in Rows : a # b => refs'[a] = refs[a]
  BY <1>2, <1>4, Facts DEF RowsTyped
<1>7. RowsTyped' /\ PastTyped' /\ last <= last'
  BY <1>1, <1>2, <1>6, Facts, Bounds DEF RowsTyped, PastTyped, past, lost
<1>8. /\ \A a \in Rows : refs'[a] \subseteq stored'
      /\ \A a \in Rows : refs'[a] # {} => a \in exists'
  <2>1. /\ \A a \in Rows : refs[a] \subseteq stored
        /\ \A a \in Rows : refs[a] # {} => a \in exists
    BY Facts DEF Known
  <2> QED
    BY <1>6, <2>1
<1>9. ShapeInv'
  BY <1>1, <1>5, <1>7, <1>8, ShapeKept DEF past, lost
<1>10. InStore'
  <2>1. \A f \in stored' : f \in objects' \/ (f \in stored \ objects /\ ~Losing(req[r], f))
    BY DEF Losing
  <2>2. objects \ objects' = {} /\ x.at # "register" /\ UNCHANGED torn
    BY <1>5 DEF past, lost
  <2> QED
    BY <1>1, <1>5, <2>1, <2>2, StoreKept
<1>11. NotAhead' /\ (Exact => Exact')
  BY Facts DEF NotAhead, Exact
<1>12. ASSUME ~overlapped'
       PROVE  /\ Exact' /\ Current(x, refs', stored', alerted')
              /\ ~unmarked' => MarkedFor(x, mailed', alerted')
              /\ InHands(x, refs', stored', left')
              /\ Apart(refs') /\ Clear(x, refs', torn', unanswered')
  <2>1. ~overlapped /\ \A p \in Requests \ {r} : At(p, "idle")
    BY <1>1, <1>12 DEF Takes
  <2>2. /\ Exact /\ Current(req[r], refs, stored, alerted)
        /\ ~unmarked => MarkedFor(req[r], mailed, alerted)
        /\ InHands(req[r], refs, stored, left)
        /\ Apart(refs) /\ Clear(req[r], refs, torn, unanswered)
    BY <2>1, Alone
  <2>3. Current(x, refs', stored', alerted')
    BY <1>5, <1>6 DEF Current, Early
  <2>4. ~unmarked' => MarkedFor(x, mailed', alerted')
    BY <1>5, <2>2 DEF MarkedFor, past, lost
  <2>5. refs[b] = req[r].old /\ Hand(req[r]) = req[r].new
    BY <1>2, <2>2 DEF Current, Early, Hand
  <2>6. ASSUME NEW f \in stored
        PROVE  (\E a \in Rows : f \in refs'[a]) \/ f \in Hand(x) \/ f \in left
    <3>1. CASE \E a \in Rows \ {b} : f \in refs[a]
      BY <1>6, <3>1
    <3>2. CASE f \in refs[b]
      <4>1. f \in req[r].old
        BY <2>5, <3>2
      <4> QED
        BY <1>2, <1>3, <1>5, <1>6, <4>1
    <3>3. CASE f \in req[r].new
      BY <1>2, <1>3, <1>6, <3>3
    <3> QED
      BY <2>2, <2>5, <2>6, <3>1, <3>2, <3>3 DEF InHands
  <2>7. InHands(x, refs', stored', left')
    BY <2>6 DEF InHands, past, lost
  <2>8. /\ \A a \in Rows \ {b} : Written(r) \intersect refs[a] = {}
        /\ Written(r) \intersect req[r].old = {} \/ req[r].op = "edit"
        /\ b \notin unanswered => Written(r) \intersect torn = {}
    BY <1>2, <1>3, <2>2, <2>5 DEF Clear, Apart
  <2>9. Apart(refs')
    BY <1>6, <2>2, <2>8 DEF Apart
  <2>10. Clear(x, refs', torn', unanswered')
    <3>1. /\ x.at = "answer" => x.new = req[r].new /\ x.kill = {}
          /\ x.at # "answer" => x.new = {}
                             /\ (x.kill = {} \/ (x.kill = req[r].old /\ req[r].op \in {"replace", "remove"}))
      BY <1>2, <1>3, <1>5, <1>14
    <3>2. \A a \in Rows \ {b} : refs[a] \intersect req[r].old = {}
      BY <1>2, <2>2, <2>5 DEF Apart
    <3> QED
      BY <1>3, <1>5, <1>6, <2>2, <2>8, <3>1, <3>2 DEF Clear, past, lost
  <2> QED
    BY <1>11, <2>2, <2>3, <2>4, <2>7, <2>9, <2>10 DEF past, lost
<1>13. AloneInv'
  BY <1>1, <1>5, <1>12, AloneKept
<1> QED
  BY <1>9, <1>10, <1>11, <1>13 DEF IInv

LEMMA WriteRowInv ==
  ASSUME IInv, NEW r \in Requests, WriteRow(r)
  PROVE  IInv'
<1>1. req[r].at = "write" /\ UNCHANGED <<kind, stored, objects, usage, alerted, last, faults, past>>
  BY DEF WriteRow, At
<1>2. CASE Written(r) \subseteq stored
  BY <1>1, <1>2, WrittenInv DEF WriteRow
<1>3. CASE ~(Written(r) \subseteq stored)
  <2>1. GiveUp(r) /\ UNCHANGED <<rows, past>> /\ UNCHANGED <<edits, overlapped, faults>>
    BY <1>1, <1>3 DEF WriteRow, rows, GiveUp, Goto
  <2>2. PastTyped'
    BY <2>1, Facts DEF PastTyped, past, lost
  <2> QED
    BY <1>1, <2>1, <2>2, GivenUp DEF past, lost, At
<1> QED
  BY <1>2, <1>3

LEMMA UnlinkInv ==
  ASSUME IInv, NEW r \in Requests, Unlink(r)
  PROVE  IInv'
<1> DEFINE f  == req[r].file
           fs == req[r].kill \ {f}
           x  == Killing(fs)
<1>1. /\ req[r].at = "unlink" /\ stored' = stored \ {f} /\ Goto(r, x)
      /\ refs' = [a \in Rows |-> refs[a] \ {f}]
      /\ usage' = [bytes |-> Floor(usage.bytes, Bytes[{f}]), files |-> Floor(usage.files, 1)]
      /\ UNCHANGED <<kind, exists, objects, alerted, last, faults, left, torn, unanswered, unmarked, mailed>>
  BY DEF Unlink, Unlinked, At, past, lost
<1>2. Takes(r, x) /\ UNCHANGED <<edits, overlapped>>
  BY <1>1, GotoTakes DEF At
<1>3. /\ req[r] \in Request /\ Fits(req[r]) /\ f \in req[r].kill /\ req[r].kill \in SUBSET Files
      /\ req[r].new = {} /\ f \in Files /\ fs \in SUBSET Files
  BY <1>1, Typed DEF Request, Fits, Early
<1>4. /\ x \in Request /\ Fits(x) /\ x.at \in {"idle", "find"} /\ x.old = {} /\ x.new = {}
      /\ x.kill = fs /\ Own(x) = {}
  BY <1>3, KillingIs
<1> HIDE DEF x
<1>5. Held(x) \subseteq Held(req[r]) /\ Hand(req[r]) \ {f} \subseteq Hand(x)
  BY <1>1, <1>3, <1>4 DEF Held, Hand
<1>6. /\ stored \in SUBSET Files /\ usage.bytes \in Nat /\ usage.files \in Nat
      /\ refs \in [Rows -> SUBSET Files]
  BY Facts DEF RowsTyped
<1>7. /\ Bytes[stored] \in Nat /\ Cardinality(stored) \in Nat /\ Bytes[{f}] \in Nat
      /\ Bytes[stored'] \in Nat /\ Cardinality(stored') \in Nat
      /\ f \in stored => /\ Bytes[stored] = Bytes[stored'] + Bytes[{f}]
                         /\ Cardinality(stored) = Cardinality(stored') + 1
      /\ f \notin stored => stored' = stored
  <2>1. {f} \in SUBSET Files /\ stored' \in SUBSET Files
    BY <1>1, <1>3, <1>6
  <2>2. f \notin stored => stored' = stored
    BY <1>1
  <2> QED
    BY <1>1, <1>6, <2>1, <2>2, Counts, OneLess
<1>8. /\ usage'.bytes = Floor(usage.bytes, Bytes[{f}]) /\ usage'.files = Floor(usage.files, 1)
      /\ usage' \in [bytes : Nat, files : Nat]
  BY <1>1, <1>6, <1>7 DEF Floor
<1>9. refs' \in [Rows -> SUBSET Files] /\ \A a \in Rows : refs'[a] = refs[a] \ {f}
  BY <1>1, <1>6
<1>10. RowsTyped' /\ PastTyped' /\ last <= last'
  <2>1. RowsTyped'
    BY <1>1, <1>6, <1>8, <1>9, Facts DEF RowsTyped
  <2>2. PastTyped' /\ last <= last'
    BY <1>1, <1>2, Facts, Bounds DEF RowsTyped, PastTyped
  <2> QED
    BY <2>1, <2>2
<1>11. /\ \A a \in Rows : refs'[a] \subseteq stored'
       /\ \A a \in Rows : refs'[a] # {} => a \in exists'
  <2>1. /\ \A a \in Rows : refs[a] \subseteq stored
        /\ \A a \in Rows : refs[a] # {} => a \in exists
    BY Facts DEF Known
  <2> QED
    BY <1>1, <1>9, <2>1
<1>12. ShapeInv'
  BY <1>1, <1>2, <1>4, <1>5, <1>10, <1>11, ShapeKept
<1>13. InStore'
  <2>1. \A g \in stored' : g \in objects' \/ (g \in stored \ objects /\ ~Losing(req[r], g))
    BY <1>1 DEF Losing
  <2>2. objects \ objects' = {} /\ x.at # "register"
    BY <1>1, <1>4
  <2> QED
    BY <1>1, <1>2, <1>4, <2>1, <2>2, StoreKept
<1>14. NotAhead'
  <2>1. usage.bytes <= Bytes[stored] /\ usage.files <= Cardinality(stored)
    BY Facts DEF NotAhead
  <2> QED
    BY <1>6, <1>7, <1>8, <2>1 DEF NotAhead, Floor
<1>15. Exact /\ f \in stored => Exact'
  BY <1>6, <1>7, <1>8 DEF Exact, Floor
<1>16. ASSUME ~overlapped'
       PROVE  /\ Exact' /\ Current(x, refs', stored', alerted')
              /\ ~unmarked' => MarkedFor(x, mailed', alerted')
              /\ InHands(x, refs', stored', left')
              /\ Apart(refs') /\ Clear(x, refs', torn', unanswered')
  <2>1. ~overlapped /\ \A p \in Requests \ {r} : At(p, "idle")
    BY <1>2, <1>16 DEF Takes
  <2>2. /\ Exact /\ Current(req[r], refs, stored, alerted)
        /\ ~unmarked => MarkedFor(req[r], mailed, alerted)
        /\ InHands(req[r], refs, stored, left)
        /\ Apart(refs) /\ Clear(req[r], refs, torn, unanswered)
    BY <2>1, Alone
  <2>3. f \in stored
    BY <1>1, <2>2 DEF Current
  <2>4. Current(x, refs', stored', alerted')
    BY <1>4 DEF Current, Early
  <2>5. ~unmarked' => MarkedFor(x, mailed', alerted')
    BY <1>1, <1>4, <2>2 DEF MarkedFor
  <2>6. InHands(x, refs', stored', left')
    BY <1>1, <1>5, <1>9, <2>2 DEF InHands
  <2>7. Apart(refs')
    BY <1>9, <2>2 DEF Apart
  <2>8. Clear(x, refs', torn', unanswered')
    BY <1>1, <1>4, <1>9, <2>2 DEF Clear
  <2> QED
    BY <1>15, <2>2, <2>3, <2>4, <2>5, <2>6, <2>7, <2>8
<1>17. AloneInv'
  BY <1>2, <1>4, <1>16, AloneKept
<1> QED
  BY <1>12, <1>13, <1>14, <1>17 DEF IInv

-----------------------------------------------------------------------------
(* The invariant.                                                          *)

LEMMA CrashInv ==
  ASSUME IInv, Crash
  PROVE  IInv'
<1> DEFINE cut == {req[r].file : r \in {p \in Requests : At(p, "unlink")}}
<1>1. /\ req' = [r \in Requests |-> Idle] /\ faults' \in 0 .. MaxFaults
      /\ left' = left \union UNION {InHand(r) : r \in Requests} /\ torn' = torn \union cut
      /\ unmarked' = (unmarked \/ \E r \in Requests : At(r, "mark"))
      /\ UNCHANGED <<kind, refs, exists, stored, objects, usage, alerted, last, edits, overlapped,
                     unanswered, mailed>>
  BY Facts, Bounds DEF Crash, rows, Fault, PastTyped
<1>2. /\ req' \in [Requests -> Request] /\ \A r \in Requests : req'[r] = Idle
  BY <1>1, IdleType
<1>3. Own(Idle) = {} /\ Held(Idle) = {}
  BY IdleIs DEF Own, Held, Early
<1>4. \A r \in Requests : InHand(r) = Hand(req[r]) /\ Hand(req[r]) \subseteq Files
  BY Typed DEF InHand, Hand, At, Request
<1>5. \A f \in cut : \E r \in Requests : f \in req[r].kill /\ req[r].at = "unlink"
  BY Typed DEF At, Fits
<1>6. cut \subseteq Files /\ cut \subseteq 1 .. last
  BY <1>5, Typed, Facts DEF Request, Fresh, Held
<1>7. RowsTyped' /\ PastTyped'
  <2>1. left' \subseteq Files /\ torn' \subseteq Files /\ unmarked' \in BOOLEAN
    BY <1>1, <1>4, <1>6, Facts DEF PastTyped
  <2> QED
    BY <1>1, <2>1, Facts DEF RowsTyped, PastTyped
<1>8. TypeOK'
  BY <1>2, <1>7 DEF TypeOK, RowsTyped, PastTyped
<1>9. Known' /\ Fresh'
  <2>1. Known'
    BY <1>1, Facts DEF Known
  <2>2. \A r \in Requests : Own(req'[r]) = {} /\ Held(req'[r]) = {}
    BY <1>2, <1>3
  <2>3. torn' \subseteq 1 .. last'
    BY <1>1, <1>6, Facts DEF Fresh
  <2> QED
    BY <2>1, <2>2, <2>3 DEF Fresh, Own, Held
<1>10. \A r \in Requests : Fits(req'[r])
  BY <1>2, IdleType
<1>11. ShapeInv'
  BY <1>8, <1>9, <1>10 DEF ShapeInv, Fits
<1>12. InStore'
  <2>1. \A r \in Requests, f \in Files : Losing(req[r], f) => f \in cut
    BY DEF Losing, At
  <2>2. \A f \in stored : f \in objects \union torn \/ \E r \in Requests : Losing(req[r], f)
    BY Facts DEF InStore
  <2>3. stored \subseteq Files
    BY Facts DEF RowsTyped
  <2>4. \A f \in stored' : f \in objects' \union torn'
    BY <1>1, <2>1, <2>2, <2>3
  <2> QED
    BY <1>2, <2>4, IdleIs DEF InStore
<1>13. NotAhead' /\ (Exact => Exact')
  BY <1>1, Facts DEF NotAhead, Exact
<1>14. AloneInv'
  <2>1. OneAtATime'
    BY <1>2, IdleIs DEF OneAtATime, At
  <2>2. \A r \in Requests : Current(req'[r], refs', stored', alerted')
    BY <1>2, IdleIs DEF Current, Early
  <2>3. ASSUME ~overlapped, ~unmarked'
        PROVE  Marked'
    <3>1. Marked /\ \A r \in Requests : ~At(r, "mark")
      BY <1>1, <2>3, Facts DEF AloneInv
    <3> QED
      BY <1>1, <1>2, <3>1, IdleIs DEF Marked, At
  <2>4. ASSUME ~overlapped, NEW f \in stored'
        PROVE  Cared(f)' \/ f \in left'
    <3>1. Cared(f) \/ f \in left
      BY <1>1, <2>4, Facts DEF AloneInv
    <3> QED
      BY <1>1, <1>4, <3>1 DEF Cared
  <2>5. ASSUME ~overlapped
        PROVE  \A a \in Rows \ unanswered' : refs'[a] \intersect torn' = {}
    <3>1. /\ \A q \in Requests : Clear(req[q], refs, torn, unanswered)
          /\ \A a \in Rows \ unanswered : refs[a] \intersect torn = {}
      BY <2>5, Facts DEF AloneInv
    <3>2. \A a \in Rows \ unanswered : refs[a] \intersect cut = {}
      BY <1>5, <3>1 DEF Clear
    <3> QED
      BY <1>1, <3>1, <3>2
  <2>6. ASSUME ~overlapped, NEW r \in Requests
        PROVE  Clear(req'[r], refs', torn', unanswered')
    <3>1. req'[r].new = {} /\ req'[r].kill = {}
      BY <1>2, IdleIs
    <3> QED
      BY <2>5, <2>6, <3>1 DEF Clear
  <2>7. ~overlapped => Apart(refs')
    BY <1>1, Facts DEF AloneInv
  <2> QED
    BY <1>1, <1>13, <2>1, <2>2, <2>3, <2>4, <2>5, <2>6, <2>7, Facts DEF AloneInv, Current, Apart, Clear
<1> QED
  BY <1>11, <1>12, <1>13, <1>14 DEF IInv

LEMMA InitInv == Init => IInv
<1> SUFFICES ASSUME Init PROVE IInv
  OBVIOUS
<1>1. PICK n \in 0 .. MaxFiles : Present = 1 .. n
  BY FirstAssumption DEF Present
<1>2. Cardinality(Present) = n /\ Present \in SUBSET Files /\ n \in Nat
  BY <1>1, Bounds, FS_Interval
<1>3. Bytes[Present] \in Nat
  BY <1>2, Counts
<1>4. /\ \A r \in Requests : req[r] = Idle
      /\ req \in [Requests -> Request]
  BY IdleType DEF Init
<1>5. /\ refs \in [Rows -> SUBSET Files] /\ \A a \in Rows : refs[a] \subseteq Present
      /\ kind \in [Rows -> Kinds]
  BY FirstAssumption DEF Init, Present
<1>6. Own(Idle) = {} /\ Held(Idle) = {}
  BY IdleIs DEF Own, Held, Early
<1>7. /\ stored = 1 .. n /\ objects = stored /\ last = n
      /\ usage.bytes = Bytes[stored] /\ usage.files = Cardinality(stored)
      /\ usage \in [bytes : Nat, files : Nat]
  BY <1>1, <1>2, <1>3 DEF Init
<1>8. TypeOK
  <2>1. stored \subseteq Files /\ objects \subseteq Files /\ last \in 0 .. MaxFiles
    BY <1>1, <1>2, <1>7
  <2>2. exists \subseteq Rows /\ alerted \in Thresholds /\ mailed \in Thresholds
    BY DEF Init, Thresholds
  <2>3. /\ edits \in 0 .. MaxEdits /\ faults \in 0 .. MaxFaults
        /\ overlapped \in BOOLEAN /\ unmarked \in BOOLEAN
        /\ left \subseteq Files /\ torn \subseteq Files /\ unanswered \subseteq Rows
    <3>1. /\ edits = 0 /\ faults = 0 /\ overlapped = FALSE /\ unmarked = FALSE
          /\ left = {} /\ torn = {} /\ unanswered = {}
      BY DEF Init
    <3>2. edits \in 0 .. MaxEdits /\ faults \in 0 .. MaxFaults
      BY <3>1, Bounds
    <3> QED
      BY <3>1, <3>2
  <2> QED
    BY <1>4, <1>5, <1>7, <2>1, <2>2, <2>3 DEF TypeOK
<1>9. Known
  <2>1. \A a \in Rows : refs[a] # {} => a \in exists
    BY DEF Init
  <2> QED
    BY <1>1, <1>5, <1>7, <2>1 DEF Known
<1>10. Fresh
  <2>1. torn = {}
    BY DEF Init
  <2> QED
    BY <1>4, <1>6, <2>1 DEF Fresh
<1>11. ShapeInv
  BY <1>4, <1>8, <1>9, <1>10, IdleType DEF ShapeInv
<1>12. InStore
  BY <1>4, <1>7, IdleIs DEF InStore
<1>13. NotAhead /\ Exact
  <2>1. usage.bytes \in Nat /\ usage.files \in Nat
    BY <1>7
  <2> QED
    BY <1>7, <2>1 DEF NotAhead, Exact
<1>14. AloneInv
  <2>1. OneAtATime
    BY <1>4, IdleIs DEF OneAtATime, At
  <2>2. \A r \in Requests : Current(req[r], refs, stored, alerted)
    BY <1>4, IdleIs DEF Current, Early
  <2>3. Marked
    BY <1>4, IdleIs DEF Marked, At, Init
  <2>4. \A f \in stored : Cared(f)
    BY <1>1, <1>7 DEF Cared, Init, Present
  <2>5. Apart(refs)
    BY FirstAssumption DEF Apart, Init
  <2>6. torn = {} /\ \A r \in Requests : Clear(req[r], refs, torn, unanswered)
    BY <1>4, IdleIs DEF Clear, Init
  <2> QED
    BY <1>13, <2>1, <2>2, <2>3, <2>4, <2>5, <2>6 DEF AloneInv
<1> QED
  BY <1>11, <1>12, <1>13, <1>14 DEF IInv

LEMMA ContinueInv ==
  ASSUME IInv, NEW r \in Requests, Continue(r)
  PROVE  IInv'
BY SumAndQuota, UploadInv, RegisterInv, DropObjectInv, OwnerInv, WriteRowInv, AnswerInv, FindFileInv,
   DeleteBlobInv, UnlinkInv, DeleteOrphansInv, NotifyInv, MarkInv DEF Continue

LEMMA StepInv == IInv /\ [Next]_vars => IInv'
<1> SUFFICES ASSUME IInv, [Next]_vars PROVE IInv'
  OBVIOUS
<1>1. CASE Next
  BY <1>1, CallInv, ContinueInv, Failures, CrashInv DEF Next
<1>2. CASE UNCHANGED vars
  <2>1. /\ UNCHANGED <<kind, refs, exists, stored, objects, usage, alerted, last>>
        /\ UNCHANGED <<req, edits, faults, overlapped, left, torn, unanswered, unmarked, mailed>>
    BY <1>2 DEF vars, rows, past, lost
  <2>2. ShapeInv'
    BY <2>1 DEF IInv, ShapeInv, TypeOK, Known, Fresh, Own, Held, Fits
  <2>3. InStore' /\ NotAhead'
    BY <2>1, Facts DEF InStore, NotAhead, Losing
  <2>4. AloneInv'
    BY <2>1, Facts DEF AloneInv, OneAtATime, Exact, Current, Marked, Cared, Hand, At, Apart, Clear
  <2> QED
    BY <2>2, <2>3, <2>4 DEF IInv
<1> QED
  BY <1>1, <1>2

-----------------------------------------------------------------------------
(* Theorems.                                                               *)

\* The invariant holds in every state a run of the program reaches.
THEOREM Invariant == Spec => []IInv
BY InitInv, StepInv, PTL DEF Spec

\* Every variable has its type: no file has an id that was never given out, and
\* no counter goes below zero (StoredFilesService).
THEOREM TypeCorrect == Spec => []TypeOK
<1>1. IInv => TypeOK
  BY DEF IInv, ShapeInv
<1> QED
  BY <1>1, Invariant, PTL

\* The counters of the organisation never say more than its files, and exactly
\* that if no two requests overlapped (registerFile, deleteStoredFileAndBlob).
THEOREM CountersRight == Spec => []CountersAgree
<1>1. ASSUME IInv PROVE CountersAgree
  <2>1. NotAhead /\ (~overlapped => Exact) /\ usage \in [bytes : Nat, files : Nat]
    BY <1>1, Facts DEF AloneInv, RowsTyped
  <2>2. usage = [bytes |-> usage.bytes, files |-> usage.files]
    BY <2>1
  <2> QED
    BY <2>1, <2>2 DEF CountersAgree, NotAhead, Exact
<1> QED
  BY <1>1, Invariant, PTL

\* What a row refers to is in the store, is being deleted this moment, or was half
\* deleted; nobody who runs alone deletes what a row refers to, unless it is the
\* service whose own request failed after its insertion (deleteStoredFileAndBlob
\* and the handlers that call it, the foreign keys of StoredFile).
THEOREM LinksWork == Spec => []NoDeadLinks
<1>1. ASSUME IInv PROVE NoDeadLinks
  <2>1. \A a \in Rows : refs[a] \subseteq stored
    BY <1>1, Facts DEF Known
  <2>2. \A f \in stored : f \in objects \union torn \/ \E r \in Requests : Losing(req[r], f)
    BY <1>1, Facts DEF InStore
  <2>3. ASSUME ~overlapped, NEW a \in Rows \ unanswered, NEW f \in refs[a]
        PROVE  f \notin torn /\ \A r \in Requests : f \in req[r].kill => At(r, "list")
    <3>1. /\ refs[a] \intersect torn = {}
          /\ \A r \in Requests : Clear(req[r], refs, torn, unanswered)
      BY <1>1, <2>3, Facts DEF AloneInv
    <3> QED
      BY <3>1 DEF Clear, At
  <2> QED
    BY <2>1, <2>2, <2>3 DEF NoDeadLinks, Losing, At
<1> QED
  BY <1>1, Invariant, PTL

\* A registered file belongs to a row, is in the hands of a request, or was let go
\* by one that failed, died or had its owner refused, unless requests overlapped
\* (the catch of each handler).
THEOREM NothingLeaks == Spec => []NoLeaks
<1>1. ASSUME IInv PROVE NoLeaks
  <2>1. ~overlapped => \A f \in stored : Cared(f) \/ f \in left
    BY <1>1, Facts DEF AloneInv
  <2>2. \A r \in Requests : InHand(r) = Hand(req[r])
    BY DEF InHand, Hand, At
  <2> QED
    BY <2>1, <2>2 DEF NoLeaks, Cared
<1> QED
  BY <1>1, Invariant, PTL

\* An organisation is mailed about a threshold once until its usage was seen
\* below all of them, by a job that runs alone (warnStorageNearLimit).
THEOREM OneMail == Spec => OneMailPerRise
<1>1. ASSUME IInv, NEW r \in Requests, Notify(r), req[r].pct > req[r].seen, ~overlapped, ~unmarked
      PROVE  req[r].pct > mailed
  <2>1. req[r].at = "notify"
    BY <1>1 DEF Notify, At
  <2>2. mailed <= alerted /\ req[r].seen = alerted
    BY <1>1, <2>1, Facts, NotMarking DEF AloneInv, Current, At
  <2>3. req[r].pct \in Nat /\ mailed \in Nat /\ alerted \in Nat
    BY <1>1, Typed, Facts DEF Request, PastTyped, RowsTyped, Thresholds
  <2> QED
    BY <1>1, <2>2, <2>3
<1>2. IInv /\ [Next]_vars =>
        [\A r \in Requests :
           (Notify(r) /\ req[r].pct > req[r].seen /\ ~overlapped /\ ~unmarked) => req[r].pct > mailed]_vars
  BY <1>1
<1> QED
  BY <1>2, Invariant, PTL DEF Spec, OneMailPerRise
================================================================================
