----------------------- MODULE MeetingSchedulesProofs -----------------------
(***************************************************************************)
(* Proofs about MeetingSchedules, for every number of schedules and        *)
(* requests, every length of the week and every set of durations: an       *)
(* occurrence is started once, and windows of a guild never overlap.       *)
(***************************************************************************)
EXTENDS MeetingSchedules, TLAPS

(***************************************************************************)
(* Weeks.  A remainder is what is left of a multiple.                      *)
(***************************************************************************)

LEMMA RemainderIs ==
  ASSUME NEW w \in Nat \ {0}, NEW a \in Int, NEW q \in Int, NEW r \in 0 .. (w - 1), a = w * q + r
  PROVE  a % w = r
OBVIOUS

LEMMA Distributes ==
  ASSUME NEW w \in Int, NEW q \in Int, NEW k \in Int
  PROVE  w * q \in Int /\ w * (q + k) = w * q + w * k /\ w * (q - k) = w * q - w * k
OBVIOUS

LEMMA RemainderOf ==
  ASSUME NEW w \in Nat \ {0}, NEW a \in Int
  PROVE  a % w \in 0 .. (w - 1) /\ a \div w \in Int /\ a = w * (a \div w) + (a % w)
<1>1. a % w \in 0 .. (w - 1)
  OBVIOUS
<1>2. a \div w \in Int
  OBVIOUS
<1>3. a = w * (a \div w) + (a % w)
  OBVIOUS
<1>4. QED
  BY <1>1, <1>2, <1>3

Multiple(m, w) == \E k \in Int : m = w * k

LEMMA RemainderShifts ==
  ASSUME NEW w \in Nat \ {0}, NEW a \in Int, NEW m \in Int, Multiple(m, w)
  PROVE  (a + m) % w = a % w
<1> DEFINE r == a % w
           q == a \div w
<1>1. r \in 0 .. (w - 1)
  BY RemainderOf
<1>2. q \in Int /\ a = w * q + r
  BY RemainderOf
<1>3. PICK k \in Int : m = w * k
  BY DEF Multiple
<1> HIDE DEF r, q
<1>4. w * k \in Int /\ w * q \in Int /\ w * (q + k) = w * q + w * k
  BY <1>2, <1>3, Distributes
<1>5. a + m = w * (q + k) + r
  BY <1>1, <1>2, <1>3, <1>4
<1>6. a + m \in Int /\ q + k \in Int
  BY <1>2, <1>3, <1>4
<1>7. (a + m) % w = r
  BY <1>1, <1>5, <1>6, RemainderIs, ZenonT(60)
<1>8. QED
  BY <1>7 DEF r

(* What catching up adds is a number of whole weeks, and no week too many. *)
LEMMA WholeWeeks ==
  ASSUME NEW w \in Nat \ {0}, NEW x \in Nat
  PROVE  x \div w \in Nat /\ w * (x \div w) <= x /\ w * (x \div w + 1) = w * (x \div w) + w
<1>1. x \div w \in Nat /\ w * (x \div w) <= x
  OBVIOUS
<1>2. QED
  BY <1>1

LEMMA Multiples ==
  ASSUME NEW w \in Nat \ {0}, NEW k \in Nat
  PROVE  w * k \in Nat /\ (w * k) % w = 0
<1>1. w * k \in Nat
  OBVIOUS
<1>2. QED
  BY <1>1

(* Two windows share an instant of the week only if one begins in the other. *)
LEMMA SharedInstant ==
  ASSUME NEW w \in Nat \ {0}, NEW a \in Int, NEW b \in Int, NEW x \in Int,
         NEW da \in Nat, NEW db \in Nat, (x - a) % w < da, (x - b) % w < db
  PROVE  (a - b) % w < db \/ (b - a) % w < da
<1> DEFINE p == (x - a) % w
           q == (x - b) % w
           i == (x - a) \div w
           j == (x - b) \div w
<1>1. x - a \in Int /\ x - b \in Int
  OBVIOUS
<1>2. p \in 0 .. (w - 1) /\ q \in 0 .. (w - 1) /\ p < da /\ q < db
  BY <1>1, RemainderOf
<1>3. i \in Int /\ x - a = w * i + p
  BY <1>1, RemainderOf
<1>4. j \in Int /\ x - b = w * j + q
  BY <1>1, RemainderOf
<1> HIDE DEF p, q, i, j
<1>5. /\ w * i \in Int /\ w * j \in Int /\ i - j \in Int /\ j - i \in Int
      /\ w * (j - i) = w * j - w * i /\ w * (i - j) = w * i - w * j
  BY <1>3, <1>4, Distributes
<1>6. a - b = w * (j - i) + (q - p) /\ b - a = w * (i - j) + (p - q)
  BY <1>2, <1>3, <1>4, <1>5
<1>7. CASE p <= q
  <2>1. q - p \in 0 .. (w - 1) /\ a - b \in Int
    BY <1>2, <1>7
  <2>2. (a - b) % w = q - p
    BY <1>5, <1>6, <2>1, RemainderIs, ZenonT(60)
  <2>3. QED
    BY <1>2, <2>2
<1>8. CASE p > q
  <2>1. p - q \in 0 .. (w - 1) /\ b - a \in Int
    BY <1>2, <1>8
  <2>2. (b - a) % w = p - q
    BY <1>5, <1>6, <2>1, RemainderIs, ZenonT(60)
  <2>3. QED
    BY <1>2, <2>2
<1>9. QED
  BY <1>2, <1>7, <1>8

(***************************************************************************)
(* The inductive invariant.                                                *)
(***************************************************************************)

Rows == [live : BOOLEAN, active : BOOLEAN, start : Nat, dur : Nat]

Requests ==
    [phase : {"none", "locked", "checked", "done", "answered", "dropped"}, start : Nat, dur : Nat]

Occurrence == Schedule \X Nat

Evaluations ==
    [phase : {"idle", "rows", "checked", "claimed"}, due : SUBSET Occurrence,
     at : Occurrence \cup {None}]

Types ==
    /\ now \in Nat /\ held \in Nat
    /\ row \in [Schedule -> Rows] /\ web \in [Request -> Requests]
    /\ eval \in Evaluations
    /\ begun \in [Schedule -> [Instant -> Nat]]

(* What was begun lies before the occurrence the schedule waits for. *)
OnceEach ==
    \A s \in Schedule, o \in Instant :
        /\ begun[s][o] <= 1
        /\ begun[s][o] > 0 => row[s].live /\ o < row[s].start

(* An occurrence that is claimed was not begun, and the schedule has moved on. *)
Claimed ==
    /\ \A s \in Schedule : row[s].active => row[s].live
    /\ eval.phase \in {"checked", "claimed"} => eval.at \in Occurrence
    /\ eval.phase = "claimed" =>
         /\ row[eval.at[1]].live /\ eval.at[2] < row[eval.at[1]].start
         /\ eval.at[2] \in Instant => begun[eval.at[1]][eval.at[2]] = 0

(* One request has the lock of the process, and its session the other lock.  *)
OneWriter ==
    /\ \A r \in Request : Locked(r) => held > 0
    /\ \A q, r \in Request : Locked(q) /\ Locked(r) => q = r

(* One of two windows begins in the other, whatever the week. *)
Touch(a, da, b, db) == (a - b) % Week < db \/ (b - a) % Week < da

Apart ==
    \A s, t \in Schedule :
        row[s].active /\ row[t].active /\ s # t =>
            ~Touch(row[s].start, row[s].dur, row[t].start, row[t].dur)

(* What a request has found to be free stays free while it has the lock.     *)
CheckedFits ==
    \A r \in Request, s \in Schedule :
        web[r].phase = "checked" /\ row[s].active =>
            ~Touch(web[r].start, web[r].dur, row[s].start, row[s].dur)

SchedulesInv == Types /\ OnceEach /\ Claimed /\ OneWriter /\ Apart /\ CheckedFits

(***************************************************************************)
(* What the steps do to rows and windows.                                  *)
(***************************************************************************)

LEMMA Weeks ==
  ASSUME WeekAssumption
  PROVE  /\ Week \in Nat \ {0} /\ Instant \subseteq Nat /\ Durations \subseteq Nat
         /\ \A k \in Nat : Week * k \in Nat
         /\ Week * 0 = 0 /\ Week * 1 = Week
<1>1. Week \in Nat \ {0} /\ Horizon \in Nat /\ Durations \subseteq Nat
  BY DEF WeekAssumption
<1>2. Instant \subseteq Nat
  BY <1>1 DEF Instant
<1>3. \A k \in Nat : Week * k \in Nat
  BY <1>1, Multiples
<1>4. Week * 0 = 0 /\ Week * 1 = Week
  BY <1>1
<1>5. QED
  BY <1>1, <1>2, <1>3, <1>4

LEMMA Known ==
  ASSUME Types
  PROVE  /\ \A s \in Schedule : /\ row[s].live \in BOOLEAN /\ row[s].active \in BOOLEAN
                                /\ row[s].start \in Nat /\ row[s].dur \in Nat
         /\ \A r \in Request : web[r].start \in Nat /\ web[r].dur \in Nat
         /\ now \in Nat /\ held \in Nat
<1>1. \A s \in Schedule : row[s] \in Rows
  BY DEF Types
<1>2. \A r \in Request : web[r] \in Requests
  BY DEF Types
<1>3. \A s \in Schedule : /\ row[s].live \in BOOLEAN /\ row[s].active \in BOOLEAN
                          /\ row[s].start \in Nat /\ row[s].dur \in Nat
  BY <1>1 DEF Rows
<1>4. \A r \in Request : web[r].start \in Nat /\ web[r].dur \in Nat
  BY <1>2 DEF Requests
<1>5. QED
  BY <1>3, <1>4 DEF Types

WeeksAhead(x, a) == \E k \in Nat : x = a + Week * k

(* Rows are kept, canceled, or moved on by whole weeks. *)
RowsMove ==
    /\ row' \in [Schedule -> Rows]
    /\ \A s \in Schedule :
         /\ row[s].live => row'[s].live
         /\ row'[s].live => row[s].live
         /\ row'[s].active => row[s].active
         /\ row'[s].dur = row[s].dur /\ row'[s].start >= row[s].start
         /\ WeeksAhead(row'[s].start, row[s].start)

LEMMA NotAhead ==
  ASSUME WeekAssumption, NEW a \in Nat
  PROVE  WeeksAhead(a, a)
<1>1. a = a + Week * 0 /\ 0 \in Nat
  BY Weeks
<1>2. QED
  BY <1>1, Zenon DEF WeeksAhead

LEMMA RowsStay ==
  ASSUME WeekAssumption, Types, row' = row
  PROVE  RowsMove
<1>1. \A s \in Schedule : WeeksAhead(row[s].start, row[s].start)
  BY Known, NotAhead
<1>2. QED
  BY <1>1, Known DEF RowsMove, Types

(* The distance of two windows does not depend on the weeks they are in. *)
LEMMA SameDistance ==
  ASSUME WeekAssumption, NEW a \in Nat, NEW b \in Nat, NEW x \in Nat, NEW y \in Nat,
         WeeksAhead(x, a), WeeksAhead(y, b)
  PROVE  (x - y) % Week = (a - b) % Week
<1>1. PICK k \in Nat : x = a + Week * k
  BY DEF WeeksAhead
<1>2. PICK l \in Nat : y = b + Week * l
  BY DEF WeeksAhead
<1> DEFINE m == (x - a) - (y - b)
<1>3. /\ Week \in Nat \ {0} /\ Week * k \in Int /\ Week * l \in Int /\ k - l \in Int
      /\ Week * (k - l) = Week * k - Week * l
  BY Weeks, Distributes
<1>4. m = Week * (k - l)
  BY <1>1, <1>2, <1>3
<1>5. m \in Int /\ a - b \in Int /\ x - y = (a - b) + m
  OBVIOUS
<1> HIDE DEF m
<1>6. Multiple(m, Week)
  BY <1>3, <1>4, Zenon DEF Multiple
<1>7. QED
  BY <1>3, <1>5, <1>6, RemainderShifts, ZenonT(60)

LEMMA TouchMoved ==
  ASSUME WeekAssumption, NEW a \in Nat, NEW b \in Nat, NEW x \in Nat, NEW y \in Nat,
         WeeksAhead(x, a), WeeksAhead(y, b),
         NEW da \in Nat, NEW db \in Nat, Touch(x, da, y, db)
  PROVE  Touch(a, da, b, db)
<1>1. (x - y) % Week = (a - b) % Week
  BY SameDistance
<1>2. (y - x) % Week = (b - a) % Week
  BY SameDistance
<1>3. QED
  BY <1>1, <1>2 DEF Touch

(* The window of a row that moves touches nothing new. *)
LEMMA RowTouches ==
  ASSUME WeekAssumption, Types, RowsMove, NEW s \in Schedule, NEW a \in Nat, NEW d \in Nat,
         Touch(a, d, row'[s].start, row'[s].dur)
  PROVE  Touch(a, d, row[s].start, row[s].dur)
<1>1. /\ row[s].start \in Nat /\ row[s].dur \in Nat /\ row'[s].dur = row[s].dur
      /\ row'[s].start \in Nat /\ WeeksAhead(row'[s].start, row[s].start)
  BY Known DEF RowsMove, Rows
<1>2. WeeksAhead(a, a) /\ Touch(a, d, row'[s].start, row[s].dur)
  BY <1>1, NotAhead
<1>3. QED
  BY <1>1, <1>2, TouchMoved

(* A row that moves disturbs neither what was begun nor the other windows. *)
LEMMA KeptByMoves ==
  ASSUME WeekAssumption, SchedulesInv, RowsMove, UNCHANGED <<web, held, begun>>
  PROVE  (OnceEach /\ OneWriter /\ Apart /\ CheckedFits)'
<1>0. Types
  BY DEF SchedulesInv
<1>1. OnceEach'
  <2>1. ASSUME NEW s \in Schedule, NEW o \in Instant
        PROVE  begun'[s][o] <= 1 /\ (begun'[s][o] > 0 => row'[s].live /\ o < row'[s].start)
    <3>1. /\ row[s].start \in Nat /\ row'[s].start \in Nat /\ row'[s].start >= row[s].start
          /\ row[s].live => row'[s].live
          /\ o \in Nat
      BY <1>0, Known, Weeks DEF RowsMove, Rows
    <3>2. begun[s][o] <= 1 /\ (begun[s][o] > 0 => row[s].live /\ o < row[s].start)
      BY DEF SchedulesInv, OnceEach
    <3>3. QED
      BY <3>1, <3>2
  <2>2. QED
    BY <2>1 DEF OnceEach
<1>2. OneWriter'
  BY DEF SchedulesInv, OneWriter, Locked
<1>3. Apart'
  <2>1. ASSUME NEW s \in Schedule, NEW t \in Schedule, row'[s].active, row'[t].active, s # t,
               Touch(row'[s].start, row'[s].dur, row'[t].start, row'[t].dur)
        PROVE  FALSE
    <3>1. row[s].active /\ row[t].active /\ row'[s].dur = row[s].dur /\ row'[t].dur = row[t].dur
      BY <2>1 DEF RowsMove
    <3>2. WeeksAhead(row'[s].start, row[s].start) /\ WeeksAhead(row'[t].start, row[t].start)
      BY DEF RowsMove
    <3>3. /\ row[s].start \in Nat /\ row[s].dur \in Nat
          /\ row[t].start \in Nat /\ row[t].dur \in Nat
      BY <1>0, Known
    <3>4. /\ row'[s].start \in Nat /\ row'[t].start \in Nat
          /\ Touch(row'[s].start, row[s].dur, row'[t].start, row[t].dur)
      BY <2>1, <3>1 DEF RowsMove, Rows
    <3>6. Touch(row[s].start, row[s].dur, row[t].start, row[t].dur)
      BY <3>2, <3>3, <3>4, TouchMoved
    <3>7. QED
      BY <2>1, <3>1, <3>6 DEF SchedulesInv, Apart
  <2>2. QED
    BY <2>1 DEF Apart
<1>4. CheckedFits'
  <2>1. ASSUME NEW r \in Request, NEW s \in Schedule, web[r].phase = "checked", row'[s].active,
               Touch(web[r].start, web[r].dur, row'[s].start, row'[s].dur)
        PROVE  FALSE
    <3>1. web[r].start \in Nat /\ web[r].dur \in Nat /\ row[s].active
      BY <1>0, <2>1, Known DEF RowsMove
    <3>2. Touch(web[r].start, web[r].dur, row[s].start, row[s].dur)
      BY <1>0, <2>1, <3>1, RowTouches
    <3>3. QED
      BY <2>1, <3>1, <3>2 DEF SchedulesInv, CheckedFits
  <2>2. QED
    BY <2>1 DEF CheckedFits
<1>5. QED
  BY <1>1, <1>2, <1>3, <1>4


LEMMA CatchesUp ==
  ASSUME WeekAssumption, now \in Nat, NEW r \in Rows
  PROVE  /\ CaughtUp(r) \in Rows
         /\ CaughtUp(r).live = r.live /\ CaughtUp(r).active = r.active /\ CaughtUp(r).dur = r.dur
         /\ CaughtUp(r).start >= r.start /\ WeeksAhead(CaughtUp(r).start, r.start)
         /\ CaughtUp(r) # r => r.active /\ CaughtUp(r).start - Week + r.dur <= now
<1>1. r.start \in Nat /\ r.dur \in Nat /\ r.active \in BOOLEAN
  BY DEF Rows
<1>2. CASE ~(r.active /\ r.start + r.dur <= now)
  <2>1. CaughtUp(r) = r
    BY <1>2 DEF CaughtUp
  <2>2. WeeksAhead(r.start, r.start)
    BY <1>1, NotAhead
  <2>3. QED
    BY <1>1, <2>1, <2>2
<1>3. CASE r.active /\ r.start + r.dur <= now
  <2> DEFINE x == now - (r.start + r.dur)
             k == x \div Week + 1
             n == r.start + Week * k
  <2>1. x \in Nat /\ Week \in Nat \ {0}
    BY <1>1, <1>3, Weeks
  <2>2. k \in Nat
    BY <2>1, WholeWeeks
  <2>3. Week * k \in Nat /\ Week * k - Week <= x
    BY <2>1, <2>2, WholeWeeks, Weeks
  <2>4. n \in Nat /\ n >= r.start /\ n - Week + r.dur <= now
    BY <1>1, <2>1, <2>3
  <2>5. WeeksAhead(n, r.start)
    BY <2>2, Zenon DEF WeeksAhead
  <2>6. CaughtUp(r) = [r EXCEPT !.start = n]
    BY <1>3 DEF CaughtUp
  <2> HIDE DEF n
  <2>7. CaughtUp(r) \in Rows
    BY <2>4, <2>6 DEF Rows
  <2>8. /\ CaughtUp(r).live = r.live /\ CaughtUp(r).active = r.active /\ CaughtUp(r).dur = r.dur
        /\ CaughtUp(r).start = n
    BY <2>6 DEF Rows
  <2>9. QED
    BY <1>3, <2>4, <2>5, <2>7, <2>8
<1>4. QED
  BY <1>2, <1>3

LEMMA CatchUpMoves ==
  ASSUME WeekAssumption, Types, row' = [s \in Schedule |-> CaughtUp(row[s])]
  PROVE  RowsMove
<1>1. now \in Nat /\ \A s \in Schedule : row[s] \in Rows
  BY DEF Types
<1>2. ASSUME NEW s \in Schedule
      PROVE  /\ row'[s] \in Rows /\ row'[s].live = row[s].live /\ row'[s].active = row[s].active
             /\ row'[s].dur = row[s].dur /\ row'[s].start >= row[s].start
             /\ WeeksAhead(row'[s].start, row[s].start)
  <2>1. row'[s] = CaughtUp(row[s]) /\ row[s] \in Rows
    BY <1>1
  <2>2. QED
    BY <1>1, <2>1, CatchesUp
<1>3. row' \in [Schedule -> Rows]
  BY <1>2
<1>4. QED
  BY <1>2, <1>3 DEF RowsMove

LEMMA CancelMoves ==
  ASSUME WeekAssumption, Types, NEW s \in Schedule, CancelRow(s)
  PROVE  RowsMove
<1>1. row' = [row EXCEPT ![s] = [row[s] EXCEPT !.active = FALSE]] /\ row \in [Schedule -> Rows]
  BY DEF CancelRow, Types
<1>2. row' \in [Schedule -> Rows] /\ row'[s] = [row[s] EXCEPT !.active = FALSE]
  BY <1>1 DEF Rows
<1>3. /\ row'[s].live = row[s].live /\ row'[s].active = FALSE /\ row'[s].dur = row[s].dur
      /\ row'[s].start = row[s].start
  BY <1>1, <1>2 DEF Rows
<1>4. \A t \in Schedule : t # s => row'[t] = row[t]
  BY <1>1
<1>5. \A t \in Schedule : row[t].start \in Nat /\ WeeksAhead(row[t].start, row[t].start)
  BY Known, NotAhead
<1>6. ASSUME NEW t \in Schedule
      PROVE  /\ row'[t].live = row[t].live /\ (row'[t].active => row[t].active)
             /\ row'[t].dur = row[t].dur /\ row'[t].start = row[t].start
  <2>1. CASE t = s
    BY <1>3, <2>1 DEF CancelRow
  <2>2. CASE t # s
    BY <1>4, <2>2
  <2>3. QED
    BY <2>1, <2>2
<1>7. QED
  BY <1>2, <1>5, <1>6 DEF RowsMove

LEMMA ClaimMoves ==
  ASSUME WeekAssumption, Types, NEW s \in Schedule, row[s].active, row' = [row EXCEPT ![s].start = @ + Week]
  PROVE  RowsMove /\ row'[s].start = row[s].start + Week
<1>0. row[s].start \in Nat /\ Week \in Nat \ {0} /\ row[s].start + Week \in Nat
  BY Known, Weeks
<1>1. row' = [row EXCEPT ![s] = [row[s] EXCEPT !.start = row[s].start + Week]] /\ row \in [Schedule -> Rows]
  BY DEF Types
<1>2. row' \in [Schedule -> Rows] /\ row'[s] = [row[s] EXCEPT !.start = row[s].start + Week]
  BY <1>0, <1>1 DEF Rows
<1>3. /\ row'[s].live = row[s].live /\ row'[s].active = row[s].active /\ row'[s].dur = row[s].dur
      /\ row'[s].start = row[s].start + Week
  BY <1>1, <1>2, ZenonT(60) DEF Rows
<1>4. \A t \in Schedule : t # s => row'[t] = row[t]
  BY <1>1
<1>5. \A t \in Schedule : row[t].start \in Nat /\ WeeksAhead(row[t].start, row[t].start)
  BY Known, NotAhead
<1>6. WeeksAhead(row'[s].start, row[s].start)
  <2>1. row'[s].start = row[s].start + Week * 1 /\ 1 \in Nat
    BY <1>0, <1>3, Weeks
  <2>2. QED
    BY <2>1, Zenon DEF WeeksAhead
<1>7. QED
  BY <1>0, <1>2, <1>3, <1>4, <1>5, <1>6 DEF RowsMove

(***************************************************************************)
(* Steps that leave the requests alone.                                    *)
(***************************************************************************)

LEMMA KeptWithEval ==
  ASSUME WeekAssumption, SchedulesInv, RowsMove, UNCHANGED <<web, held, begun, eval>>, now' \in Nat
  PROVE  SchedulesInv'
<1>1. (OnceEach /\ OneWriter /\ Apart /\ CheckedFits)'
  BY KeptByMoves
<1>2. Types'
  BY DEF SchedulesInv, Types, RowsMove
<1>3. Claimed'
  <2>1. \A s \in Schedule : row'[s].active => row'[s].live
    BY DEF SchedulesInv, Claimed, RowsMove
  <2>2. eval'.phase \in {"checked", "claimed"} => eval'.at \in Occurrence
    BY DEF SchedulesInv, Claimed
  <2>3. ASSUME eval.phase = "claimed"
        PROVE  /\ row'[eval.at[1]].live /\ eval.at[2] < row'[eval.at[1]].start
               /\ eval.at[2] \in Instant => begun[eval.at[1]][eval.at[2]] = 0
    <3>1. /\ eval.at \in Occurrence /\ row[eval.at[1]].live /\ eval.at[2] < row[eval.at[1]].start
          /\ eval.at[2] \in Instant => begun[eval.at[1]][eval.at[2]] = 0
      BY <2>3 DEF SchedulesInv, Claimed
    <3>2. eval.at[1] \in Schedule /\ eval.at[2] \in Nat
      BY <3>1 DEF Occurrence
    <3>3. /\ row'[eval.at[1]].live /\ row'[eval.at[1]].start \in Nat
          /\ row'[eval.at[1]].start >= row[eval.at[1]].start
      BY <3>1, <3>2 DEF RowsMove, Rows
    <3>4. row[eval.at[1]].start \in Nat
      BY <3>2, Known DEF SchedulesInv
    <3>5. QED
      BY <3>1, <3>2, <3>3, <3>4
  <2>4. QED
    BY <2>1, <2>2, <2>3 DEF Claimed
<1>4. QED
  BY <1>1, <1>2, <1>3 DEF SchedulesInv

LEMMA KeptAtRest ==
  ASSUME WeekAssumption, SchedulesInv, RowsMove, UNCHANGED <<now, web, held, begun>>,
         eval' \in Evaluations, eval'.phase \in {"idle", "rows"}
  PROVE  SchedulesInv'
<1>1. (OnceEach /\ OneWriter /\ Apart /\ CheckedFits)'
  BY KeptByMoves
<1>2. Types'
  BY DEF SchedulesInv, Types, RowsMove
<1>3. Claimed'
  BY DEF SchedulesInv, Claimed, RowsMove
<1>4. QED
  BY <1>1, <1>2, <1>3 DEF SchedulesInv

LEMMA NextRowRests ==
  ASSUME NEW due \in SUBSET Occurrence, NextRow(due)
  PROVE  eval' \in Evaluations /\ eval'.phase \in {"idle", "rows"}
<1>1. eval' = [phase |-> IF due = {} THEN "idle" ELSE "rows", due |-> due, at |-> None]
  BY DEF NextRow, NoEval
<1>2. QED
  BY <1>1 DEF Evaluations

LEMMA CancelKeeps ==
  ASSUME WeekAssumption, SchedulesInv, NEW s \in Schedule, CancelRow(s)
  PROVE  SchedulesInv'
<1>1. RowsMove
  BY CancelMoves DEF SchedulesInv
<1>2. QED
  BY <1>1, KeptWithEval DEF CancelRow, SchedulesInv, Types

LEMMA EvaluateKeeps ==
  ASSUME WeekAssumption, SchedulesInv, EvaluateSchedules
  PROVE  SchedulesInv'
<1> DEFINE due == {<<s, row'[s].start>> : s \in {t \in Active : row'[t].start <= now}}
<1>1. RowsMove
  BY CatchUpMoves DEF SchedulesInv, EvaluateSchedules
<1>2. \A s \in Schedule : row'[s].start \in Nat
  BY <1>1 DEF RowsMove, Rows
<1>3. due \in SUBSET Occurrence
  BY <1>2 DEF Active, Occurrence
<1>4. NextRow(due)
  BY DEF EvaluateSchedules
<1> HIDE DEF due
<1>5. eval' \in Evaluations /\ eval'.phase \in {"idle", "rows"}
  BY <1>3, <1>4, NextRowRests
<1>6. QED
  BY <1>1, <1>5, KeptAtRest DEF EvaluateSchedules

LEMMA SkipKeeps ==
  ASSUME WeekAssumption, SchedulesInv, NEW d, SkipRow(d)
  PROVE  SchedulesInv'
<1>1. RowsMove
  BY RowsStay DEF SchedulesInv, SkipRow
<1>2. eval.due \ {d} \in SUBSET Occurrence
  BY DEF SchedulesInv, Types, Evaluations
<1>3. eval' \in Evaluations /\ eval'.phase \in {"idle", "rows"}
  BY <1>2, NextRowRests DEF SkipRow
<1>4. QED
  BY <1>1, <1>3, KeptAtRest DEF SkipRow, Rest

LEMMA CheckKeeps ==
  ASSUME WeekAssumption, SchedulesInv, NEW d \in eval.due, CheckRow(d)
  PROVE  SchedulesInv'
<1>1. RowsMove
  BY RowsStay DEF SchedulesInv, CheckRow
<1>2. (OnceEach /\ OneWriter /\ Apart /\ CheckedFits)'
  BY <1>1, KeptByMoves DEF CheckRow, Rest
<1>3. d \in Occurrence /\ eval \in Evaluations
  BY DEF SchedulesInv, Types, Evaluations
<1>4. eval' \in Evaluations /\ eval'.phase = "checked" /\ eval'.at = d
  BY <1>3 DEF CheckRow, Evaluations
<1>5. Types'
  BY <1>1, <1>4 DEF SchedulesInv, Types, RowsMove, CheckRow, Rest
<1>6. Claimed'
  BY <1>1, <1>3, <1>4 DEF SchedulesInv, Claimed, RowsMove
<1>7. QED
  BY <1>2, <1>5, <1>6 DEF SchedulesInv

LEMMA ClaimKeeps ==
  ASSUME WeekAssumption, SchedulesInv, ClaimRow
  PROVE  SchedulesInv'
<1> DEFINE s == eval.at[1]
<1>0. Types /\ eval.at \in Occurrence /\ s \in Schedule /\ eval.at[2] \in Nat /\ eval \in Evaluations
  BY DEF SchedulesInv, Claimed, ClaimRow, Occurrence, Types
<1>1. CASE row[s].active /\ row[s].start = eval.at[2]
  <2>1. row' = [row EXCEPT ![s].start = @ + Week] /\ eval' = [eval EXCEPT !.phase = "claimed"]
    BY <1>1 DEF ClaimRow
  <2>2. RowsMove /\ row'[s].start = row[s].start + Week
    BY <1>0, <1>1, <2>1, ClaimMoves
  <2>3. (OnceEach /\ OneWriter /\ Apart /\ CheckedFits)'
    BY <2>2, KeptByMoves DEF ClaimRow, Rest
  <2>4. eval' \in Evaluations /\ eval'.phase = "claimed" /\ eval'.at = eval.at
    BY <1>0, <2>1 DEF Evaluations
  <2>5. Types'
    BY <2>2, <2>4 DEF SchedulesInv, Types, RowsMove, ClaimRow, Rest
  <2>6. row'[s].live /\ \A t \in Schedule : row'[t].active => row'[t].live
    BY <1>0, <1>1, <2>2 DEF SchedulesInv, Claimed, RowsMove
  <2>7. eval.at[2] < row'[s].start
    BY <1>0, <1>1, <2>2, Weeks
  <2>8. eval.at[2] \in Instant => begun'[s][eval.at[2]] = 0
    <3>1. SUFFICES ASSUME eval.at[2] \in Instant  PROVE begun[s][eval.at[2]] = 0
      BY DEF ClaimRow, Rest
    <3>2. begun[s][eval.at[2]] \in Nat
      BY <1>0, <3>1 DEF Types
    <3>3. ~(eval.at[2] < row[s].start)
      BY <1>0, <1>1
    <3>4. begun[s][eval.at[2]] > 0 => eval.at[2] < row[s].start
      BY <1>0, <3>1 DEF SchedulesInv, OnceEach
    <3>5. QED
      BY <3>2, <3>3, <3>4
  <2>9. Claimed'
    BY <1>0, <2>4, <2>6, <2>7, <2>8 DEF Claimed
  <2>10. QED
    BY <2>3, <2>5, <2>9 DEF SchedulesInv
<1>2. CASE ~(row[s].active /\ row[s].start = eval.at[2])
  <2>1. row' = row /\ NextRow(eval.due \ {eval.at})
    BY <1>2 DEF ClaimRow
  <2>2. RowsMove
    BY <1>0, <2>1, RowsStay
  <2>3. eval.due \ {eval.at} \in SUBSET Occurrence
    BY <1>0 DEF Evaluations
  <2>4. eval' \in Evaluations /\ eval'.phase \in {"idle", "rows"}
    BY <2>1, <2>3, NextRowRests
  <2>5. QED
    BY <2>2, <2>4, KeptAtRest DEF ClaimRow, Rest
<1>3. QED
  BY <1>1, <1>2

LEMMA StartKeeps ==
  ASSUME WeekAssumption, SchedulesInv, StartClaimed
  PROVE  SchedulesInv'
<1> DEFINE s == eval.at[1]
           o == eval.at[2]
<1>0. /\ Types /\ eval.at \in Occurrence /\ s \in Schedule /\ o \in Nat /\ eval \in Evaluations
      /\ row[s].live /\ o < row[s].start /\ (o \in Instant => begun[s][o] = 0)
      /\ row' = row
  BY DEF SchedulesInv, Claimed, StartClaimed, Occurrence, Types
<1>1. RowsMove
  BY <1>0, RowsStay
<1>2. eval.due \ {eval.at} \in SUBSET Occurrence
  BY <1>0 DEF Evaluations
<1>3. eval' \in Evaluations /\ eval'.phase \in {"idle", "rows"}
  BY <1>2, NextRowRests DEF StartClaimed
<1>4. CASE begun' = begun
  BY <1>1, <1>3, <1>4, KeptAtRest DEF StartClaimed, Rest
<1>5. CASE begun' = [begun EXCEPT ![s][o] = @ + 1]
  <2>1. ASSUME NEW t \in Schedule, NEW i \in Instant
        PROVE  /\ begun'[t][i] \in Nat /\ begun'[t][i] <= 1
               /\ begun'[t][i] > 0 => row[t].live /\ i < row[t].start
    <3>1. /\ begun[t][i] \in Nat /\ begun[t][i] <= 1
          /\ begun[t][i] > 0 => row[t].live /\ i < row[t].start
      BY <1>0 DEF Types, SchedulesInv, OnceEach
    <3>2. begun'[t][i] = IF t = s /\ i = o THEN begun[t][i] + 1 ELSE begun[t][i]
      BY <1>0, <1>5 DEF Types
    <3>3. QED
      BY <1>0, <3>1, <3>2
  <2>2. begun' \in [Schedule -> [Instant -> Nat]]
    BY <1>0, <1>5, <2>1 DEF Types
  <2>3. OnceEach'
    BY <1>0, <2>1 DEF OnceEach
  <2>4. Types'
    BY <1>0, <1>3, <2>2 DEF Types, StartClaimed, Rest
  <2>5. Claimed'
    BY <1>0, <1>3 DEF SchedulesInv, Claimed
  <2>6. (OneWriter /\ Apart /\ CheckedFits)'
    BY <1>0 DEF SchedulesInv, OneWriter, Locked, Apart, CheckedFits, StartClaimed, Rest
  <2>7. QED
    BY <2>3, <2>4, <2>5, <2>6 DEF SchedulesInv
<1>6. QED
  BY <1>4, <1>5 DEF StartClaimed

LEMMA SmallStepsKeep ==
  ASSUME WeekAssumption, SchedulesInv,
         \/ \E d \in enders : WindowEnds(d)
         \/ StartByHand \/ EndByHand \/ PeopleMove \/ Tick
  PROVE  SchedulesInv'
<1>1. row' = row /\ UNCHANGED <<web, held, begun, eval>>
  BY DEF WindowEnds, StartByHand, EndByHand, PeopleMove, Tick, Rest
<1>2. now' \in Nat
  BY DEF WindowEnds, StartByHand, EndByHand, PeopleMove, Tick, Rest, SchedulesInv, Types
<1>3. RowsMove
  BY <1>1, RowsStay DEF SchedulesInv
<1>4. QED
  BY <1>1, <1>2, <1>3, KeptWithEval

(***************************************************************************)
(* The requests.                                                           *)
(***************************************************************************)

LEMMA PhaseMoves ==
  ASSUME Types, NEW r \in Request,
         NEW p \in {"none", "locked", "checked", "done", "answered", "dropped"},
         web' = [web EXCEPT ![r].phase = p]
  PROVE  /\ web' \in [Request -> Requests]
         /\ web'[r].phase = p /\ web'[r].start = web[r].start /\ web'[r].dur = web[r].dur
         /\ \A q \in Request : q # r => web'[q] = web[q]
<1>1. web' = [web EXCEPT ![r] = [web[r] EXCEPT !.phase = p]] /\ web \in [Request -> Requests]
  BY DEF Types
<1>2. web' \in [Request -> Requests] /\ web'[r] = [web[r] EXCEPT !.phase = p]
  BY <1>1 DEF Requests
<1>3. web'[r].phase = p /\ web'[r].start = web[r].start /\ web'[r].dur = web[r].dur
  BY <1>1, <1>2 DEF Requests
<1>4. QED
  BY <1>1, <1>2, <1>3

(* A step of the requests that leaves the schedules alone. *)
LEMMA KeptByRequests ==
  ASSUME SchedulesInv, UNCHANGED <<now, row, eval, begun>>,
         web' \in [Request -> Requests], held' \in Nat, OneWriter', CheckedFits'
  PROVE  SchedulesInv'
<1>1. Types'
  BY DEF SchedulesInv, Types
<1>2. (OnceEach /\ Claimed /\ Apart)'
  BY DEF SchedulesInv, OnceEach, Claimed, Apart
<1>3. QED
  BY <1>1, <1>2 DEF SchedulesInv

LEMMA OverlapsIs ==
  ASSUME NEW start \in Nat, NEW dur \in Nat, ~Overlaps(start, dur)
  PROVE  \A s \in Schedule : row[s].active => ~Touch(start, dur, row[s].start, row[s].dur)
BY DEF Overlaps, Meets, Active, Touch

LEMMA WebLockKeeps ==
  ASSUME WeekAssumption, SchedulesInv, NEW r \in Request, NEW start \in Nat, NEW dur \in Nat,
         WebLock(r, start, dur)
  PROVE  SchedulesInv'
<1>1. Types /\ held \in Nat
  BY DEF SchedulesInv, Types
<1>2. web' \in [Request -> Requests]
  BY <1>1 DEF WebLock, Types, Requests
<1>3. web'[r].phase = "locked" /\ \A q \in Request : q # r => web'[q] = web[q]
  BY <1>1 DEF WebLock, Types
<1>4. held' \in Nat /\ held' > 0
  BY <1>1 DEF WebLock
<1>5. \A q \in Request : q # r => web'[q].phase \notin {"locked", "checked", "done"}
  BY <1>3 DEF WebLock, Locked
<1>6. OneWriter'
  BY <1>4, <1>5 DEF OneWriter, Locked
<1>7. CheckedFits'
  BY <1>3, <1>5 DEF CheckedFits
<1>8. QED
  BY <1>2, <1>4, <1>6, <1>7, KeptByRequests DEF WebLock

(* Whoever has the lock has it alone. *)
LEMMA Alone ==
  ASSUME SchedulesInv, NEW r \in Request, Locked(r)
  PROVE  held > 0 /\ \A q \in Request : q # r => ~Locked(q)
BY DEF SchedulesInv, OneWriter

LEMMA WebCheckKeeps ==
  ASSUME WeekAssumption, SchedulesInv, NEW r \in Request, WebCheck(r)
  PROVE  SchedulesInv'
<1> DEFINE p == IF Overlaps(web[r].start, web[r].dur) THEN "done" ELSE "checked"
<1>1. Types /\ held \in Nat /\ held' = held /\ row' = row
  BY DEF SchedulesInv, Types, WebCheck
<1>2. p \in {"none", "locked", "checked", "done", "answered", "dropped"} /\ web' = [web EXCEPT ![r].phase = p]
  BY DEF WebCheck
<1>3. p = "checked" => ~Overlaps(web[r].start, web[r].dur)
  OBVIOUS
<1> HIDE DEF p
<1>4. /\ web' \in [Request -> Requests]
      /\ web'[r].phase = p /\ web'[r].start = web[r].start /\ web'[r].dur = web[r].dur
      /\ \A q \in Request : q # r => web'[q] = web[q]
  BY <1>1, <1>2, PhaseMoves
<1>5. held > 0 /\ \A q \in Request : q # r => ~Locked(q)
  BY Alone DEF WebCheck, Locked
<1>6. OneWriter'
  BY <1>1, <1>4, <1>5 DEF OneWriter, Locked
<1>7. CheckedFits'
  <2>1. ASSUME NEW q \in Request, NEW s \in Schedule, web'[q].phase = "checked", row[s].active
        PROVE  ~Touch(web'[q].start, web'[q].dur, row[s].start, row[s].dur)
    <3>1. q = r
      BY <1>4, <1>5, <2>1 DEF Locked
    <3>2. web[r].start \in Nat /\ web[r].dur \in Nat
      BY <1>1, Known
    <3>3. ~Overlaps(web[r].start, web[r].dur)
      BY <1>3, <1>4, <2>1, <3>1
    <3>4. QED
      BY <1>4, <2>1, <3>1, <3>2, <3>3, OverlapsIs
  <2>2. QED
    BY <1>1, <2>1 DEF CheckedFits
<1>8. QED
  BY <1>1, <1>4, <1>6, <1>7, KeptByRequests DEF WebCheck

(* A request that ends lets nobody else in. *)
LEMMA WebEndKeeps ==
  ASSUME WeekAssumption, SchedulesInv, NEW r \in Request, WebFails(r) \/ WebUnlock(r) \/ WebDropped(r)
  PROVE  SchedulesInv'
<1>1. Types /\ held \in Nat /\ UNCHANGED <<now, row, eval, begun>>
  BY DEF SchedulesInv, Types, WebFails, WebUnlock, WebDropped
<1>2. PICK p \in {"done", "answered", "dropped"} :
        web' = [web EXCEPT ![r].phase = p] /\ (p = "done" => held' = held)
  BY DEF WebFails, WebUnlock, WebDropped
<1>3. /\ web' \in [Request -> Requests]
      /\ web'[r].phase = p
      /\ \A q \in Request : q # r => web'[q] = web[q]
  BY <1>1, <1>2, PhaseMoves
<1>4. held > 0 /\ \A q \in Request : q # r => ~Locked(q)
  <2>1. Locked(r)
    BY DEF WebFails, WebUnlock, WebDropped, Locked
  <2>2. QED
    BY <2>1, Alone
<1>5. held' \in Nat
  BY <1>1, <1>4 DEF WebFails, WebUnlock, WebDropped
<1>6. OneWriter'
  BY <1>2, <1>3, <1>4 DEF OneWriter, Locked
<1>7. CheckedFits'
  BY <1>2, <1>3, <1>4 DEF CheckedFits, Locked
<1>8. QED
  BY <1>1, <1>3, <1>5, <1>6, <1>7, KeptByRequests

LEMMA RestartKeeps ==
  ASSUME WeekAssumption, SchedulesInv, Restart
  PROVE  SchedulesInv'
<1>1. Types /\ UNCHANGED <<now, row, begun>> /\ held' = 0 /\ eval' = NoEval
  BY DEF SchedulesInv, Restart
<1>2. eval' \in Evaluations /\ eval'.phase = "idle"
  BY <1>1 DEF Evaluations, NoEval
<1>3. ASSUME NEW r \in Request
      PROVE  web'[r] \in Requests /\ web'[r].phase \in {"none", "dropped"}
  <2>1. web[r] \in Requests /\ web'[r] = IF web[r] = NoRequest THEN web[r] ELSE [web[r] EXCEPT !.phase = "dropped"]
    BY <1>1 DEF Types, Restart
  <2>2. QED
    BY <2>1 DEF Requests, NoRequest
<1>4. web' \in [Request -> Requests]
  BY <1>3 DEF Restart
<1>5. Types'
  BY <1>1, <1>2, <1>4 DEF Types
<1>6. OneWriter' /\ CheckedFits'
  BY <1>3 DEF OneWriter, CheckedFits, Locked
<1>7. (OnceEach /\ Apart)'
  BY <1>1 DEF SchedulesInv, OnceEach, Apart
<1>8. Claimed'
  BY <1>1, <1>2 DEF SchedulesInv, Claimed
<1>9. QED
  BY <1>5, <1>6, <1>7, <1>8 DEF SchedulesInv

(***************************************************************************)
(* A new schedule, by either way.                                          *)
(***************************************************************************)

LEMMA Inserted ==
  ASSUME WeekAssumption, SchedulesInv, NEW s \in Schedule, ~row[s].live,
         NEW start \in Nat, NEW dur \in Nat, InsertRow(s, start, dur),
         \A t \in Schedule : row[t].active => ~Touch(start, dur, row[t].start, row[t].dur),
         UNCHANGED <<eval, begun>>
  PROVE  row' \in [Schedule -> Rows] /\ OnceEach' /\ Claimed' /\ Apart'
<1> DEFINE new == [live |-> TRUE, active |-> TRUE, start |-> start, dur |-> dur]
<1>0. Types /\ row' = [row EXCEPT ![s] = new] /\ row \in [Schedule -> Rows]
  BY DEF SchedulesInv, Types, InsertRow
<1>1. new \in Rows /\ new.live /\ new.active /\ new.start = start /\ new.dur = dur
  BY DEF Rows
<1> HIDE DEF new
<1>2. row' \in [Schedule -> Rows] /\ row'[s] = new /\ \A t \in Schedule : t # s => row'[t] = row[t]
  BY <1>0, <1>1
<1>3. ~row[s].active
  BY DEF SchedulesInv, Claimed
<1>4. OnceEach'
  <2>1. ASSUME NEW t \in Schedule, NEW o \in Instant
        PROVE  begun[t][o] <= 1 /\ (begun[t][o] > 0 => row'[t].live /\ o < row'[t].start)
    <3>1. begun[t][o] <= 1 /\ (begun[t][o] > 0 => row[t].live /\ o < row[t].start)
      BY DEF SchedulesInv, OnceEach
    <3>2. QED
      BY <1>2, <3>1
  <2>2. QED
    BY <2>1 DEF OnceEach
<1>5. Claimed'
  <2>1. \A t \in Schedule : row'[t].active => row'[t].live
    BY <1>1, <1>2 DEF SchedulesInv, Claimed
  <2>2. eval.phase = "claimed" => eval.at[1] \in Schedule /\ eval.at[1] # s
    BY DEF SchedulesInv, Claimed, Occurrence
  <2>3. QED
    BY <1>2, <2>1, <2>2 DEF SchedulesInv, Claimed
<1>6. Apart'
  <2>1. ASSUME NEW t \in Schedule, NEW u \in Schedule, row'[t].active, row'[u].active, t # u
        PROVE  ~Touch(row'[t].start, row'[t].dur, row'[u].start, row'[u].dur)
    <3>1. CASE t = s
      BY <1>1, <1>2, <2>1, <3>1
    <3>2. CASE u = s
      <4>1. ~Touch(start, dur, row[t].start, row[t].dur) /\ row'[t] = row[t]
        BY <1>2, <2>1, <3>2
      <4>2. QED
        BY <1>1, <1>2, <3>2, <4>1 DEF Touch
    <3>3. CASE t # s /\ u # s
      BY <1>2, <2>1, <3>3 DEF SchedulesInv, Apart
    <3>4. QED
      BY <3>1, <3>2, <3>3
  <2>2. QED
    BY <2>1 DEF Apart
<1>7. QED
  BY <1>2, <1>4, <1>5, <1>6

LEMMA CreateKeeps ==
  ASSUME WeekAssumption, SchedulesInv, NEW s \in Schedule, NEW start \in Nat, NEW dur \in Nat,
         ScheduleCreate(s, start, dur)
  PROVE  SchedulesInv'
<1>1. UNCHANGED <<now, web, held, eval, begun>> /\ held = 0 /\ ~row[s].live /\ Types
  BY DEF ScheduleCreate, SchedulesInv
<1>2. CASE Overlaps(start, dur)
  <2>1. RowsMove
    BY <1>1, <1>2, RowsStay DEF ScheduleCreate
  <2>2. QED
    BY <1>1, <2>1, KeptWithEval DEF Types
<1>3. CASE ~Overlaps(start, dur)
  <2>1. InsertRow(s, start, dur)
    BY <1>3 DEF ScheduleCreate
  <2>2. row' \in [Schedule -> Rows] /\ OnceEach' /\ Claimed' /\ Apart'
    BY <1>1, <1>3, <2>1, OverlapsIs, Inserted
  <2>3. \A r \in Request : ~Locked(r)
    BY <1>1 DEF SchedulesInv, OneWriter
  <2>4. OneWriter' /\ CheckedFits'
    BY <1>1, <2>3 DEF OneWriter, CheckedFits, Locked
  <2>5. Types'
    BY <1>1, <2>2 DEF Types
  <2>6. QED
    BY <2>2, <2>4, <2>5 DEF SchedulesInv
<1>4. QED
  BY <1>2, <1>3

LEMMA WebInsertKeeps ==
  ASSUME WeekAssumption, SchedulesInv, NEW r \in Request, NEW s \in Schedule, WebInsert(r, s)
  PROVE  SchedulesInv'
<1>1. UNCHANGED <<now, held, eval, begun>> /\ ~row[s].live /\ Types /\ web[r].phase = "checked"
  BY DEF WebInsert, SchedulesInv
<1>2. web[r].start \in Nat /\ web[r].dur \in Nat
  BY <1>1, Known
<1>3. \A t \in Schedule : row[t].active => ~Touch(web[r].start, web[r].dur, row[t].start, row[t].dur)
  BY <1>1 DEF SchedulesInv, CheckedFits
<1>4. row' \in [Schedule -> Rows] /\ OnceEach' /\ Claimed' /\ Apart'
  BY <1>1, <1>2, <1>3, Inserted DEF WebInsert
<1>5. /\ web' \in [Request -> Requests]
      /\ web'[r].phase = "done"
      /\ \A q \in Request : q # r => web'[q] = web[q]
  BY <1>1, PhaseMoves DEF WebInsert
<1>6. held > 0 /\ \A q \in Request : q # r => ~Locked(q)
  BY <1>1, Alone DEF Locked
<1>7. OneWriter' /\ CheckedFits'
  BY <1>1, <1>5, <1>6 DEF OneWriter, CheckedFits, Locked
<1>8. Types'
  BY <1>1, <1>4, <1>5 DEF Types
<1>9. QED
  BY <1>4, <1>7, <1>8 DEF SchedulesInv

(***************************************************************************)
(* The theorems.                                                           *)
(***************************************************************************)

LEMMA InitSchedules ==
  ASSUME WeekAssumption, Init
  PROVE  SchedulesInv
<1>1. /\ \A s \in Schedule : row[s] = NoRow
      /\ \A r \in Request : web[r] = NoRequest
      /\ \A s \in Schedule, o \in Instant : begun[s][o] = 0
  BY DEF Init
<1>2. NoRow \in Rows /\ NoRequest \in Requests /\ NoEval \in Evaluations
  BY DEF NoRow, NoRequest, NoEval, Rows, Requests, Evaluations
<1>3. /\ NoRow.active = FALSE /\ NoRequest.phase = "none" /\ NoEval.phase = "idle"
  BY DEF NoRow, NoRequest, NoEval
<1>4. Types
  BY <1>2 DEF Init, Types
<1>5. OnceEach
  BY <1>1 DEF OnceEach
<1>6. Claimed /\ Apart
  BY <1>1, <1>3 DEF Init, Claimed, Apart
<1>7. OneWriter /\ CheckedFits
  BY <1>1, <1>3 DEF OneWriter, CheckedFits, Locked
<1>8. QED
  BY <1>4, <1>5, <1>6, <1>7 DEF SchedulesInv

LEMMA StepSchedules ==
  ASSUME WeekAssumption, SchedulesInv, [Next]_vars
  PROVE  SchedulesInv'
<1>0. /\ Durations \subseteq Nat /\ \A start \in now .. (now + Week) : start \in Nat
  BY Weeks DEF SchedulesInv, Types
<1>1. CASE \E s \in Schedule, start \in now .. (now + Week), dur \in Durations : ScheduleCreate(s, start, dur)
  BY <1>0, <1>1, CreateKeeps
<1>2. CASE \E r \in Request, start \in now .. (now + Week), dur \in Durations : WebLock(r, start, dur)
  BY <1>0, <1>2, WebLockKeeps
<1>3. CASE \E r \in Request : \/ WebCheck(r) \/ WebFails(r) \/ WebUnlock(r) \/ WebDropped(r)
                              \/ \E s \in Schedule : WebInsert(r, s)
  BY <1>3, WebCheckKeeps, WebEndKeeps, WebInsertKeeps
<1>4. CASE \E s \in Schedule : ScheduleCancel(s) \/ WebCancel(s)
  BY <1>4, CancelKeeps DEF ScheduleCancel, WebCancel
<1>5. CASE EvaluateSchedules
  BY <1>5, EvaluateKeeps
<1>6. CASE \E d \in eval.due : SkipRow(d) \/ CheckRow(d)
  BY <1>6, SkipKeeps, CheckKeeps
<1>7. CASE ClaimRow \/ StartClaimed
  BY <1>7, ClaimKeeps, StartKeeps
<1>8. CASE (\E d \in enders : WindowEnds(d)) \/ StartByHand \/ EndByHand \/ PeopleMove \/ Tick
  BY <1>8, SmallStepsKeep
<1>9. CASE Restart
  BY <1>9, RestartKeeps
<1>10. CASE UNCHANGED vars
  <2>1. RowsMove
    BY <1>10, RowsStay DEF SchedulesInv, vars
  <2>2. QED
    BY <1>10, <2>1, KeptWithEval DEF SchedulesInv, Types, vars
<1>11. QED
  BY <1>1, <1>2, <1>3, <1>4, <1>5, <1>6, <1>7, <1>8, <1>9, <1>10 DEF Next

(* The invariant of the schedules: an occurrence that was begun lies before  *)
(* the one its schedule waits for, the claimed one was not begun, the locks  *)
(* admit one writer, and its check holds until it inserts                    *)
(* (api_create_guild_schedule, evaluate_meeting_schedules).                  *)
THEOREM SchedulesInvariant ==
  ASSUME WeekAssumption
  PROVE  Spec => []SchedulesInv
<1>1. Init => SchedulesInv
  BY InitSchedules
<1>2. SchedulesInv /\ [Next]_vars => SchedulesInv'
  BY StepSchedules
<1>3. QED
  BY <1>1, <1>2, PTL DEF Spec

(* Recordings stopped early, and processes that stop between the claim and   *)
(* the start, never make the bot start an occurrence twice                   *)
(* (evaluate_meeting_schedules, which claims by moving the row on).          *)
THEOREM OccurrencesStartOnce ==
  ASSUME WeekAssumption
  PROVE  Spec => []OncePerOccurrence
<1>1. SchedulesInv => OncePerOccurrence
  BY DEF SchedulesInv, OnceEach, OncePerOccurrence
<1>2. QED
  BY <1>1, SchedulesInvariant, PTL

(* However schedules are created, canceled and moved on, and whichever       *)
(* client goes away with the lock held, no two active ones of a guild share  *)
(* an instant of the week (handle_schedule_create and                        *)
(* api_create_guild_schedule, each with its lock).                           *)
THEOREM SchedulesNeverOverlap ==
  ASSUME WeekAssumption
  PROVE  Spec => []NoOverlap
<1>1. ASSUME SchedulesInv, NEW s \in Active, NEW t \in Active, s # t, NEW x \in 0 .. (Week - 1),
             (x - row[s].start) % Week < row[s].dur, (x - row[t].start) % Week < row[t].dur
      PROVE  FALSE
  <2>1. s \in Schedule /\ t \in Schedule /\ row[s].active /\ row[t].active
    BY DEF Active
  <2>2. /\ row[s].start \in Int /\ row[t].start \in Int /\ row[s].dur \in Nat /\ row[t].dur \in Nat
        /\ Week \in Nat \ {0} /\ x \in Int
    BY <1>1, <2>1, Known, Weeks DEF SchedulesInv
  <2>3. Touch(row[s].start, row[s].dur, row[t].start, row[t].dur)
    BY <1>1, <2>2, SharedInstant DEF Touch
  <2>4. QED
    BY <1>1, <2>1, <2>3 DEF SchedulesInv, Apart
<1>2. SchedulesInv => NoOverlap
  BY <1>1 DEF NoOverlap
<1>3. QED
  BY <1>2, SchedulesInvariant, PTL

(* Creation takes a row that was never used; everything else moves rows. *)
LEMMA CreatedOrMoved ==
  ASSUME WeekAssumption, SchedulesInv, [Next]_vars
  PROVE  \/ row' = row
         \/ \E s \in Schedule : ~row[s].live /\ \A t \in Schedule : t # s => row'[t] = row[t]
         \/ \E s \in Schedule : CancelRow(s)
         \/ EvaluateSchedules
         \/ ClaimRow
<1>0. row \in [Schedule -> Rows]
  BY DEF SchedulesInv, Types
<1>1. CASE \E s \in Schedule, start \in now .. (now + Week), dur \in Durations : ScheduleCreate(s, start, dur)
  BY <1>0, <1>1 DEF ScheduleCreate, InsertRow
<1>2. CASE \E r \in Request, s \in Schedule : WebInsert(r, s)
  BY <1>0, <1>2 DEF WebInsert, InsertRow
<1>3. CASE \/ \E r \in Request, start \in now .. (now + Week), dur \in Durations : WebLock(r, start, dur)
           \/ \E r \in Request : WebCheck(r) \/ WebFails(r) \/ WebUnlock(r) \/ WebDropped(r)
  BY <1>3 DEF WebLock, WebCheck, WebFails, WebUnlock, WebDropped
<1>4. CASE \E s \in Schedule : ScheduleCancel(s) \/ WebCancel(s)
  BY <1>4 DEF ScheduleCancel, WebCancel
<1>5. CASE \/ \E d \in eval.due : SkipRow(d) \/ CheckRow(d)
           \/ StartClaimed \/ (\E d \in enders : WindowEnds(d))
           \/ StartByHand \/ EndByHand \/ PeopleMove \/ Tick \/ Restart \/ UNCHANGED vars
  BY <1>5 DEF SkipRow, CheckRow, StartClaimed, WindowEnds, StartByHand, EndByHand, PeopleMove,
              Tick, Restart, vars
<1>6. QED
  BY <1>1, <1>2, <1>3, <1>4, <1>5 DEF Next

LEMMA StepSkipsNone ==
  ASSUME WeekAssumption, SchedulesInv, [Next]_vars
  PROVE  NoneSkippedStep
<1>0. Types /\ now \in Nat /\ row \in [Schedule -> Rows] /\ Week \in Nat \ {0}
  BY Weeks DEF SchedulesInv, Types
<1>1. SUFFICES ASSUME NEW s \in Schedule, row[s].active, row'[s].start # row[s].start
               PROVE  /\ (row'[s].start - row[s].start) % Week = 0
                      /\ row'[s].start - Week + row[s].dur <= now \/ eval.at = <<s, row[s].start>>
  BY DEF NoneSkippedStep
<1>2. row[s].live /\ row[s] \in Rows /\ row[s].start \in Nat
  BY <1>0, <1>1, Known DEF SchedulesInv, Claimed
<1>3. RowsMove => (row'[s].start - row[s].start) % Week = 0
  <2>1. SUFFICES ASSUME RowsMove  PROVE (row'[s].start - row[s].start) % Week = 0
    OBVIOUS
  <2>2. WeeksAhead(row'[s].start, row[s].start) /\ WeeksAhead(row[s].start, row[s].start) /\ row'[s].start \in Nat
    BY <1>2, <2>1, NotAhead DEF RowsMove, Rows
  <2>3. (row'[s].start - row[s].start) % Week = (row[s].start - row[s].start) % Week
    BY <1>2, <2>2, SameDistance
  <2>4. row[s].start - row[s].start = 0 /\ 0 % Week = 0
    BY <1>0, <1>2
  <2>5. QED
    BY <2>3, <2>4
<1>4. CASE row' = row \/ \E u \in Schedule : ~row[u].live /\ \A t \in Schedule : t # u => row'[t] = row[t]
  BY <1>1, <1>2, <1>4
<1>5. CASE \E u \in Schedule : CancelRow(u)
  <2>1. row'[s].start = row[s].start
    BY <1>0, <1>5 DEF CancelRow, Rows
  <2>2. QED
    BY <1>1, <2>1
<1>6. CASE EvaluateSchedules
  <2>1. RowsMove /\ row'[s] = CaughtUp(row[s])
    BY <1>0, <1>6, CatchUpMoves DEF EvaluateSchedules
  <2>2. CaughtUp(row[s]) # row[s]
    BY <1>1, <2>1
  <2>3. row'[s].start - Week + row[s].dur <= now
    BY <1>0, <1>2, <2>1, <2>2, CatchesUp
  <2>4. QED
    BY <1>3, <2>1, <2>3
<1>7. CASE ClaimRow
  <2>1. eval.at \in Schedule \X Nat
    BY <1>7 DEF SchedulesInv, Claimed, ClaimRow, Occurrence
  <2>2. row[eval.at[1]].active /\ row[eval.at[1]].start = eval.at[2]
    BY <1>1, <1>7 DEF ClaimRow
  <2>3. row' = [row EXCEPT ![eval.at[1]].start = @ + Week]
    BY <1>7, <2>2 DEF ClaimRow
  <2>4. eval.at[1] = s
    BY <1>0, <1>1, <2>1, <2>3
  <2>5. eval.at = <<s, row[s].start>>
    BY <2>1, <2>2, <2>4
  <2>6. RowsMove
    BY <1>0, <1>1, <2>3, <2>4, ClaimMoves
  <2>7. QED
    BY <1>3, <2>5, <2>6
<1>8. QED
  BY <1>4, <1>5, <1>6, <1>7, CreatedOrMoved

(* A schedule leaves an occurrence behind when its window is over or when it *)
(* is claimed, and moves by whole weeks                                      *)
(* (the two updates of evaluate_meeting_schedules).                          *)
THEOREM NoOccurrenceSkipped ==
  ASSUME WeekAssumption
  PROVE  Spec => NoneSkipped
<1>1. SchedulesInv /\ [Next]_vars => [NoneSkippedStep]_vars
  BY StepSkipsNone
<1>2. QED
  BY <1>1, SchedulesInvariant, PTL DEF Spec, NoneSkipped

LEMMA StepRests ==
  ASSUME WeekAssumption, SchedulesInv, [Next]_vars
  PROVE  CanceledRestsStep
<1>0. Types /\ now \in Nat /\ row \in [Schedule -> Rows]
  BY DEF SchedulesInv, Types
<1>1. SUFFICES ASSUME NEW s \in Schedule, row[s].live, ~row[s].active  PROVE row'[s] = row[s]
  BY DEF CanceledRestsStep
<1>2. CASE row' = row \/ \E u \in Schedule : ~row[u].live /\ \A t \in Schedule : t # u => row'[t] = row[t]
  BY <1>1, <1>2
<1>3. CASE \E u \in Schedule : CancelRow(u)
  BY <1>0, <1>1, <1>3 DEF CancelRow
<1>4. CASE EvaluateSchedules
  BY <1>1, <1>4 DEF EvaluateSchedules, CaughtUp
<1>5. CASE ClaimRow
  BY <1>0, <1>1, <1>5 DEF ClaimRow
<1>6. QED
  BY <1>2, <1>3, <1>4, <1>5, CreatedOrMoved

(* A canceled schedule keeps its row: it is neither moved on nor claimed,    *)
(* even when it is canceled between the check and the claim                  *)
(* (api_cancel_guild_schedule, handle_schedule_cancel).                      *)
THEOREM CanceledNeverClaimed ==
  ASSUME WeekAssumption
  PROVE  Spec => CanceledRests
<1>1. SchedulesInv /\ [Next]_vars => [CanceledRestsStep]_vars
  BY StepRests
<1>2. QED
  BY <1>1, SchedulesInvariant, PTL DEF Spec, CanceledRests
=============================================================================
