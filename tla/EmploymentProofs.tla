--------------------------- MODULE EmploymentProofs --------------------------
(***************************************************************************)
(* Proofs about the two modules on a person's employment: Standing, for    *)
(* any suspensions, events and last day, and Hiring, for any number of     *)
(* requests handled at once.                                               *)
(***************************************************************************)
EXTENDS Standing, Hiring, WellFoundedInduction, TLAPS

LEMMA FlaggedTyped ==
    ASSUME NEW rows \in [Suspensions -> Rows]
    PROVE  Flagged(rows) \in [Suspensions -> Rows]
  <1>1. ASSUME NEW s \in Suspensions
        PROVE  [rows[s] EXCEPT !.flag = s \in Current(rows, today)] \in Rows
    <2> DEFINE raised == s \in Current(rows, today)
    <2>1. raised \in BOOLEAN
      OBVIOUS
    <2> HIDE DEF raised
    <2>2. [rows[s] EXCEPT !.flag = raised] \in Rows
      BY <2>1 DEF Rows
    <2> QED  BY <2>2 DEF raised
  <1> QED  BY <1>1 DEF Flagged

\* What Sync writes, whoever calls it.
LEMMA SyncTyped ==
    ASSUME NEW rows \in [Suspensions -> Rows],
           NEW st \in Statuses, NEW open \in BOOLEAN, Sync(rows, st, open)
    PROVE  /\ susp' \in [Suspensions -> Rows]
           /\ status' \in Statuses
           /\ login' \in BOOLEAN
  <1>1. status' \in Statuses /\ login' \in BOOLEAN
    BY DEF Sync, StatusFor, LoginFor, Statuses
  <1> QED  BY <1>1, FlaggedTyped DEF Sync

LEMMA CloseTyped ==
    ASSUME TypeOK, NEW s \in Suspensions
    PROVE  [susp EXCEPT ![s] = Close(@)] \in [Suspensions -> Rows]
  <1> DEFINE ended == IF susp[s].end > today THEN today ELSE susp[s].end
  <1>1. ended \in Days \cup {Never} /\ today \in Days \cup {Never}
    BY DEF TypeOK, Rows
  <1>2. susp[s] \in Rows
    BY DEF TypeOK
  <1>3. Close(susp[s]) = [susp[s] EXCEPT !.lifted = today, !.flag = FALSE,
                                         !.end = ended]
    BY DEF Close
  <1> HIDE DEF ended
  <1>4. [susp[s] EXCEPT !.lifted = today] \in Rows
    BY <1>1, <1>2 DEF Rows
  <1>5. [susp[s] EXCEPT !.lifted = today, !.flag = FALSE] \in Rows
    BY <1>4 DEF Rows
  <1>6. Close(susp[s]) \in Rows
    BY <1>1, <1>3, <1>5 DEF Rows
  <1> QED  BY <1>6 DEF TypeOK

LEMMA DepartTyped ==
    ASSUME TypeOK, NEW departing \in SUBSET Events, Depart(departing)
    PROVE  /\ status' \in Statuses
           /\ login' \in BOOLEAN
           /\ out' \in BOOLEAN
           /\ event' \in [Events -> EventRows]
  <1>1. status' \in Statuses /\ login' \in BOOLEAN /\ out' \in BOOLEAN
    BY DEF Depart, TypeOK, Statuses
  <1>2. ASSUME NEW e \in Events
        PROVE  [event[e] EXCEPT !.state = "applied"] \in EventRows
    BY DEF TypeOK, EventRows
  <1> QED  BY <1>1, <1>2 DEF Depart, TypeOK

\* Each variable of Standing keeps its type.
THEOREM TypeCorrect == Spec => []TypeOK
  <1>1. Init => TypeOK
    <2> SUFFICES ASSUME Init PROVE TypeOK  OBVIOUS
    <2>1. 1 \in Days /\ Never \in Days \cup {Never}
      BY StandingAssumption DEF Days
    <2>2. susp \in [Suspensions -> Rows]
      BY <2>1 DEF Init, Unfiled, Rows
    <2>3. event \in [Events -> EventRows]
      BY <2>1 DEF Init, NoEvent, EventRows
    <2> QED  BY <2>1, <2>2, <2>3 DEF Init, TypeOK, Statuses
  <1>2. TypeOK /\ [Next]_vars => TypeOK'
    <2> SUFFICES ASSUME TypeOK, [Next]_vars PROVE TypeOK'  OBVIOUS
    <2>1. ASSUME NEW s \in Suspensions, NEW starts \in Days,
                 NEW ends \in Days \cup {Never}, Suspend(s, starts, ends)
          PROVE  TypeOK'
      <3>1. [Unfiled EXCEPT !.start = starts, !.end = ends] \in Rows
        BY DEF Unfiled, Rows
      <3>2. [susp EXCEPT ![s] = [Unfiled EXCEPT !.start = starts,
                                                !.end = ends]] \in
                [Suspensions -> Rows]
        BY <3>1 DEF TypeOK
      <3>3. /\ susp' \in [Suspensions -> Rows]
            /\ status' \in Statuses
            /\ login' \in BOOLEAN
        BY <2>1, <3>2, SyncTyped DEF Suspend, TypeOK
      <3> QED  BY <2>1, <3>3 DEF Suspend, TypeOK
    <2>2. ASSUME NEW s \in Suspensions, NEW outcome \in Endings,
                 Lift(s, outcome)
          PROVE  TypeOK'
      <3> DEFINE rows == [susp EXCEPT ![s] = Close(@)]
                 st == IF outcome = "terminated" THEN "terminated" ELSE status
      <3>1. rows \in [Suspensions -> Rows] /\ st \in Statuses
        BY CloseTyped DEF TypeOK, Statuses
      <3>2. Sync(rows, st, login)
        BY <2>2 DEF Lift
      <3> HIDE DEF rows, st
      <3>3. /\ susp' \in [Suspensions -> Rows]
            /\ status' \in Statuses
            /\ login' \in BOOLEAN
        BY <3>1, <3>2, SyncTyped DEF TypeOK
      <3> QED  BY <2>2, <3>3 DEF Lift, TypeOK
    <2>3. ASSUME NEW e \in Events, NEW effective \in Days, Submit(e, effective)
          PROVE  TypeOK'
      BY <2>3 DEF Submit, TypeOK, EventRows
    <2>4. ASSUME NEW e \in Events, Approve(e)
          PROVE  TypeOK'
      <3>1. CASE event[e].effective <= today
        <4>1. Depart({e})
          BY <2>4, <3>1 DEF Approve
        <4> QED  BY <2>4, <4>1, DepartTyped DEF Approve, TypeOK
      <3>2. CASE ~(event[e].effective <= today)
        BY <2>4, <3>2 DEF Approve, TypeOK, EventRows
      <3> QED  BY <3>1, <3>2
    <2>5. ASSUME NEW e \in Events, NEW how \in {"rejected", "cancelled"},
                 Decline(e, how)
          PROVE  TypeOK'
      BY <2>5 DEF Decline, TypeOK, EventRows
    <2>6. CASE Rehire
      BY <2>6 DEF Rehire, TypeOK, Statuses
    <2>7. CASE OpenForm
      BY <2>7 DEF OpenForm, TypeOK
    <2>8. ASSUME NEW chosen \in Statuses, SaveForm(chosen)
          PROVE  TypeOK'
      BY <2>8 DEF SaveForm, TypeOK
    <2>9. CASE SweepRead
      BY <2>9 DEF SweepRead, TypeOK
    <2>10. CASE SweepSync
      <3>1. sweeping \in [status : Statuses, login : BOOLEAN]
        BY <2>10 DEF SweepSync, TypeOK
      <3>2. Flagged(susp) \in [Suspensions -> Rows]
        BY FlaggedTyped DEF TypeOK
      <3>3. status' \in Statuses /\ login' \in BOOLEAN
        BY <2>10, <3>1 DEF SweepSync, StatusFor, LoginFor, TypeOK, Statuses
      <3>4. amiss' \in BOOLEAN
        BY <2>10 DEF SweepSync, TypeOK
      <3> QED  BY <2>10, <3>2, <3>3, <3>4 DEF SweepSync, TypeOK
    <2>11. CASE ApplyDue
      <3>1. Depart({e \in Events : Due(e)})
        BY <2>11 DEF ApplyDue
      <3> QED  BY <2>11, <3>1, DepartTyped DEF ApplyDue, TypeOK
    <2>12. CASE Midnight
      BY <2>12, StandingAssumption DEF Midnight, TypeOK, Days
    <2>13. CASE UNCHANGED vars
      BY <2>13 DEF vars, TypeOK
    <2> QED  BY <2>1, <2>2, <2>3, <2>4, <2>5, <2>6, <2>7, <2>8, <2>9, <2>10,
                <2>11, <2>12, <2>13 DEF Next
  <1> QED  BY <1>1, <1>2, PTL DEF Spec

-----------------------------------------------------------------------------
(* Nothing due is left waiting once the night's task has run.              *)

\* DueIsApplied is inductive: a request that approves for a day that has come
\* applies it there and then, the task takes the rest, and only a midnight,
\* which begins another night, makes more of them due.
THEOREM DueIsAppliedCorrect == Spec => []DueIsApplied
  <1>1. Init => DueIsApplied
    BY DEF Init, DueIsApplied
  <1>2. TypeOK /\ DueIsApplied /\ [Next]_vars => DueIsApplied'
    <2> SUFFICES ASSUME TypeOK, DueIsApplied, [Next]_vars, night' = "over",
                        NEW e \in Events
                 PROVE  ~Due(e)'
      BY DEF DueIsApplied
    <2> USE DEF Due
    <2>1. ASSUME NEW s \in Suspensions, NEW starts \in Days,
                 NEW ends \in Days \cup {Never}, Suspend(s, starts, ends)
          PROVE  ~Due(e)'
      BY <2>1 DEF Suspend, DueIsApplied
    <2>2. ASSUME NEW s \in Suspensions, NEW outcome \in Endings,
                 Lift(s, outcome)
          PROVE  ~Due(e)'
      BY <2>2 DEF Lift, DueIsApplied
    <2>3. ASSUME NEW f \in Events, NEW effective \in Days, Submit(f, effective)
          PROVE  ~Due(e)'
      BY <2>3 DEF Submit, DueIsApplied, TypeOK
    <2>4. ASSUME NEW f \in Events, Approve(f)
          PROVE  ~Due(e)'
      <3>1. CASE f = e /\ event[f].effective <= today
        <4>1. event'[e].state = "applied"
          BY <2>4, <3>1 DEF Approve, Depart, TypeOK, EventRows
        <4> QED  BY <4>1
      <3>2. CASE f = e /\ ~(event[f].effective <= today)
        <4>1. event'[e].effective = event[e].effective /\ today' = today
          BY <2>4, <3>2 DEF Approve, TypeOK, EventRows
        <4> QED  BY <3>2, <4>1
      <3>3. CASE f # e
        <4>1. event'[e] = event[e] /\ today' = today /\ night' = night
          BY <2>4, <3>3 DEF Approve, Depart, TypeOK
        <4> QED  BY <4>1 DEF DueIsApplied
      <3> QED  BY <3>1, <3>2, <3>3
    <2>5. ASSUME NEW f \in Events, NEW how \in {"rejected", "cancelled"},
                 Decline(f, how)
          PROVE  ~Due(e)'
      BY <2>5 DEF Decline, DueIsApplied, TypeOK, EventRows
    <2>6. CASE Rehire
      BY <2>6 DEF Rehire, DueIsApplied
    <2>7. CASE OpenForm
      BY <2>7 DEF OpenForm, DueIsApplied
    <2>8. ASSUME NEW chosen \in Statuses, SaveForm(chosen)
          PROVE  ~Due(e)'
      BY <2>8 DEF SaveForm, DueIsApplied
    <2>9. CASE SweepRead
      BY <2>9 DEF SweepRead
    <2>10. CASE SweepSync
      BY <2>10 DEF SweepSync, DueIsApplied
    <2>11. CASE ApplyDue
      <3>1. CASE Due(e)
        <4>1. event'[e].state = "applied"
          BY <2>11, <3>1 DEF ApplyDue, Depart, TypeOK, EventRows
        <4> QED  BY <4>1
      <3>2. CASE ~Due(e)
        <4>1. event'[e] = event[e] /\ today' = today
          BY <2>11, <3>2 DEF ApplyDue, Depart, TypeOK
        <4> QED  BY <3>2, <4>1
      <3> QED  BY <3>1, <3>2
    <2>12. CASE Midnight
      BY <2>12 DEF Midnight
    <2>13. CASE UNCHANGED vars
      BY <2>13 DEF vars, DueIsApplied
    <2> QED  BY <2>1, <2>2, <2>3, <2>4, <2>5, <2>6, <2>7, <2>8, <2>9, <2>10,
                <2>11, <2>12, <2>13 DEF Next
  <1> QED  BY <1>1, <1>2, TypeCorrect, PTL DEF Spec

-----------------------------------------------------------------------------
(* Whoever left stays out.                                                 *)

\* What keeps a leaver out is two facts about the three records together:
\* their status is still that of a leaver, so that no Sync takes it for an
\* active one; and a flagged suspension means a closed login, so that the one
\* who is dismissed when it is lifted has none to keep.
Shown == \E s \in Suspensions : susp[s].flag

StaysOut ==
    ~amiss =>
        /\ out => ~login /\ status \in Left
        /\ Shown => ~login

\* A flag is raised only on a day that is covered, and then nobody signs in.
LEMMA SyncCloses ==
    ASSUME NEW rows \in [Suspensions -> Rows],
           NEW st \in Statuses, NEW open \in BOOLEAN, Sync(rows, st, open)
    PROVE  /\ Shown' => ~login'
           /\ st \in Left => status' = st
           /\ st \in Left /\ ~open => ~login'
  <1>1. ASSUME NEW s \in Suspensions, susp'[s].flag
        PROVE  ~login'
    <2>1. susp'[s].flag = (s \in Current(rows, today))
      BY DEF Sync, Flagged, Rows
    <2>2. InForce(rows, today) # {}
      BY <1>1, <2>1 DEF Current
    <2> QED  BY <2>2 DEF Sync, LoginFor
  <1>2. st \in Left => status' = st
    BY DEF Sync, StatusFor, Left
  <1>3. st \in Left /\ ~open => ~login'
    BY DEF Sync, StatusFor, LoginFor, Left
  <1> QED  BY <1>1, <1>2, <1>3 DEF Shown

LEMMA DepartCloses ==
    ASSUME StaysOut, NEW departing, Depart(departing),
           susp' = susp, amiss' = amiss
    PROVE  StaysOut'
  <1>1. CASE departing = {}
    BY <1>1 DEF Depart, StaysOut, Shown
  <1>2. CASE departing # {}
    BY <1>2 DEF Depart, StaysOut, Left
  <1> QED  BY <1>1, <1>2

\* LeaverStaysOut, with StaysOut for its inductive invariant.
THEOREM LeaverStaysOutCorrect == Spec => []LeaverStaysOut
  <1>1. Init => StaysOut
    BY DEF Init, StaysOut, Shown, Unfiled
  <1>2. TypeOK /\ StaysOut /\ [Next]_vars => StaysOut'
    <2> SUFFICES ASSUME TypeOK, StaysOut, [Next]_vars, ~amiss'
                 PROVE  StaysOut'
      BY DEF StaysOut
    <2>1. ASSUME NEW s \in Suspensions, NEW starts \in Days,
                 NEW ends \in Days \cup {Never}, Suspend(s, starts, ends)
          PROVE  StaysOut'
      <3> DEFINE rows == [susp EXCEPT ![s] = [Unfiled EXCEPT !.start = starts,
                                                             !.end = ends]]
      <3>1. rows \in [Suspensions -> Rows]
        BY DEF TypeOK, Unfiled, Rows
      <3>2. Sync(rows, status, login)
        BY <2>1 DEF Suspend
      <3>3. ~out'
        BY <2>1 DEF Suspend, StaysOut
      <3> HIDE DEF rows
      <3> QED  BY <3>1, <3>2, <3>3, SyncCloses DEF StaysOut, TypeOK
    <2>2. ASSUME NEW s \in Suspensions, NEW outcome \in Endings,
                 Lift(s, outcome)
          PROVE  StaysOut'
      <3> DEFINE rows == [susp EXCEPT ![s] = Close(@)]
                 st == IF outcome = "terminated" THEN "terminated" ELSE status
      <3>1. rows \in [Suspensions -> Rows] /\ st \in Statuses
        BY CloseTyped DEF TypeOK, Statuses
      <3>2. Sync(rows, st, login)
        BY <2>2 DEF Lift
      <3>3. susp[s].flag /\ ~amiss
        BY <2>2 DEF Lift
      <3>4. ~login
        BY <3>3 DEF StaysOut, Shown
      <3>5. out' => st \in Left
        BY <2>2, <3>3 DEF Lift, StaysOut, Left
      <3> HIDE DEF rows, st
      <3> QED  BY <3>1, <3>2, <3>4, <3>5, SyncCloses DEF StaysOut, TypeOK
    <2>3. ASSUME NEW e \in Events, NEW effective \in Days, Submit(e, effective)
          PROVE  StaysOut'
      BY <2>3 DEF Submit, StaysOut, Shown
    <2>4. ASSUME NEW e \in Events, Approve(e)
          PROVE  StaysOut'
      <3>1. CASE event[e].effective <= today
        BY <2>4, <3>1, DepartCloses DEF Approve
      <3>2. CASE ~(event[e].effective <= today)
        BY <2>4, <3>2 DEF Approve, StaysOut, Shown
      <3> QED  BY <3>1, <3>2
    <2>5. ASSUME NEW e \in Events, NEW how \in {"rejected", "cancelled"},
                 Decline(e, how)
          PROVE  StaysOut'
      BY <2>5 DEF Decline, StaysOut, Shown
    <2>6. CASE Rehire
      BY <2>6 DEF Rehire, StaysOut, Shown
    <2>7. CASE OpenForm
      BY <2>7 DEF OpenForm, StaysOut, Shown
    <2>8. ASSUME NEW chosen \in Statuses, SaveForm(chosen)
          PROVE  StaysOut'
      BY <2>8 DEF SaveForm, StaysOut, Shown
    <2>9. CASE SweepRead
      BY <2>9 DEF SweepRead, StaysOut, Shown
    <2>10. CASE SweepSync
      <3>1. sweeping = [status |-> status, login |-> login] /\ ~amiss
        BY <2>10 DEF SweepSync
      <3>2. Sync(susp, status, login)
        BY <2>10, <3>1 DEF SweepSync, Sync
      <3> QED  BY <2>10, <3>1, <3>2, SyncCloses DEF SweepSync, StaysOut, TypeOK
    <2>11. CASE ApplyDue
      BY <2>11, DepartCloses DEF ApplyDue
    <2>12. CASE Midnight
      BY <2>12 DEF Midnight, StaysOut, Shown
    <2>13. CASE UNCHANGED vars
      BY <2>13 DEF vars, StaysOut, Shown
    <2> QED  BY <2>1, <2>2, <2>3, <2>4, <2>5, <2>6, <2>7, <2>8, <2>9, <2>10,
                <2>11, <2>12, <2>13 DEF Next
  <1>3. StaysOut => LeaverStaysOut
    BY DEF StaysOut, LeaverStaysOut
  <1> QED  BY <1>1, <1>2, <1>3, TypeCorrect, PTL DEF Spec

-----------------------------------------------------------------------------
(* A closed account has a visible cause.                                   *)

\* A set of numbers has a least one.
LEMMA LeastNumber ==
    ASSUME NEW numbers \in SUBSET Nat, numbers # {}
    PROVE  \E n \in numbers : \A k \in numbers : n <= k
  <1> DEFINE less == {p \in Nat \X Nat : p[1] < p[2]}
  <1>1. IsWellFoundedOn(less, Nat)
    BY NatLessThanWellFounded DEF OpToRel
  <1>2. PICK n \in numbers : \A k \in numbers : <<k, n>> \notin less
    <2> HIDE DEF less
    <2> QED  BY <1>1, WFMin
  <1>3. ASSUME NEW k \in numbers
        PROVE  n <= k
    <2>1. ~(k < n)
      BY <1>2
    <2> QED  BY <2>1
  <1> QED  BY <1>3

\* On a day that a suspension covers there is one to flag: the latest start.
LEMMA SomebodyCurrent ==
    ASSUME NEW rows \in [Suspensions -> Rows], NEW day,
           InForce(rows, day) # {}
    PROVE  Current(rows, day) # {}
  <1> DEFINE left(s) == Never - rows[s].start
             lefts == {left(s) : s \in InForce(rows, day)}
  <1>1. ASSUME NEW s \in Suspensions
        PROVE  rows[s].start \in Nat /\ left(s) \in Nat
    <2>1. rows[s].start \in Days \cup {Never}
      BY DEF Rows
    <2> QED  BY <2>1, StandingAssumption DEF Days, Never
  <1>2. InForce(rows, day) \subseteq Suspensions
    BY DEF InForce
  <1>3. lefts \subseteq Nat /\ lefts # {}
    BY <1>1, <1>2
  <1>4. PICK n \in lefts : \A k \in lefts : n <= k
    <2> HIDE DEF lefts
    <2> QED  BY <1>3, LeastNumber
  <1>5. PICK s \in InForce(rows, day) : n = left(s)
    BY <1>4
  <1>6. ASSUME NEW t \in InForce(rows, day)
        PROVE  rows[t].start <= rows[s].start
    <2>1. left(s) <= left(t)
      BY <1>4, <1>5
    <2>2. s \in Suspensions /\ t \in Suspensions
      BY <1>2
    <2>3. rows[s].start \in Nat /\ rows[t].start \in Nat
      BY <1>1, <2>2
    <2>4. Never \in Nat
      BY StandingAssumption DEF Never
    <2> HIDE DEF lefts
    <2> QED  BY <2>1, <2>3, <2>4
  <1> QED  BY <1>2, <1>6 DEF Current

\* The status says suspended only with a flag beside it.
Explained == ~amiss => (status = "suspended" => Shown)

LEMMA SyncExplains ==
    ASSUME NEW rows \in [Suspensions -> Rows],
           NEW st \in Statuses, NEW open \in BOOLEAN, Sync(rows, st, open),
           status' = "suspended"
    PROVE  Shown'
  <1>1. InForce(rows, today) # {}
    BY DEF Sync, StatusFor
  <1>2. PICK s \in Suspensions : s \in Current(rows, today)
    BY <1>1, SomebodyCurrent DEF Current, InForce
  <1>3. susp'[s].flag
    BY <1>2 DEF Sync, Flagged, Rows
  <1> QED  BY <1>3 DEF Shown

\* VisibleCause, with Explained for its inductive invariant: Sync raises the
\* flag that it goes by, and a form that is up to date writes "suspended" only
\* over itself.
THEOREM VisibleCauseCorrect == Spec => []VisibleCause
  <1>1. Init => Explained
    BY DEF Init, Explained
  <1>2. TypeOK /\ Explained /\ [Next]_vars => Explained'
    <2> SUFFICES ASSUME TypeOK, Explained, [Next]_vars, ~amiss',
                        status' = "suspended"
                 PROVE  Shown'
      BY DEF Explained
    <2>1. ASSUME NEW s \in Suspensions, NEW starts \in Days,
                 NEW ends \in Days \cup {Never}, Suspend(s, starts, ends)
          PROVE  Shown'
      <3> DEFINE rows == [susp EXCEPT ![s] = [Unfiled EXCEPT !.start = starts,
                                                             !.end = ends]]
      <3>1. rows \in [Suspensions -> Rows]
        BY DEF TypeOK, Unfiled, Rows
      <3>2. Sync(rows, status, login)
        BY <2>1 DEF Suspend
      <3> HIDE DEF rows
      <3> QED  BY <3>1, <3>2, SyncExplains DEF TypeOK
    <2>2. ASSUME NEW s \in Suspensions, NEW outcome \in Endings,
                 Lift(s, outcome)
          PROVE  Shown'
      <3> DEFINE rows == [susp EXCEPT ![s] = Close(@)]
                 st == IF outcome = "terminated" THEN "terminated" ELSE status
      <3>1. rows \in [Suspensions -> Rows] /\ st \in Statuses
        BY CloseTyped DEF TypeOK, Statuses
      <3>2. Sync(rows, st, login)
        BY <2>2 DEF Lift
      <3> HIDE DEF rows, st
      <3> QED  BY <3>1, <3>2, SyncExplains DEF TypeOK
    <2>3. ASSUME NEW e \in Events, NEW effective \in Days, Submit(e, effective)
          PROVE  Shown'
      BY <2>3 DEF Submit, Explained, Shown
    <2>4. ASSUME NEW e \in Events, Approve(e)
          PROVE  Shown'
      BY <2>4 DEF Approve, Depart, Explained, Shown
    <2>5. ASSUME NEW e \in Events, NEW how \in {"rejected", "cancelled"},
                 Decline(e, how)
          PROVE  Shown'
      BY <2>5 DEF Decline, Explained, Shown
    <2>6. CASE Rehire
      BY <2>6 DEF Rehire
    <2>7. CASE OpenForm
      BY <2>7 DEF OpenForm, Explained, Shown
    <2>8. ASSUME NEW chosen \in Statuses, SaveForm(chosen)
          PROVE  Shown'
      <3>1. chosen = "suspended" /\ status = form /\ ~amiss
        BY <2>8 DEF SaveForm
      <3>2. status = "suspended"
        BY <2>8, <3>1 DEF SaveForm, ByHand
      <3> QED  BY <2>8, <3>1, <3>2 DEF SaveForm, Explained, Shown
    <2>9. CASE SweepRead
      BY <2>9 DEF SweepRead, Explained, Shown
    <2>10. CASE SweepSync
      <3>1. sweeping = [status |-> status, login |-> login] /\ ~amiss
        BY <2>10 DEF SweepSync
      <3>2. Sync(susp, status, login)
        BY <2>10, <3>1 DEF SweepSync, Sync
      <3> QED  BY <3>2, SyncExplains DEF TypeOK
    <2>11. CASE ApplyDue
      BY <2>11 DEF ApplyDue, Depart, Explained, Shown
    <2>12. CASE Midnight
      BY <2>12 DEF Midnight, Explained, Shown
    <2>13. CASE UNCHANGED vars
      BY <2>13 DEF vars, Explained, Shown
    <2> QED  BY <2>1, <2>2, <2>3, <2>4, <2>5, <2>6, <2>7, <2>8, <2>9, <2>10,
                <2>11, <2>12, <2>13 DEF Next
  <1>3. Explained => VisibleCause
    BY DEF Explained, VisibleCause, Shown
  <1> QED  BY <1>1, <1>2, <1>3, TypeCorrect, PTL DEF Spec

-----------------------------------------------------------------------------
(* Hiring: from the offer to the employee account.                         *)

\* What a request writes, from what it read.
LEMMA WriteTyped ==
    ASSUME HiringTypeOK, NEW r \in Readings, Write(r)
    PROVE  /\ offer' \in OfferStatus
           /\ stage' \in Stages
           /\ accounts' \in Nat
           /\ moved' \in BOOLEAN /\ crossed' \in BOOLEAN
  <1>1. offer' \in OfferStatus
    BY DEF Write, OfferAfter, AcceptedOffer, HiringTypeOK, OfferStatus,
           Open, Answered
  <1>2. stage' \in Stages
    BY DEF Write, StageAfter, HiringTypeOK, Readings, Stages, StagesByHand
  <1>3. accounts' \in Nat
    BY DEF Write, HiringTypeOK
  <1>4. moved' \in BOOLEAN /\ crossed' \in BOOLEAN
    BY DEF Write, Overtaken, HiringTypeOK
  <1> QED  BY <1>1, <1>2, <1>3, <1>4

LEMMA BeginTyped ==
    ASSUME HiringTypeOK, NEW q \in Requests, NEW kind \in Kinds,
           NEW to \in Stages, Begin(q, kind, to)
    PROVE  req' \in [Requests -> {Nothing} \cup Readings]
  <1> DEFINE r == [kind |-> kind, to |-> to, offer |-> offer,
                   lapsed |-> lapsed, stage |-> stage, made |-> accounts > 0]
  <1>1. r \in Readings
    <2> DEFINE made == accounts > 0
    <2>1. made \in BOOLEAN
      OBVIOUS
    <2> HIDE DEF made
    <2> QED  BY <2>1 DEF HiringTypeOK, Readings
  <1>2. req' = [req EXCEPT ![q] = r]
    BY DEF Begin
  <1> HIDE DEF r
  <1> QED  BY <1>1, <1>2 DEF HiringTypeOK

\* Each variable of Hiring keeps its type.
THEOREM HiringTypeCorrect == HiringSpec => []HiringTypeOK
  <1>1. HiringInit => HiringTypeOK
    <2> SUFFICES ASSUME HiringInit PROVE HiringTypeOK  OBVIOUS
    <2>1. "none" \in OfferStatus /\ "early" \in Stages
      BY DEF OfferStatus, Stages, StagesByHand
    <2>2. req \in [Requests -> {Nothing} \cup Readings]
      BY DEF HiringInit
    <2>3. moves \in 0 .. MaxMoves /\ accounts \in Nat
      BY HiringAssumption DEF HiringInit
    <2> QED  BY <2>1, <2>2, <2>3 DEF HiringInit, HiringTypeOK
  <1>2. HiringTypeOK /\ [HiringNext]_hiringVars => HiringTypeOK'
    <2> SUFFICES ASSUME HiringTypeOK, [HiringNext]_hiringVars
                 PROVE  HiringTypeOK'
      OBVIOUS
    <2>1. ASSUME NEW q \in Requests,
                 NEW kind \in {"draft", "send", "accept", "decline",
                               "convert"},
                 Press(q, kind)
          PROVE  HiringTypeOK'
      <3>1. kind \in Kinds /\ stage \in Stages
        BY DEF Kinds, HiringTypeOK
      <3>2. req' \in [Requests -> {Nothing} \cup Readings]
        BY <2>1, <3>1, BeginTyped DEF Press
      <3> QED  BY <2>1, <3>2 DEF Press, HiringTypeOK
    <2>2. ASSUME NEW q \in Requests, NEW to \in StagesByHand, Move(q, to)
          PROVE  HiringTypeOK'
      <3>1. to \in Stages /\ moves' \in 0 .. MaxMoves
        BY <2>2, HiringAssumption DEF Move, HiringTypeOK, Stages
      <3> QED  BY <2>2, <3>1, BeginTyped DEF Move, HiringTypeOK, Kinds
    <2>3. ASSUME NEW q \in Requests, Edit(q)
          PROVE  HiringTypeOK'
      <3>1. moves' \in 0 .. MaxMoves
        BY <2>3, HiringAssumption DEF Edit, HiringTypeOK
      <3> QED  BY <2>3, <3>1, BeginTyped DEF Edit, HiringTypeOK, Kinds
    <2>4. ASSUME NEW q \in Requests,
                 NEW kind \in {"reply accept", "reply decline"},
                 Reply(q, kind)
          PROVE  HiringTypeOK'
      BY <2>4, BeginTyped DEF Reply, HiringTypeOK, Kinds
    <2>5. ASSUME NEW q \in Requests, Finish(q)
          PROVE  HiringTypeOK'
      <3>1. req[q] \in Readings
        BY <2>5 DEF Finish, HiringTypeOK
      <3>2. /\ offer' \in OfferStatus
            /\ stage' \in Stages
            /\ accounts' \in Nat
            /\ moved' \in BOOLEAN /\ crossed' \in BOOLEAN
        BY <2>5, <3>1, WriteTyped DEF Finish
      <3>3. page' \in [shown : OfferStatus, can : BOOLEAN, busy : BOOLEAN]
        BY <2>5, <3>2 DEF Finish, HiringTypeOK
      <3>4. req' \in [Requests -> {Nothing} \cup Readings]
        BY <2>5 DEF Finish, HiringTypeOK
      <3> QED  BY <2>5, <3>2, <3>3, <3>4 DEF Finish, HiringTypeOK
    <2>6. ASSUME NEW q \in Requests, Lose(q)
          PROVE  HiringTypeOK'
      <3>1. req[q] \in Readings
        BY <2>6 DEF Lose, HiringTypeOK
      <3>2. /\ offer' \in OfferStatus
            /\ stage' \in Stages
            /\ accounts' \in Nat
            /\ moved' \in BOOLEAN /\ crossed' \in BOOLEAN
        BY <2>6, <3>1, WriteTyped DEF Lose
      <3>3. req' \in [Requests -> {Nothing} \cup Readings]
        BY <2>6 DEF Lose, HiringTypeOK
      <3> QED  BY <2>6, <3>2, <3>3 DEF Lose, HiringTypeOK
    <2>7. CASE Refresh
      BY <2>7 DEF Refresh, HiringTypeOK
    <2>8. CASE OpenPage
      BY <2>8 DEF OpenPage, Loaded, HiringTypeOK
    <2>9. CASE Lapse
      BY <2>9 DEF Lapse, HiringTypeOK
    <2>10. CASE UNCHANGED hiringVars
      BY <2>10 DEF hiringVars, HiringTypeOK
    <2> QED  BY <2>1, <2>2, <2>3, <2>4, <2>5, <2>6, <2>7, <2>8, <2>9, <2>10
             DEF HiringNext
  <1> QED  BY <1>1, <1>2, PTL DEF HiringSpec

-----------------------------------------------------------------------------
(* The offer, the stage and the account agree.                             *)

\* Where no two requests crossed and nobody set the stage by hand, the stage
\* says hired exactly for an accepted offer: that is what the account, which
\* is made of the stage alone, is worth.
Agree ==
    ~moved /\ ~crossed =>
        /\ offer = "accepted" <=> stage = "hired"
        /\ offer = "declined" => stage = "declined"
        /\ accounts > 0 => offer = "accepted"

LEMMA WriteAgrees ==
    ASSUME HiringTypeOK, Agree, NEW r \in Readings, Write(r)
    PROVE  Agree'
  <1> SUFFICES ASSUME ~moved', ~crossed'
               PROVE  /\ offer' = "accepted" <=> stage' = "hired"
                      /\ offer' = "declined" => stage' = "declined"
                      /\ accounts' > 0 => offer' = "accepted"
    BY DEF Agree
  <1>1. ~moved /\ ~crossed /\ ~Overtaken(r)
    BY DEF Write
  <1>2. /\ offer = "accepted" <=> stage = "hired"
        /\ offer = "declined" => stage = "declined"
        /\ accounts > 0 => offer = "accepted"
    BY <1>1 DEF Agree
  <1> DEFINE more == IF Converts(r) THEN 1 ELSE 0
  <1>a. accounts \in Nat /\ accounts' = accounts + more
    BY DEF Write, HiringTypeOK
  <1>b. r.kind # "convert" => accounts' = accounts
    <2>1. r.kind # "convert" => more = 0
      BY DEF Converts
    <2> HIDE DEF more
    <2> QED  BY <1>a, <2>1
  <1>3. CASE r.kind = "draft"
    <2>1. stage' = stage /\ offer' \in {offer, "draft"}
          /\ (offer # "none" => offer' = offer)
      BY <1>3 DEF Write, OfferAfter, StageAfter
    <2> QED  BY <1>2, <1>3, <1>b, <2>1
  <1>4. CASE r.kind = "send"
    <2>1. offer = r.offer
      BY <1>1, <1>4 DEF Overtaken
    <2>2. stage' = stage /\ (offer' = offer \/ r.offer \in Open)
          /\ offer' \in {offer, "sent"}
      BY <1>4 DEF Write, OfferAfter, StageAfter, CanSend
    <2> QED  BY <1>2, <1>4, <1>b, <2>1, <2>2 DEF Open
  <1>5. CASE r.kind \in {"accept", "reply accept"}
    <2>1. offer = r.offer
      BY <1>1, <1>5 DEF Overtaken
    <2>2. accounts' = accounts
      BY <1>5, <1>b
    <2>3. offer' = AcceptedOffer(r)
      BY <1>5 DEF Write, OfferAfter
    <2>4. stage' = IF r.offer \in Open /\ ~r.lapsed THEN "hired" ELSE stage
      BY <1>5 DEF Write, StageAfter
    <2> QED  BY <1>2, <2>1, <2>2, <2>3, <2>4 DEF AcceptedOffer, Open
  <1>6. CASE r.kind \in {"decline", "reply decline"}
    <2>1. offer = r.offer
      BY <1>1, <1>6 DEF Overtaken
    <2>2. accounts' = accounts
      BY <1>6, <1>b
    <2>3. offer' = IF CanDecline(r) THEN "declined" ELSE offer
      BY <1>6 DEF Write, OfferAfter
    <2>4. stage' = IF CanDecline(r) THEN "declined" ELSE stage
      BY <1>6 DEF Write, StageAfter
    <2> QED  BY <1>2, <2>1, <2>2, <2>3, <2>4 DEF CanDecline, Open
  <1>7. CASE r.kind = "move"
    <2>1. r.to # "hired" /\ offer \notin Answered
      BY <1>7 DEF Write
    <2> QED  BY <1>2, <1>7, <2>1
             DEF Write, OfferAfter, StageAfter, Converts, Answered,
                 HiringTypeOK
  <1>8. CASE r.kind = "edit"
    <2>1. stage = r.stage
      BY <1>1, <1>8 DEF Overtaken
    <2> QED  BY <1>2, <1>8, <2>1
             DEF Write, OfferAfter, StageAfter, Converts, HiringTypeOK
  <1>9. CASE r.kind = "convert"
    <2>1. stage = r.stage /\ offer = r.offer
      BY <1>1, <1>9 DEF Overtaken
    <2>2. offer' = offer /\ stage' = stage
      BY <1>9 DEF Write, OfferAfter, StageAfter
    <2>3. accounts' > 0 => accounts > 0 \/ r.stage = "hired"
      BY DEF Write, Converts, HiringTypeOK
    <2> QED  BY <1>2, <2>1, <2>2, <2>3
  <1> QED  BY <1>3, <1>4, <1>5, <1>6, <1>7, <1>8, <1>9 DEF Readings, Kinds

\* The steps that write no row leave what agrees alone.
THEOREM AgreeCorrect == HiringSpec => []Agree
  <1>1. HiringInit => Agree
    BY DEF HiringInit, Agree
  <1>2. HiringTypeOK /\ Agree /\ [HiringNext]_hiringVars => Agree'
    <2> SUFFICES ASSUME HiringTypeOK, Agree, [HiringNext]_hiringVars
                 PROVE  Agree'
      OBVIOUS
    <2>1. ASSUME NEW q \in Requests, Finish(q) \/ Lose(q)
          PROVE  Agree'
      <3>1. req[q] \in Readings /\ Write(req[q])
        BY <2>1 DEF Finish, Lose, HiringTypeOK
      <3> QED  BY <3>1, WriteAgrees
    <2>2. CASE UNCHANGED <<offer, stage, accounts, moved, crossed>>
      BY <2>2 DEF Agree
    <2> QED  BY <2>1, <2>2
             DEF HiringNext, hiringVars, Press, Move, Edit, Reply, Refresh,
                 OpenPage, Lapse
  <1> QED  BY <1>1, <1>2, HiringTypeCorrect, PTL DEF HiringSpec

\* StageFollowsAnswer, by Agree.
THEOREM StageFollowsAnswerCorrect == HiringSpec => []StageFollowsAnswer
  <1>1. Agree => StageFollowsAnswer
    BY DEF Agree, StageFollowsAnswer
  <1> QED  BY <1>1, AgreeCorrect, PTL

\* LoginMeansYes, by Agree.
THEOREM LoginMeansYesCorrect == HiringSpec => []LoginMeansYes
  <1>1. Agree => LoginMeansYes
    BY DEF Agree, LoginMeansYes
  <1> QED  BY <1>1, AgreeCorrect, PTL

-----------------------------------------------------------------------------
(* The candidate's page.                                                   *)

\* A request that read the answer leaves it.
LEMMA WriteLeavesAnswer ==
    ASSUME NEW r \in Readings, Write(r), ~crossed', offer \in Answered
    PROVE  offer' = offer
  <1>1. ~Overtaken(r)
    BY DEF Write
  <1>2. CASE r.kind \in {"draft", "move", "edit"}
    BY <1>2 DEF Write, OfferAfter, Answered
  <1>3. CASE r.kind \notin {"draft", "move", "edit"}
    <2>1. offer = r.offer /\ r.offer \notin Open
      BY <1>1, <1>3 DEF Overtaken, Open, Answered
    <2> QED  BY <1>3, <2>1
             DEF Write, OfferAfter, AcceptedOffer, CanSend,
                 CanDecline
  <1> QED  BY <1>2, <1>3

\* AnswerStands is inductive: a page shows an answer when it is loaded or when
\* its own reply was taken, and from then on no request may change it.
THEOREM AnswerStandsCorrect == HiringSpec => []AnswerStands
  <1>1. HiringInit => AnswerStands
    BY DEF HiringInit, AnswerStands, Answered
  <1>2. HiringTypeOK /\ AnswerStands /\ [HiringNext]_hiringVars
            => AnswerStands'
    <2> SUFFICES ASSUME HiringTypeOK, AnswerStands, [HiringNext]_hiringVars,
                        page'.shown \in Answered, ~crossed'
                 PROVE  page'.shown = offer'
      BY DEF AnswerStands
    <2>1. ASSUME NEW q \in Requests, Finish(q) \/ Lose(q)
          PROVE  page'.shown = offer'
      <3>1. req[q] \in Readings /\ Write(req[q])
        BY <2>1 DEF Finish, Lose, HiringTypeOK
      <3>2. ~crossed
        BY <3>1 DEF Write
      <3>3. page'.shown = page.shown \/ page'.shown = offer'
        BY <2>1 DEF Finish, Lose, HiringTypeOK
      <3>4. CASE page'.shown = page.shown
        <4>1. page.shown = offer /\ offer \in Answered
          BY <3>2, <3>4 DEF AnswerStands
        <4> QED  BY <3>1, <3>4, <4>1, WriteLeavesAnswer
      <3> QED  BY <3>3, <3>4
    <2>2. CASE OpenPage
      BY <2>2 DEF OpenPage, Loaded
    <2>3. ASSUME NEW q \in Requests,
                 NEW kind \in {"reply accept", "reply decline"},
                 Reply(q, kind)
          PROVE  page'.shown = offer'
      <3>1. page'.shown = page.shown /\ offer' = offer /\ crossed' = crossed
        BY <2>3 DEF Reply, HiringTypeOK
      <3> QED  BY <3>1 DEF AnswerStands
    <2>4. CASE UNCHANGED <<page, offer, crossed>>
      BY <2>4 DEF AnswerStands
    <2> QED  BY <2>1, <2>2, <2>3, <2>4
             DEF HiringNext, hiringVars, Press, Move, Edit, Refresh, Lapse
  <1> QED  BY <1>1, <1>2, HiringTypeCorrect, PTL DEF HiringSpec

=============================================================================
