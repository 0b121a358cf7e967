-------------------------- MODULE AttendanceProofs --------------------------
(***************************************************************************)
(* Proofs about Attendance, for any sessions, tabs, disputes and days.     *)
(***************************************************************************)
EXTENDS Attendance, WellFoundedInduction, TLAPS

-----------------------------------------------------------------------------
(* Hours and days.                                                         *)

\* An hour of a day lies between that day's first and the next day's.
LEMMA DayIs ==
    ASSUME NEW time \in Nat
    PROVE  /\ Day(time) \in Nat
           /\ Hours * Day(time) <= time /\ time < Hours * Day(time) + Hours
  <1>1. Hours \in Nat /\ Hours > 0
    BY AttendanceAssumption
  <1> QED  BY <1>1 DEF Day

LEMMA Scaled ==
    ASSUME NEW x \in Nat, NEW y \in Nat, x < y
    PROVE  Hours * x \in Nat /\ Hours * y \in Nat /\ Hours * x + Hours <= Hours * y
  <1>1. Hours \in Nat /\ Hours > 0
    BY AttendanceAssumption
  <1>2. PICK k \in Nat : y = x + 1 + k
    <2>1. y - x - 1 \in Nat /\ y = x + 1 + (y - x - 1)
      OBVIOUS
    <2> QED  BY <2>1
  <1>3. Hours * (x + 1 + k) = Hours * x + Hours + Hours * k
    BY <1>1
  <1>4. Hours * x \in Nat /\ Hours * k \in Nat
    BY <1>1
  <1> QED  BY <1>1, <1>2, <1>3, <1>4

LEMMA DayUnique ==
    ASSUME NEW time \in Nat, NEW d \in Nat, Hours * d <= time, time < Hours * d + Hours
    PROVE  Day(time) = d
  <1>1. Hours \in Nat /\ Hours > 0 /\ Hours * d \in Nat
    BY AttendanceAssumption
  <1>2. Day(time) \in Nat /\ Hours * Day(time) <= time /\ time < Hours * Day(time) + Hours
    BY DayIs
  <1> HIDE DEF Day
  <1>3. CASE Day(time) < d
    BY <1>1, <1>2, <1>3, Scaled
  <1>4. CASE d < Day(time)
    BY <1>1, <1>2, <1>4, Scaled
  <1> QED  BY <1>2, <1>3, <1>4

LEMMA DayOrder ==
    ASSUME NEW a \in Nat, NEW b \in Nat, a <= b
    PROVE  Day(a) <= Day(b)
  <1>1. Hours \in Nat /\ Hours > 0
    BY AttendanceAssumption
  <1>2. /\ Day(a) \in Nat /\ Hours * Day(a) <= a /\ a < Hours * Day(a) + Hours
        /\ Day(b) \in Nat /\ Hours * Day(b) <= b /\ b < Hours * Day(b) + Hours
    BY DayIs
  <1>3. CASE Day(b) < Day(a)
    <2>1. /\ Hours * Day(b) \in Nat /\ Hours * Day(a) \in Nat
          /\ Hours * Day(b) + Hours <= Hours * Day(a)
      BY <1>2, <1>3, Scaled
    <2> QED  BY <1>1, <1>2, <2>1
  <1> QED  BY <1>2, <1>3

\* Every hour is of a day there is, and so is its closing time.
LEMMA InDay ==
    /\ Never \in Nat /\ \A time \in Times : time \in Nat /\ time < Never /\ Day(time) \in Days
    /\ \A d \in Days : Closing(d) \in Times /\ Day(Closing(d)) = d
  <1>1. Hours \in Nat /\ Hours > 0 /\ LastDay \in Nat /\ OfficeEnd \in Nat /\ OfficeEnd < Hours
    BY AttendanceAssumption
  <1>2. Never \in Nat /\ \A time \in Times : time \in Nat /\ time < Never
    BY <1>1 DEF Never, Times
  <1>3. ASSUME NEW time \in Times PROVE Day(time) \in Days
    <2>1. time \in Nat /\ time < Hours * (LastDay + 1)
      BY <1>2 DEF Never
    <2>2. Day(time) \in Nat /\ Hours * Day(time) <= time
      BY <2>1, DayIs
    <2>3. CASE LastDay + 1 < Day(time)
      BY <1>1, <2>1, <2>2, <2>3, Scaled
    <2>4. CASE LastDay + 1 = Day(time)
      BY <1>1, <2>1, <2>2, <2>4
    <2> QED  BY <1>1, <2>2, <2>3, <2>4 DEF Days
  <1>4. ASSUME NEW d \in Days PROVE Closing(d) \in Times /\ Day(Closing(d)) = d
    <2>1. d \in Nat /\ d < LastDay + 1 /\ LastDay + 1 \in Nat
      BY <1>1 DEF Days
    <2>2. Hours * d \in Nat /\ Hours * d + Hours <= Never
      BY <2>1, Scaled DEF Never
    <2>3. Closing(d) = Hours * d + OfficeEnd
      BY <1>1, <2>1 DEF Closing
    <2>4. Closing(d) \in Nat /\ Hours * d <= Closing(d) /\ Closing(d) < Hours * d + Hours
      BY <1>1, <2>2, <2>3
    <2>5. Day(Closing(d)) = d
      BY <2>1, <2>4, DayUnique
    <2> QED  BY <1>1, <1>2, <2>2, <2>4, <2>5 DEF Times
  <1> QED  BY <1>2, <1>3, <1>4

-----------------------------------------------------------------------------
(* What every session and every request in progress keep.                  *)

\* Some session of a set of them has the lowest id.
LEMMA LowestIn ==
    ASSUME NEW S \in SUBSET Sessions, S # {}
    PROVE  Lowest(S) \in S
  <1> DEFINE R == {p \in Nat \X Nat : p[1] < p[2]}
  <1>1. OpToRel(<, Nat) = R
    BY DEF OpToRel
  <1>2. IsWellFoundedOn(R, Nat) /\ S \in SUBSET Nat
    BY <1>1, NatLessThanWellFounded, AttendanceAssumption
  <1>3. \A m, n \in S : m < n => <<m, n>> \in R
    BY <1>2
  <1> HIDE DEF R
  <1>4. PICK n \in S : \A m \in S : ~(<<m, n>> \in R)
    BY <1>2, WFMin
  <1>5. ASSUME NEW m \in S PROVE n <= m
    <2>1. m \in Nat /\ n \in Nat
      BY <1>2
    <2>2. ~(m < n)
      BY <1>3, <1>4
    <2> QED  BY <2>1, <2>2
  <1> QED  BY <1>5 DEF Lowest

\* A session is of the day it began on, nothing of it is of another day or of
\* an hour to come.
Dated(x, time) ==
    /\ x.day \in Days /\ x.in \in Times /\ x.in <= time /\ Day(x.in) = x.day
    /\ x.seen # Never => Day(x.seen) = x.day
    /\ x.out # Never =>
          x.in <= x.out /\ x.out <= time /\ Day(x.out) = x.day

\* A check-in has an unused session to itself and saw no open one; who closes a
\* session took one of today, who sweeps took sessions of days that are over.
Pending(c) ==
    /\ req[c].step = "in" =>
          /\ c \in Tabs /\ sess[req[c].s] = NoSession
          /\ \A o \in Callers : req[o].step = "in" /\ req[o].s = req[c].s => o = c
          /\ \A s \in DOMAIN req[c].saw : req[c].saw[s] # Never
    /\ req[c].step = "out" => c \in Tabs /\ sess[req[c].s].day = Today
    /\ req[c].step = "sweep" =>
          \A s \in DOMAIN req[c].end :
              /\ sess[s].day < Today
              /\ sess[s].in <= req[c].end[s] /\ req[c].end[s] <= now
              /\ Day(req[c].end[s]) = sess[s].day

Clocked ==
    /\ TypeOK
    /\ \A s \in Sessions : sess[s] = NoSession \/ Dated(sess[s], now)
    /\ \A c \in Callers : Pending(c)

\* What TypeOK asks of one request.
ReqTyped(r) ==
    \/ r \in {Idle, [step |-> "look"], [step |-> "approve"]}
    \/ r \in [step : {"out"}, s : Sessions]
    \/ r.step = "in" /\ r.s \in Sessions
    \/ /\ r.step = "sweep"
       /\ DOMAIN r.end \subseteq Sessions
       /\ \A s \in DOMAIN r.end : r.end[s] \in Times

LEMMA ReqIs ==
    ASSUME TypeOK, NEW c \in Callers
    PROVE  /\ ReqTyped(req[c])
           /\ req[c].step \in {"in", "out"} => req[c].s \in Sessions
           /\ req[c].step = "sweep" =>
                 /\ DOMAIN req[c].end \subseteq Sessions
                 /\ \A s \in DOMAIN req[c].end : req[c].end[s] \in Times
  <1>1. ReqTyped(req[c])
    BY DEF TypeOK, ReqTyped
  <1> QED  BY <1>1 DEF ReqTyped, Idle

LEMMA Unopened ==
    ASSUME NEW x, x = NoSession
    PROVE  x \in Session /\ x.day = LastDay + 1 /\ x.day \notin Days
           /\ x.out = Never /\ ~(x.day < LastDay + 1)
BY AttendanceAssumption, InDay DEF NoSession, Session, Days

LEMMA TodayIs == ASSUME TypeOK PROVE Today \in Days /\ now \in Nat /\ now < Never
BY InDay DEF TypeOK, Today

\* A session that is over has begun, and ends on its day.
LEMMA EndsThere ==
    ASSUME Clocked, NEW s \in Stale
    PROVE  /\ s \in Sessions /\ sess[s].day < Today /\ EndOf(sess[s]) \in Times
           /\ sess[s].in <= EndOf(sess[s]) /\ EndOf(sess[s]) <= now
           /\ Day(EndOf(sess[s])) = sess[s].day
  <1>1. /\ s \in Sessions /\ sess[s].day < Today /\ sess[s] \in Session
        /\ Today \in Days /\ now \in Nat
    BY TodayIs DEF Stale, Clocked, TypeOK
  <1>2. Dated(sess[s], now)
    <2>1. LastDay \in Nat /\ Today < LastDay + 1
      BY <1>1, AttendanceAssumption DEF Days
    <2>2. sess[s] # NoSession
      BY <1>1, <2>1, Unopened DEF Days, Session
    <2> QED  BY <1>1, <2>2 DEF Clocked
  <1>3. /\ Closing(sess[s].day) \in Times /\ Day(Closing(sess[s].day)) = sess[s].day
        /\ sess[s].in \in Times
    BY <1>2, InDay DEF Dated
  <1>4. /\ EndOf(sess[s]) \in Times /\ sess[s].in <= EndOf(sess[s])
        /\ Day(EndOf(sess[s])) = sess[s].day
    <2>1. \A time \in Times : time \in Nat
      BY InDay
    <2>2. sess[s].seen \in Times \/ sess[s].seen = Never
      BY <1>1 DEF Session
    <2> QED  BY <1>2, <1>3, <2>1, <2>2 DEF EndOf, Dated
  <1>5. EndOf(sess[s]) <= now
    <2>1. EndOf(sess[s]) \in Nat
      BY <1>4, InDay
    <2>2. CASE now < EndOf(sess[s])
      <3>1. Today <= Day(EndOf(sess[s]))
        BY <1>1, <2>1, <2>2, DayOrder DEF Today
      <3> QED  BY <1>1, <1>2, <1>4, <3>1 DEF Dated, Days
    <2> QED  BY <1>1, <2>1, <2>2
  <1> QED  BY <1>1, <1>4, <1>5

\* The clock goes on, and waits for a punch.
LEMMA TimeMoves ==
    ASSUME Clocked, [Next]_vars
    PROVE  /\ now' \in Times /\ now <= now' /\ Today' \in Days /\ Today <= Today'
           /\ (\E t \in Tabs : req[t].step \in {"in", "out"}) => now' = now
  <1>1. CASE now' = now
    <2>1. now \in Times /\ now \in Nat /\ Today \in Days /\ Today' = Today
      BY <1>1, TodayIs DEF Clocked, TypeOK, Today
    <2> QED  BY <1>1, <2>1 DEF Days
  <1>2. CASE Tick
    <2>1. /\ now' = now + 1 /\ now + 1 < Never
          /\ \A t \in Tabs : req[t].step \notin {"in", "out"}
      BY <1>2 DEF Tick
    <2>2. now \in Nat /\ Never \in Nat
      BY TodayIs, InDay DEF Clocked
    <2>3. now' \in Times
      BY <2>1, <2>2 DEF Times
    <2>4. Today' \in Days /\ Today <= Today'
      BY <2>1, <2>2, <2>3, InDay, DayOrder DEF Today
    <2> QED  BY <2>1, <2>2, <2>3, <2>4
  <1>3. ASSUME NEW t \in Tabs,
               \/ PunchIn(t) \/ OpenSession(t) \/ PunchOut(t)
               \/ CloseSession(t) \/ Beat(t) \/ Look(t) \/ LookSaves(t)
        PROVE  now' = now
    BY <1>3 DEF PunchIn, OpenSession, PunchOut, CloseSession, Beat, Look, LookSaves
  <1> QED  BY <1>1, <1>2, <1>3
           DEF Next, SweepTask, TaskSaves, Raise, Decide, Approve, Withdraw,
               MarkAbsent, Amend, Swipe, SwipeIn, SwipeOut, Lock, vars

\* Who writes a session: nobody but a check-in changes its day or its beginning.
SessionsKept ==
    /\ sess' \in [Sessions -> Session]
    /\ \A s \in Sessions :
          /\ sess'[s] = NoSession \/ Dated(sess'[s], now')
          /\ sess[s] # NoSession =>
                sess'[s].day = sess[s].day /\ sess'[s].in = sess[s].in
          /\ sess[s] = NoSession =>
                \/ sess'[s] = NoSession
                \/ \E t \in Tabs : OpenSession(t) /\ s = req[t].s
                \/ \E e \in Swipes : SwipeIn(e.at) /\ s = Lowest(Unused)

\* The time of a swipe is an hour of a day there is.
LEMMA SwipeAt == ASSUME NEW e \in Swipes PROVE e.at \in Times /\ Day(e.at) \in Days
BY AttendanceAssumption, InDay DEF Never, Times

LEMMA BegunKeeps ==
    ASSUME Clocked, NEW n \in Sessions, NEW time \in Times, time <= now, now' = now,
           sess[n] = NoSession, sess' = [sess EXCEPT ![n] = Begun(Day(time), time)],
           \/ \E t \in Tabs : OpenSession(t) /\ n = req[t].s
           \/ \E e \in Swipes : SwipeIn(e.at) /\ n = Lowest(Unused)
    PROVE  SessionsKept
  <1> DEFINE x == Begun(Day(time), time)
  <1>3. x \in Session /\ Dated(x, now)
    <2>1. Day(time) \in Days /\ Day(time) \in 0 .. LastDay + 1
      BY InDay, AttendanceAssumption DEF Days
    <2>2. NoSession \in Session /\ NoSession.out = Never /\ NoSession.seen = Never
      BY Unopened DEF NoSession
    <2>3. /\ x \in Session /\ x.day = Day(time) /\ x.in = time
          /\ x.out = Never /\ x.seen = Never
      BY <2>1, <2>2 DEF Session, Begun
    <2> HIDE DEF x
    <2> QED  BY <2>1, <2>3 DEF Dated
  <1>2. sess' = [sess EXCEPT ![n] = x]
    OBVIOUS
  <1> HIDE DEF x
  <1>4. \A s \in Sessions : s # n => sess'[s] = sess[s]
    BY <1>2 DEF Clocked, TypeOK
  <1>5. sess' \in [Sessions -> Session] /\ sess'[n] = x
    BY <1>2, <1>3 DEF Clocked, TypeOK
  <1> QED  BY <1>3, <1>4, <1>5 DEF SessionsKept, Clocked

LEMMA OpenKeeps ==
    ASSUME Clocked, NEW t \in Tabs, OpenSession(t)
    PROVE  SessionsKept
  <1>1. t \in Callers /\ req[t].step = "in" /\ req[t].s \in Sessions /\ now' = now
        /\ sess' = [sess EXCEPT ![req[t].s] = Begun(Day(now), now)]
    BY ReqIs DEF OpenSession, Callers, Clocked, Today
  <1>2. sess[req[t].s] = NoSession
    BY <1>1 DEF Clocked, Pending
  <1>3. now \in Times /\ now <= now
    BY TodayIs DEF Clocked, TypeOK
  <1> QED  BY <1>1, <1>2, <1>3, BegunKeeps

\* The session a swipe opens is one that no check-in has.
LEMMA SwipeInKeeps ==
    ASSUME Clocked, NEW e \in Swipes, SwipeIn(e.at)
    PROVE  SessionsKept /\ Lowest(Unused) \in Unused
  <1>1. Lowest(Unused) \in Unused
    <2>1. Unused \in SUBSET Sessions /\ Unused # {}
      BY DEF SwipeIn, Unused
    <2> QED  BY <2>1, LowestIn
  <1>2. Lowest(Unused) \in Sessions /\ sess[Lowest(Unused)] = NoSession
    BY <1>1 DEF Unused
  <1>3. /\ now' = now /\ e.at <= now
        /\ sess' = [sess EXCEPT ![Lowest(Unused)] = Begun(Day(e.at), e.at)]
    BY DEF SwipeIn
  <1> QED  BY <1>1, <1>2, <1>3, SwipeAt, BegunKeeps

LEMMA EndedKeeps ==
    ASSUME Clocked, NEW n \in Sessions, NEW time \in Times, time <= now, now' = now,
           sess[n].day = Day(time), sess[n] # NoSession => sess[n].in <= time,
           sess' = [sess EXCEPT ![n].out = time]
    PROVE  SessionsKept /\ sess[n] # NoSession
  <1> DEFINE x == sess[n]
             y == [x EXCEPT !.out = time]
  <1>2. x.day = Day(time) /\ x \in Session /\ Day(time) \in Days
    BY InDay DEF Clocked, TypeOK
  <1>3. x # NoSession /\ Dated(x, now)
    BY <1>2, Unopened DEF Clocked
  <1>4. y \in Session /\ y.day = x.day /\ y.in = x.in /\ y.seen = x.seen /\ y.out = time
    BY <1>2 DEF Session
  <1>5. sess'[n] = y /\ \A s \in Sessions : s # n => sess'[s] = sess[s]
    BY DEF Clocked, TypeOK
  <1>6. sess' \in [Sessions -> Session]
    BY <1>4 DEF Clocked, TypeOK
  <1>8. x = sess[n]
    OBVIOUS
  <1> HIDE DEF x, y
  <1>7. Dated(y, now)
    <2>1. x.in <= time
      BY <1>3, <1>8
    <2> QED  BY <1>2, <1>3, <1>4, <2>1 DEF Dated
  <1> QED  BY <1>3, <1>4, <1>5, <1>6, <1>7, <1>8 DEF SessionsKept, Clocked

LEMMA CloseKeeps ==
    ASSUME Clocked, NEW t \in Tabs, CloseSession(t)
    PROVE  SessionsKept /\ sess[req[t].s] # NoSession
  <1>1. t \in Callers /\ req[t].step = "out" /\ req[t].s \in Sessions /\ now' = now
        /\ sess' = [sess EXCEPT ![req[t].s].out = now]
    BY ReqIs DEF CloseSession, Callers, Clocked
  <1>2. sess[req[t].s].day = Day(now) /\ now \in Times /\ now <= now
    BY <1>1, TodayIs DEF Clocked, Pending, TypeOK, Today
  <1>3. sess[req[t].s] # NoSession => sess[req[t].s].in <= now
    BY <1>1 DEF Clocked, Dated
  <1> QED  BY <1>1, <1>2, <1>3, EndedKeeps

\* A swipe out ends a session that was open, on its day.
LEMMA SwipeOutKeeps ==
    ASSUME Clocked, NEW e \in Swipes, SwipeOut(e.at)
    PROVE  /\ SessionsKept
           /\ \E n \in Sessions :
                 /\ sess[n] # NoSession /\ sess[n].out = Never
                 /\ \A s \in Sessions \ {n} : sess'[s] = sess[s]
  <1>1. PICK n \in OpenOn(Day(e.at)) :
           sess[n].in <= e.at /\ sess' = [sess EXCEPT ![n].out = e.at]
    BY DEF SwipeOut
  <1>2. n \in Sessions /\ sess[n].day = Day(e.at) /\ sess[n].out = Never
    BY <1>1 DEF OpenOn, Of
  <1>3. now' = now /\ e.at <= now
    BY DEF SwipeOut
  <1>4. SessionsKept /\ sess[n] # NoSession
    BY <1>1, <1>2, <1>3, SwipeAt, EndedKeeps
  <1>5. \A s \in Sessions \ {n} : sess'[s] = sess[s]
    BY <1>1 DEF Clocked, TypeOK
  <1> QED  BY <1>2, <1>4, <1>5

LEMMA BeatKeeps ==
    ASSUME Clocked, NEW t \in Tabs, Beat(t)
    PROVE  SessionsKept /\ \A s \in Sessions : sess'[s].out = sess[s].out
  <1> DEFINE z == Lowest(OpenOn(Today))
             x == sess[z]
             y == [x EXCEPT !.seen = now]
  <1>1. z \in Sessions /\ x.day = Today /\ now' = now
        /\ sess' = [sess EXCEPT ![z].seen = now]
    <2>1. OpenOn(Today) \in SUBSET Sessions /\ OpenOn(Today) # {}
      BY DEF Beat, OpenOn, Of
    <2>2. z \in OpenOn(Today)
      BY <2>1, LowestIn
    <2> QED  BY <2>2 DEF Beat, OpenOn, Of
  <1>2. x \in Session /\ Today \in Days /\ now \in Times
    BY <1>1, TodayIs DEF Clocked, TypeOK
  <1>3. x # NoSession /\ Dated(x, now)
    BY <1>1, <1>2, Unopened DEF Clocked
  <1>4. /\ y \in Session /\ y.day = x.day /\ y.in = x.in /\ y.seen = now
        /\ y.out = x.out
    BY <1>2 DEF Session
  <1>5. sess'[z] = y /\ \A s \in Sessions : s # z => sess'[s] = sess[s]
    BY <1>1 DEF Clocked, TypeOK
  <1>6. sess' \in [Sessions -> Session]
    BY <1>1, <1>4 DEF Clocked, TypeOK
  <1>7. x = sess[z]
    OBVIOUS
  <1> HIDE DEF x, y, z
  <1>8. Dated(y, now)
    <2>1. Day(now) = y.day
      BY <1>1, <1>4 DEF Today
    <2> QED  BY <1>3, <1>4, <2>1 DEF Dated
  <1> QED  BY <1>1, <1>3, <1>4, <1>5, <1>6, <1>7, <1>8 DEF SessionsKept, Clocked

LEMMA SweepKeeps ==
    ASSUME Clocked, NEW c \in Callers, SweepSave(c), now' = now
    PROVE  /\ SessionsKept
           /\ DOMAIN req[c].end \subseteq Sessions
           /\ \A s \in DOMAIN req[c].end : sess'[s].out = req[c].end[s]
           /\ \A s \in Sessions \ DOMAIN req[c].end : sess'[s] = sess[s]
  <1> DEFINE end == req[c].end
  <1>1. /\ req[c].step = "sweep" /\ sess' = Swept(end)
        /\ DOMAIN end \subseteq Sessions /\ \A s \in DOMAIN end : end[s] \in Times
    BY ReqIs DEF SweepSave, Clocked
  <1>2. \A s \in DOMAIN end :
           /\ sess[s].day < Today
           /\ sess[s].in <= end[s] /\ end[s] <= now
           /\ Day(end[s]) = sess[s].day
    BY <1>1 DEF Clocked, Pending
  <1> HIDE DEF end
  <1>3. \A s \in Sessions :
           sess'[s] = IF s \in DOMAIN end THEN [sess[s] EXCEPT !.out = end[s], !.auto = TRUE]
                                          ELSE sess[s]
    BY <1>1 DEF Swept
  <1>4. \A s \in Sessions : sess[s] \in Session
    BY DEF Clocked, TypeOK
  <1>5. ASSUME NEW s \in DOMAIN end
        PROVE  /\ sess'[s] \in Session /\ sess[s] # NoSession /\ Dated(sess'[s], now)
               /\ sess'[s].day = sess[s].day /\ sess'[s].in = sess[s].in
               /\ sess'[s].out = end[s]
    <2>1. s \in Sessions /\ sess[s].day < Today /\ Today \in Days /\ end[s] \in Times
      BY <1>1, <1>2, TodayIs DEF Clocked
    <2>2. sess[s] # NoSession
      BY <2>1, Unopened, AttendanceAssumption DEF Days
    <2>3. Dated(sess[s], now)
      BY <2>1, <2>2 DEF Clocked
    <2>4. sess'[s] = [sess[s] EXCEPT !.out = end[s], !.auto = TRUE]
      BY <1>3, <2>1
    <2>5. /\ sess'[s] \in Session
          /\ sess'[s].day = sess[s].day /\ sess'[s].in = sess[s].in
          /\ sess'[s].seen = sess[s].seen /\ sess'[s].out = end[s]
      BY <1>4, <2>1, <2>4 DEF Session
    <2>6. Dated(sess'[s], now)
      BY <1>2, <2>3, <2>5 DEF Dated
    <2> QED  BY <2>2, <2>5, <2>6
  <1>6. sess' \in [Sessions -> Session]
    <2>1. \A s \in Sessions : sess'[s] \in Session
      BY <1>3, <1>4, <1>5
    <2>2. sess' = [s \in Sessions |-> sess'[s]]
      BY <1>1 DEF Swept
    <2> QED  BY <2>1, <2>2
  <1>7. SessionsKept
    BY <1>1, <1>3, <1>5, <1>6 DEF SessionsKept, Clocked
  <1>8. end = req[c].end
    BY DEF end
  <1> QED  BY <1>1, <1>3, <1>5, <1>7, <1>8

LEMMA SessionsMove == ASSUME Clocked, [Next]_vars PROVE SessionsKept
  <1>1. CASE sess' = sess
    <2>1. \A s \in Sessions : Dated(sess[s], now) => Dated(sess[s], now')
      <3>1. now \in Nat /\ now' \in Nat /\ now <= now' /\ \A time \in Times : time \in Nat
        BY TimeMoves, InDay, TodayIs DEF Clocked
      <3>2. \A s \in Sessions : sess[s].out \in Times \cup {Never}
        BY DEF Clocked, TypeOK, Session
      <3> QED  BY <3>1, <3>2 DEF Dated
    <2> QED  BY <1>1, <2>1 DEF SessionsKept, Clocked, TypeOK
  <1>2. ASSUME NEW t \in Tabs,
               \/ PunchIn(t) \/ OpenSession(t) \/ PunchOut(t)
               \/ CloseSession(t) \/ Beat(t) \/ Look(t) \/ LookSaves(t)
        PROVE  SessionsKept
    <2>1. CASE LookSaves(t)
      BY <2>1, SweepKeeps DEF LookSaves, Callers
    <2>2. CASE PunchIn(t) \/ PunchOut(t) \/ Look(t)
      BY <1>1, <2>2 DEF PunchIn, PunchOut, Look
    <2> QED  BY <1>2, <2>1, <2>2, OpenKeeps, CloseKeeps, BeatKeeps
  <1>3. CASE TaskSaves
    BY <1>3, SweepKeeps DEF TaskSaves, Callers
  <1>4. ASSUME NEW e \in Swipes, Swipe(e) PROVE SessionsKept
    BY <1>4, SwipeInKeeps, SwipeOutKeeps DEF Swipe
  <1> QED  BY <1>1, <1>2, <1>3, <1>4
           DEF Next, SweepTask, Raise, Decide, Approve, Withdraw, MarkAbsent, Amend,
               Lock, Tick, vars

\* What a step does to the request of a caller.
Began(c) ==
    \/ c \in Tabs /\ PunchIn(c)
    \/ c \in Tabs /\ PunchOut(c)
    \/ /\ req'[c] = [step |-> "sweep", end |-> Ends]
       /\ UNCHANGED <<now, sess>>
    \/ ReqTyped(req'[c]) /\ req'[c].step \notin {"in", "out", "sweep"}

LEMMA ReqMoves ==
    ASSUME Clocked, [Next]_vars
    PROVE  DOMAIN req' = Callers /\ \A c \in Callers : req'[c] = req[c] \/ Began(c)
  <1>0. /\ DOMAIN req = Callers /\ Tabs \subseteq Callers /\ HR \in Callers /\ Worker \in Callers
        /\ ReqTyped([step |-> "look"]) /\ ReqTyped(Idle)
        /\ Idle.step = "idle"
    BY DEF Clocked, TypeOK, Callers, ReqTyped, Idle
  <1>1. ASSUME NEW c \in Callers, NEW r, req' = [req EXCEPT ![c] = r]
        PROVE  /\ DOMAIN req' = Callers /\ req'[c] = r
               /\ \A o \in Callers : o # c => req'[o] = req[o]
    BY <1>0, <1>1
  <1>2. ASSUME NEW t \in Tabs, PunchIn(t) \/ PunchOut(t)
        PROVE  DOMAIN req' = Callers /\ \A c \in Callers : req'[c] = req[c] \/ Began(c)
    <2>1. PICK r : req' = [req EXCEPT ![t] = r]
      BY <1>2 DEF PunchIn, PunchOut, Begin
    <2>2. Began(t)
      BY <1>2 DEF Began
    <2> QED  BY <1>0, <1>1, <2>1, <2>2
  <1>3. ASSUME NEW t \in Tabs,
               \/ OpenSession(t) \/ CloseSession(t) \/ LookSaves(t)
               \/ Look(t) /\ Stale = {}
        PROVE  DOMAIN req' = Callers /\ \A c \in Callers : req'[c] = req[c] \/ Began(c)
    <2>1. PICK r \in {Idle, [step |-> "look"]} : req' = [req EXCEPT ![t] = r]
      BY <1>3 DEF OpenSession, CloseSession, LookSaves, SweepSave, Look
    <2>2. req'[t] = r
      BY <1>0, <1>1, <2>1
    <2>3. Began(t)
      BY <1>0, <2>2 DEF Began
    <2> QED  BY <1>0, <1>1, <2>1, <2>3
  <1>4. ASSUME NEW c \in Callers, req' = [req EXCEPT ![c] = [step |-> "sweep", end |-> Ends]],
               UNCHANGED <<now, sess>>
        PROVE  DOMAIN req' = Callers /\ \A o \in Callers : req'[o] = req[o] \/ Began(o)
    <2>1. Began(c)
      BY <1>1, <1>4 DEF Began
    <2> QED  BY <1>1, <1>4, <2>1
  <1>5. ASSUME NEW t \in Tabs, Look(t), Stale # {}
        PROVE  DOMAIN req' = Callers /\ \A c \in Callers : req'[c] = req[c] \/ Began(c)
    BY <1>0, <1>4, <1>5 DEF Look
  <1>6. CASE SweepTask
    BY <1>0, <1>4, <1>6 DEF SweepTask, Begin
  <1>7. CASE TaskSaves \/ Approve
    <2>1. PICK c \in {Worker, HR} : req' = [req EXCEPT ![c] = Idle]
      BY <1>7 DEF TaskSaves, SweepSave, Approve
    <2>2. Began(c)
      BY <1>0, <1>1, <2>1 DEF Began
    <2> QED  BY <1>0, <1>1, <2>1, <2>2
  <1>8. CASE Decide
    <2> DEFINE r == [step |-> "approve"]
    <2>1. req' = [req EXCEPT ![HR] = r]
      BY <1>8 DEF Decide, Begin
    <2>2. r.step = "approve" /\ ReqTyped(r)
      BY DEF ReqTyped
    <2> HIDE DEF r
    <2>3. Began(HR)
      BY <1>0, <1>1, <2>1, <2>2 DEF Began
    <2> QED  BY <1>0, <1>1, <2>1, <2>3
  <1>9. CASE req' = req
    BY <1>0, <1>9
  <1>10. ASSUME NEW t \in Tabs,
               \/ PunchIn(t) \/ OpenSession(t) \/ PunchOut(t)
               \/ CloseSession(t) \/ Beat(t) \/ Look(t) \/ LookSaves(t)
         PROVE  DOMAIN req' = Callers /\ \A c \in Callers : req'[c] = req[c] \/ Began(c)
    BY <1>2, <1>3, <1>5, <1>9, <1>10 DEF Beat
  <1> QED  BY <1>6, <1>7, <1>8, <1>9, <1>10
           DEF Next, Raise, Withdraw, MarkAbsent, Amend, Swipe, SwipeIn, SwipeOut,
               Lock, Tick, vars

\* A check-in takes an unused session, on a day without an open one.
LEMMA PunchInTakes ==
    ASSUME Clocked, NEW t \in Tabs, PunchIn(t)
    PROVE  /\ req'[t].step = "in" /\ req'[t].s \in Unused /\ UNCHANGED <<now, sess>>
           /\ \A s \in DOMAIN req'[t].saw : req'[t].saw[s] # Never
  <1>1. Lowest(Unused) \in Unused
    <2>1. Unused \in SUBSET Sessions /\ Unused # {}
      BY DEF PunchIn, Unused
    <2> QED  BY <2>1, LowestIn
  <1>2. req'[t] = [step |-> "in", s |-> Lowest(Unused),
                   first |-> row[Today] = NoRow, saw |-> Punches(Today)]
    BY DEF PunchIn, Begin, Clocked, TypeOK, Callers
  <1>3. \A s \in DOMAIN Punches(Today) : Punches(Today)[s] # Never
    BY DEF PunchIn, MayOpen, OpenOn, Punches
  <1> HIDE DEF Lowest, Unused, Punches
  <1> QED  BY <1>1, <1>2, <1>3 DEF PunchIn

LEMMA PunchOutTakes ==
    ASSUME Clocked, NEW t \in Tabs, PunchOut(t)
    PROVE  /\ req'[t].step = "out" /\ req'[t].s \in Sessions /\ UNCHANGED <<now, sess>>
           /\ sess[req'[t].s].day = Today /\ ReqTyped(req'[t])
  <1>1. PICK s \in OpenOn(Today) : req' = [req EXCEPT ![t] = [step |-> "out", s |-> s]]
    BY DEF PunchOut, Begin
  <1>2. req'[t] = [step |-> "out", s |-> s]
    BY <1>1 DEF Clocked, TypeOK, Callers
  <1>3. req'[t].step = "out" /\ req'[t].s = s
    BY <1>2
  <1> QED  BY <1>2, <1>3 DEF PunchOut, OpenOn, Of, ReqTyped

LEMMA PendingMoves ==
    ASSUME Clocked, [Next]_vars, NEW c \in Callers
    PROVE  Pending(c)'
  <1>0. /\ SessionsKept /\ now <= now' /\ Today <= Today' /\ Today \in Days /\ Today' \in Days
        /\ now \in Nat /\ now' \in Nat
    BY SessionsMove, TimeMoves, TodayIs, InDay DEF Clocked
  <1>1. ASSUME NEW o \in Callers, req'[o].step = "in", req'[o] # req[o]
        PROVE  o \in Tabs /\ PunchIn(o)
    <2>1. Began(o)
      BY <1>1, ReqMoves
    <2>2. o \in Tabs /\ PunchOut(o) => req'[o].step = "out"
      BY PunchOutTakes
    <2>3. \A r : r = [step |-> "sweep", end |-> Ends] => r.step = "sweep"
      OBVIOUS
    <2> QED  BY <1>1, <2>1, <2>2, <2>3 DEF Began
  \* Nobody takes a session that a check-in has.
  <1>2. ASSUME NEW o \in Callers, req'[o].step = "in", req'[o] # req[o]
        PROVE  /\ sess[req'[o].s] = NoSession /\ UNCHANGED <<now, sess>>
               /\ \A p \in Callers : req[p].step = "in" => req[p].s # req'[o].s
    BY <1>1, <1>2, PunchInTakes DEF Unused
  <1>3. ASSUME req'[c].step = "in"
        PROVE  /\ c \in Tabs /\ sess'[req'[c].s] = NoSession
               /\ \A o \in Callers : req'[o].step = "in" /\ req'[o].s = req'[c].s => o = c
               /\ \A s \in DOMAIN req'[c].saw : req'[c].saw[s] # Never
    <2>1. CASE req'[c] = req[c]
      <3>1. /\ c \in Tabs /\ sess[req[c].s] = NoSession /\ req[c].s \in Sessions
            /\ \A s \in DOMAIN req[c].saw : req[c].saw[s] # Never
        BY <1>3, <2>1, ReqIs DEF Clocked, Pending
      <3>2. ASSUME NEW o \in Callers, req'[o].step = "in", req'[o].s = req'[c].s PROVE o = c
        <4>1. req'[o] = req[o]
          BY <1>2, <1>3, <2>1, <3>2
        <4> QED  BY <1>3, <2>1, <3>2, <4>1 DEF Clocked, Pending
      <3>3. ASSUME NEW t \in Tabs, OpenSession(t), req[c].s = req[t].s PROVE FALSE
        <4>1. t \in Callers /\ req[t].step = "in" /\ req'[t].step = "look"
          BY <3>3 DEF OpenSession, Callers, Clocked, TypeOK
        <4>2. t = c
          BY <1>3, <2>1, <3>3, <4>1 DEF Clocked, Pending
        <4> QED  BY <1>3, <4>1, <4>2
      <3>4. sess'[req[c].s] = NoSession
        <4>1. ASSUME NEW e \in Swipes, SwipeIn(e.at) PROVE req[c].s # Lowest(Unused)
          BY <1>3, <2>1, <4>1, SwipeInKeeps DEF Unused
        <4> HIDE DEF Lowest, Unused
        <4> QED  BY <1>0, <3>1, <3>3, <4>1 DEF SessionsKept
      <3> QED  BY <2>1, <3>1, <3>2, <3>4
    <2>2. CASE req'[c] # req[c]
      <3>1. /\ c \in Tabs /\ PunchIn(c) /\ sess'[req'[c].s] = NoSession
            /\ \A s \in DOMAIN req'[c].saw : req'[c].saw[s] # Never
        BY <1>1, <1>2, <1>3, <2>2, PunchInTakes
      <3>2. ASSUME NEW o \in Callers, o # c PROVE req'[o] = req[o]
        BY <3>1, <3>2 DEF PunchIn, Begin, Clocked, TypeOK
      <3> QED  BY <1>2, <1>3, <2>2, <3>1, <3>2
    <2> QED  BY <2>1, <2>2
  <1>4. ASSUME req'[c].step = "out"
        PROVE  c \in Tabs /\ sess'[req'[c].s].day = Today'
    <2>1. CASE req'[c] = req[c]
      <3>1. c \in Tabs /\ sess[req[c].s].day = Today /\ req[c].s \in Sessions
        BY <1>4, <2>1, ReqIs DEF Clocked, Pending
      <3>2. sess[req[c].s] # NoSession
        BY <1>0, <3>1, Unopened
      <3>3. now' = now
        BY <1>4, <2>1, <3>1, TimeMoves
      <3> QED  BY <1>0, <2>1, <3>1, <3>2, <3>3 DEF SessionsKept, Today
    <2>2. CASE req'[c] # req[c]
      <3>1. c \in Tabs /\ PunchOut(c)
        <4>1. Began(c)
          BY <2>2, ReqMoves
        <4>2. c \in Tabs /\ PunchIn(c) => req'[c].step = "in"
          BY PunchInTakes
        <4>3. \A r : r = [step |-> "sweep", end |-> Ends] => r.step = "sweep"
          OBVIOUS
        <4> QED  BY <1>4, <4>1, <4>2, <4>3 DEF Began
      <3>2. c \in Tabs /\ UNCHANGED <<now, sess>> /\ sess[req'[c].s].day = Today
        BY <3>1, PunchOutTakes
      <3> QED  BY <3>2 DEF Today
    <2> QED  BY <2>1, <2>2
  <1>5. ASSUME req'[c].step = "sweep"
        PROVE  \A s \in DOMAIN req'[c].end :
                  /\ sess'[s].day < Today'
                  /\ sess'[s].in <= req'[c].end[s] /\ req'[c].end[s] <= now'
                  /\ Day(req'[c].end[s]) = sess'[s].day
    <2>1. CASE req'[c] = req[c]
      <3> SUFFICES ASSUME NEW s \in DOMAIN req[c].end
                   PROVE  /\ sess'[s].day < Today'
                          /\ sess'[s].in <= req[c].end[s] /\ req[c].end[s] <= now'
                          /\ Day(req[c].end[s]) = sess'[s].day
        BY <2>1
      <3>1. /\ s \in Sessions /\ sess[s].day < Today /\ req[c].end[s] \in Times
            /\ sess[s].in <= req[c].end[s] /\ req[c].end[s] <= now
            /\ Day(req[c].end[s]) = sess[s].day
        BY <1>5, <2>1, ReqIs DEF Clocked, Pending
      <3>2. req[c].end[s] \in Nat
        BY <3>1, InDay
      <3>3. sess[s] # NoSession
        BY <1>0, <3>1, Unopened, AttendanceAssumption DEF Days
      <3>4. sess'[s].day = sess[s].day /\ sess'[s].in = sess[s].in
        BY <1>0, <3>1, <3>3 DEF SessionsKept
      <3>5. sess[s].day \in Int
        BY <3>1, AttendanceAssumption DEF Clocked, TypeOK, Session
      <3> QED  BY <1>0, <3>1, <3>2, <3>4, <3>5 DEF Days
    <2>2. CASE req'[c] # req[c]
      <3>1. Began(c)
        BY <2>2, ReqMoves
      <3>2. req'[c] = [step |-> "sweep", end |-> Ends] /\ UNCHANGED <<now, sess>>
        <4>1. c \in Tabs /\ PunchIn(c) => req'[c].step = "in"
          BY PunchInTakes
        <4>2. c \in Tabs /\ PunchOut(c) => req'[c].step = "out"
          BY PunchOutTakes
        <4> QED  BY <1>5, <3>1, <4>1, <4>2 DEF Began
      <3>3. DOMAIN Ends = Stale /\ \A s \in Stale : Ends[s] = EndOf(sess[s])
        BY DEF Ends
      <3> HIDE DEF Ends, Stale, EndOf
      <3>4. req'[c].end = Ends /\ Today' = Today
        BY <3>2 DEF Today
      <3> QED  BY <3>2, <3>3, <3>4, EndsThere
    <2> QED  BY <2>1, <2>2
  <1> QED  BY <1>3, <1>4, <1>5 DEF Pending

LEMMA RequestsTyped ==
    ASSUME Clocked, [Next]_vars
    PROVE  DOMAIN req' = Callers /\ \A c \in Callers : ReqTyped(req'[c])
  <1> SUFFICES ASSUME NEW c \in Callers PROVE ReqTyped(req'[c])
    BY ReqMoves
  <1>1. CASE req'[c] = req[c]
    BY <1>1, ReqIs DEF Clocked
  <1>2. ASSUME c \in Tabs, PunchIn(c) PROVE ReqTyped(req'[c])
    BY <1>2, PunchInTakes DEF ReqTyped, Unused
  <1>3. ASSUME c \in Tabs, PunchOut(c) PROVE ReqTyped(req'[c])
    BY <1>3, PunchOutTakes
  <1>4. ASSUME req'[c] = [step |-> "sweep", end |-> Ends] PROVE ReqTyped(req'[c])
    <2>1. DOMAIN Ends \subseteq Sessions /\ \A s \in DOMAIN Ends : Ends[s] \in Times
      <3>1. DOMAIN Ends = Stale /\ \A s \in Stale : Ends[s] = EndOf(sess[s])
        BY DEF Ends
      <3> HIDE DEF Ends, Stale, EndOf
      <3> QED  BY <3>1, EndsThere
    <2> HIDE DEF Ends
    <2> QED  BY <1>4, <2>1 DEF ReqTyped
  <1> QED  BY <1>1, <1>2, <1>3, <1>4, ReqMoves DEF Began

LEMMA RowTyped ==
    ASSUME Clocked, [Next]_vars
    PROVE  /\ row' \in [Days -> Row]
           /\ claim' \in [state : {"none", "pending", "approved", "cancelled"},
                          day : Days, out : Times \cup {Never},
                          status : Marks \cup {"keep"}]
  <1>0. /\ row \in [Days -> Row] /\ Today \in Days /\ now \in Times
        /\ claim \in [state : {"none", "pending", "approved", "cancelled"},
                      day : Days, out : Times \cup {Never},
                      status : Marks \cup {"keep"}]
    BY TodayIs DEF Clocked, TypeOK
  <1>1. \A x \in Row : /\ x.status \in Marks \cup {"none"} /\ x.out \in Times \cup {Never}
                       /\ \A status \in Marks \cup {"none"} : [x EXCEPT !.status = status] \in Row
                       /\ \A out \in Times : [x EXCEPT !.out = out] \in Row
    BY DEF Row
  <1>2. CASE row' = row /\ claim' = claim
    BY <1>0, <1>2
  <1>3. ASSUME NEW d \in Days, row' = Arrived(d) PROVE row' \in [Days -> Row]
    <2> DEFINE status == IF row[d].status = "none"
                            \/ (row[d].status = "absent" /\ Of(d) = {})
                         THEN "present" ELSE row[d].status
    <2>1. row' = [row EXCEPT ![d] = [row[d] EXCEPT !.status = status]]
      BY <1>3 DEF Arrived
    <2>2. status \in Marks \cup {"none"}
      BY <1>0, <1>1 DEF Marks
    <2> HIDE DEF status
    <2> QED  BY <1>0, <1>1, <2>1, <2>2
  <1>4. ASSUME NEW d \in Days, NEW time \in Times, row' = [row EXCEPT ![d].out = time]
        PROVE  row' \in [Days -> Row]
    <2>1. row' = [row EXCEPT ![d] = [row[d] EXCEPT !.out = time]]
      BY <1>4
    <2> QED  BY <1>0, <1>1, <2>1
  <1>5. ASSUME NEW asked \in Disputes, Raise(asked)
        PROVE  /\ row' = row
               /\ claim' \in [state : {"none", "pending", "approved", "cancelled"},
                              day : Days, out : Times \cup {Never},
                              status : Marks \cup {"keep"}]
    <2>1. asked.day \in Days /\ asked.out \in Times \cup {Never}
          /\ asked.status \in Marks \cup {"keep"}
      <3>1. Never \in Nat /\ asked.out \in 0 .. Never
        BY InDay, AttendanceAssumption DEF Never
      <3> QED  BY <3>1, AttendanceAssumption DEF Days, Times, Marks
    <2> QED  BY <1>5, <2>1 DEF Raise
  <1>6. CASE Approve
    <2>1. Corrected(row[claim.day]) \in Row
      <3>1. row[claim.day] \in Row /\ claim.out \in Times \cup {Never}
            /\ claim.status \in Marks \cup {"keep"}
        BY <1>0
      <3> QED  BY <1>1, <3>1 DEF Corrected, Row, Marks
    <2>2. row' = [row EXCEPT ![claim.day] = Corrected(row[claim.day])]
          /\ claim' = [claim EXCEPT !.state = "approved"]
      BY <1>6 DEF Approve
    <2> QED  BY <1>0, <2>1, <2>2
  <1>7. CASE Withdraw
    BY <1>0, <1>7 DEF Withdraw
  <1>8. ASSUME NEW d \in Dates, NEW status \in Marks, MarkAbsent(d, status)
        PROVE  row' \in [Days -> Row] /\ claim' = claim
    <2>1. row' = [row EXCEPT ![d] = [row[d] EXCEPT !.status = status]]
          /\ claim' = claim /\ d \in Days
      BY <1>8, AttendanceAssumption DEF MarkAbsent, Days
    <2> QED  BY <1>0, <1>1, <2>1 DEF Marks
  <1>9. ASSUME NEW t \in Tabs,
               \/ PunchIn(t) \/ OpenSession(t) \/ PunchOut(t)
               \/ CloseSession(t) \/ Beat(t) \/ Look(t) \/ LookSaves(t)
        PROVE  row' \in [Days -> Row] /\ claim' = claim
    BY <1>0, <1>3, <1>4, <1>9 DEF PunchIn, OpenSession, PunchOut, CloseSession, Beat,
                                  Look, LookSaves
  <1>10. ASSUME NEW x \in Amended, Amend(x)
         PROVE  row' \in [Days -> Row] /\ claim' = claim
    <2>1. x \in [day : Days, out : Times \cup {Never}, status : Marks]
      <3>1. /\ x \in [day : 0 .. LastDay, out : 0 .. Hours * (LastDay + 1),
                       status : {"present", "absent"}]
            /\ Never \in Nat /\ Never = Hours * (LastDay + 1)
        BY AttendanceAssumption, InDay DEF Never
      <3> QED  BY <3>1 DEF Days, Times, Marks
    <2>2. [status |-> x.status, out |-> x.out] \in Row
      BY <2>1 DEF Row
    <2> QED  BY <1>0, <1>10, <2>1, <2>2 DEF Amend
  <1>11. ASSUME NEW e \in Swipes, Swipe(e)
         PROVE  row' \in [Days -> Row] /\ claim' = claim
    <2>1. e.at \in Times /\ Day(e.at) \in Days
      BY SwipeAt
    <2>2. \/ row' = Arrived(Day(e.at)) /\ claim' = claim
          \/ row' = [row EXCEPT ![Day(e.at)].out = e.at] /\ claim' = claim
      BY <1>11 DEF Swipe, SwipeIn, SwipeOut
    <2> QED  BY <1>3, <1>4, <2>1, <2>2
  <1> QED  BY <1>0, <1>2, <1>5, <1>6, <1>7, <1>8, <1>9, <1>10, <1>11
           DEF Next, SweepTask, TaskSaves, Decide, Lock, Tick, vars

LEMMA FlagsTyped ==
    ASSUME Clocked, [Next]_vars
    PROVE  shown' \in [Tabs -> BOOLEAN] /\ locked' \in BOOLEAN /\ crossed' \in BOOLEAN
  <1>0. shown \in [Tabs -> BOOLEAN] /\ locked \in BOOLEAN /\ crossed \in BOOLEAN
    BY DEF Clocked, TypeOK
  <1>1. ASSUME NEW t \in Tabs, NEW after, Answered(t, after) PROVE shown' \in [Tabs -> BOOLEAN]
    <2> DEFINE open == \E s \in Of(Today) : after[s].out = Never
    <2>1. open \in BOOLEAN
      OBVIOUS
    <2>2. shown' = [shown EXCEPT ![t] = open]
      BY <1>1 DEF Answered
    <2> HIDE DEF open
    <2> QED  BY <1>0, <2>1, <2>2
  <1>2. shown' \in [Tabs -> BOOLEAN]
    <2>1. CASE shown' = shown
      BY <1>0, <2>1
    <2>2. ASSUME NEW t \in Tabs, Look(t) \/ LookSaves(t) PROVE shown' \in [Tabs -> BOOLEAN]
      BY <1>1, <2>1, <2>2 DEF Look, LookSaves
    <2> QED  BY <2>1, <2>2
             DEF Next, PunchIn, OpenSession, PunchOut, CloseSession, Beat, SweepTask, TaskSaves,
                 Raise, Decide, Approve, Withdraw, MarkAbsent, Amend, Swipe, SwipeIn,
                 SwipeOut, Lock, Tick, vars
  <1>3. locked' \in BOOLEAN
    BY <1>0 DEF Next, PunchIn, OpenSession, PunchOut, CloseSession, Beat, Look, LookSaves,
                SweepTask, TaskSaves, Raise, Decide, Approve, Withdraw, MarkAbsent, Amend,
                Swipe, SwipeIn, SwipeOut, Lock, Tick, vars
  <1>4. crossed' \in BOOLEAN
    <2>1. CASE crossed' = crossed
      BY <1>0, <2>1
    <2>2. ASSUME NEW t \in Tabs, OpenSession(t) PROVE crossed' \in BOOLEAN
      <3>1. crossed' = (crossed \/ Punches(Today) # req[t].saw)
        BY <2>2, Zenon DEF OpenSession
      <3> QED  BY <3>1, Zenon
    <2>3. ASSUME NEW t \in Tabs, CloseSession(t) PROVE crossed' \in BOOLEAN
      <3>1. crossed' = (crossed \/ sess[req[t].s].out # Never)
        BY <2>3, Zenon DEF CloseSession
      <3> QED  BY <3>1, Zenon
    <2>4. ASSUME NEW c, SweepSave(c) PROVE crossed' \in BOOLEAN
      <3> DEFINE other == \E s \in DOMAIN req[c].end :
                             sess[s].out \notin {Never, req[c].end[s]}
      <3>1. crossed' = (crossed \/ other)
        BY <2>4, Zenon DEF SweepSave
      <3> HIDE DEF other
      <3> QED  BY <3>1, Zenon
    <2>5. CASE Approve
      <3>1. crossed' = (crossed \/ ~MayApprove)
        BY <2>5, Zenon DEF Approve
      <3> QED  BY <1>0, <3>1, Zenon
    <2>6. ASSUME NEW t \in Tabs,
                 \/ PunchIn(t) \/ OpenSession(t) \/ PunchOut(t)
                 \/ CloseSession(t) \/ Beat(t) \/ Look(t) \/ LookSaves(t)
          PROVE  crossed' \in BOOLEAN
      BY <2>1, <2>2, <2>3, <2>4, <2>6 DEF PunchIn, PunchOut, Beat, Look, LookSaves
    <2>7. ASSUME NEW e \in Swipes, Swipe(e) PROVE crossed' \in BOOLEAN
      <3> DEFINE behind == \E s \in Of(Day(e.at)) : sess[s].out > e.at
      <3>1. crossed' = (crossed \/ behind) \/ crossed' = crossed
        BY <2>7, Zenon DEF Swipe, SwipeIn, SwipeOut
      <3> HIDE DEF behind
      <3> QED  BY <1>0, <3>1, Zenon
    <2> QED  BY <2>1, <2>4, <2>5, <2>6, <2>7
             DEF Next, SweepTask, TaskSaves, Raise, Decide, Withdraw, MarkAbsent, Amend,
                 Lock, Tick, vars
  <1> QED  BY <1>2, <1>3, <1>4

LEMMA ClockedStep == ASSUME Clocked, [Next]_vars PROVE Clocked'
  <1>1. TypeOK'
    BY TimeMoves, SessionsMove, RequestsTyped, RowTyped, FlagsTyped
    DEF TypeOK, SessionsKept, ReqTyped
  <1>2. \A s \in Sessions : sess'[s] = NoSession \/ Dated(sess'[s], now')
    BY SessionsMove DEF SessionsKept
  <1> QED  BY <1>1, <1>2, PendingMoves DEF Clocked

LEMMA ClockedAlways == Spec => []Clocked
  <1>1. Init => Clocked
    <2> SUFFICES ASSUME Init PROVE Clocked  OBVIOUS
    <2>1. 0 \in Times /\ 0 \in Days
      <3>1. Closing(0) \in Times /\ 0 \in Days
        BY InDay, AttendanceAssumption DEF Days
      <3> QED  BY <3>1, InDay DEF Times
    <2>2. NoSession \in Session /\ NoRow \in Row
      BY Unopened DEF NoRow, Row
    <2>3. \A c \in Callers : req[c] = Idle /\ Pending(c)
      BY DEF Init, Pending, Idle
    <2> QED  BY <2>1, <2>2, <2>3 DEF Init, Clocked, TypeOK, NoClaim, Idle
  <1>2. Clocked /\ [Next]_vars => Clocked'
    BY ClockedStep
  <1> QED  BY <1>1, <1>2, PTL DEF Spec

\* Every variable keeps its type, in any number of tabs.
THEOREM TypeCorrect == Spec => []TypeOK
  <1>1. Clocked => TypeOK
    BY DEF Clocked
  <1> QED  BY <1>1, ClockedAlways, PTL

-----------------------------------------------------------------------------
(* Hours are counted once.                                                 *)

\* Two sessions of a day that do not overlap.  One of them is closed.
Clear(x, y) == x.out <= y.in \/ y.out <= x.in
Separate ==
    ~crossed =>
        \A s, t \in Sessions :
            s # t /\ sess[s] # NoSession /\ sess[t].day = sess[s].day =>
                Clear(sess[s], sess[t])

\* Closing a session that was open keeps it clear of the others.
LEMMA ClosedClear ==
    ASSUME NEW x \in Session, NEW y \in Session, Clear(x, y), x.out = Never, y.in \in Times
    PROVE  y.out <= x.in
BY InDay DEF Clear, Session

LEMMA SeparateStep == ASSUME Clocked, Separate, [Next]_vars PROVE Separate'
  <1> SUFFICES ASSUME ~crossed', NEW s \in Sessions, NEW t \in Sessions,
                      s # t, sess'[s] # NoSession, sess'[t].day = sess'[s].day
               PROVE  Clear(sess'[s], sess'[t])
    BY DEF Separate
  <1>0. SessionsKept /\ \A u \in Sessions : sess[u] \in Session
    BY SessionsMove DEF Clocked, TypeOK
  <1>1. \A u, v \in Sessions :
           u # v /\ sess[u] # NoSession /\ sess[v].day = sess[u].day /\ ~crossed =>
               Clear(sess[u], sess[v]) /\ sess[v] # NoSession
    BY <1>0, Unopened DEF Separate, Clocked, Dated
  <1>2. \A u \in Sessions : sess[u] # NoSession => Dated(sess[u], now)
    BY DEF Clocked
  <1>3. \A time \in Times : time \in Nat /\ time < Never
    BY InDay
  <1>4. ~crossed
    BY DEF Next, PunchIn, OpenSession, PunchOut, CloseSession, Beat, Look, LookSaves,
           SweepTask, TaskSaves, SweepSave, Raise, Decide, Approve, Withdraw, MarkAbsent,
           Amend, Swipe, SwipeIn, SwipeOut, Lock, Tick, vars
  <1>5. sess'[t] # NoSession
    BY <1>0, Unopened DEF SessionsKept, Dated
  <1>6. CASE sess' = sess
    BY <1>1, <1>4, <1>6
  \* A new session is clear of those of its day that ended before it began.
  <1>16. ASSUME NEW n \in Sessions, NEW d, NEW time, sess[n] = NoSession,
                sess' = [sess EXCEPT ![n] = Begun(d, time)],
                \A v \in Of(d) : sess[v].out <= time
         PROVE  Clear(sess'[s], sess'[t])
    <2>1. sess'[n].day = d /\ sess'[n].in = time
      BY <1>16 DEF Clocked, TypeOK, NoSession, Begun
    <2>2. \A v \in Sessions : v # n => sess'[v] = sess[v]
      BY <1>16 DEF Clocked, TypeOK
    <2>3. \A v \in Sessions : v # n /\ sess'[v].day = d => sess'[v].out <= time
      BY <1>16, <2>2 DEF Of
    <2>4. CASE s # n /\ t # n
      BY <1>1, <1>4, <2>2, <2>4
    <2> QED  BY <2>1, <2>2, <2>3, <2>4 DEF Clear
  \* A check-in that saw what is there still sees no open session today.
  <1>7. ASSUME NEW u \in Tabs, OpenSession(u) PROVE Clear(sess'[s], sess'[t])
    <2> DEFINE n == req[u].s
    <2>1. /\ u \in Callers /\ req[u].step = "in" /\ n \in Sessions
          /\ sess[n] = NoSession /\ \A i \in DOMAIN req[u].saw : req[u].saw[i] # Never
      BY <1>7, ReqIs DEF OpenSession, Callers, Clocked, Pending
    <2>2. sess' = [sess EXCEPT ![n] = Begun(Today, now)]
      BY <1>7 DEF OpenSession
    <2>3. Punches(Today) = req[u].saw
      <3>1. crossed' = (crossed \/ Punches(Today) # req[u].saw)
        BY <1>7, Zenon DEF OpenSession
      <3> QED  BY <3>1, Zenon
    <2>4. \A v \in Of(Today) : sess[v].out # Never
      BY <2>1, <2>3 DEF Punches
    <2> HIDE DEF n
    <2>5. ASSUME NEW v \in Of(Today) PROVE sess[v].out <= now
      <3>1. v \in Sessions /\ sess[v] # NoSession /\ sess[v].out # Never
        BY <2>4, Unopened, TodayIs DEF Of, Clocked
      <3> QED  BY <1>2, <3>1 DEF Dated
    <2> QED  BY <1>16, <2>1, <2>2, <2>5
  \* A swipe in that is not behind later work finds every session of its day over.
  <1>17. ASSUME NEW e \in Swipes, SwipeIn(e.at) PROVE Clear(sess'[s], sess'[t])
    <2> DEFINE n == Lowest(Unused)
               behind == \E v \in Of(Day(e.at)) : sess[v].out > e.at
    <2>1. n \in Sessions /\ sess[n] = NoSession
      BY <1>17, SwipeInKeeps DEF Unused
    <2>2. sess' = [sess EXCEPT ![n] = Begun(Day(e.at), e.at)]
      BY <1>17 DEF SwipeIn
    <2>3. ~behind
      <3>1. crossed' = (crossed \/ behind)
        BY <1>17, Zenon DEF SwipeIn
      <3> HIDE DEF behind
      <3> QED  BY <3>1, Zenon
    <2>4. \A v \in Of(Day(e.at)) : sess[v].out \in Nat /\ e.at \in Nat
      BY <1>0, SwipeAt, InDay DEF Of, Session
    <2>5. \A v \in Of(Day(e.at)) : sess[v].out <= e.at
      BY <2>3, <2>4
    <2> HIDE DEF n
    <2> QED  BY <1>16, <2>1, <2>2, <2>5
  \* A session that gets its end was open, and no other of its day was.
  <1>8. ASSUME NEW x \in Sessions, NEW y \in Sessions, x # y, sess[x] # NoSession,
               sess[y].day = sess[x].day, sess[x].out = Never
        PROVE  sess[y].out <= sess[x].in /\ sess[y].out # Never
    <2>1. Clear(sess[x], sess[y]) /\ sess[y] # NoSession
      BY <1>1, <1>4, <1>8
    <2>2. sess[y].in \in Times /\ sess[x].in \in Times
      BY <1>2, <1>8, <2>1 DEF Dated
    <2>3. sess[y].out <= sess[x].in
      BY <1>0, <1>8, <2>1, <2>2, ClosedClear
    <2> QED  BY <1>3, <2>2, <2>3, InDay
  <1>9. ASSUME NEW C \in SUBSET Sessions,
               \A v \in C : sess[v].out = Never /\ sess[v] # NoSession,
               \A v \in Sessions \ C : sess'[v].out = sess[v].out,
               \A v \in Sessions :
                  sess'[v] # NoSession => /\ sess[v] # NoSession
                                          /\ sess'[v].day = sess[v].day
                                          /\ sess'[v].in = sess[v].in
        PROVE  Clear(sess'[s], sess'[t])
    <2>1. /\ sess[s] # NoSession /\ sess[t] # NoSession /\ sess[t].day = sess[s].day
          /\ sess'[s].in = sess[s].in /\ sess'[t].in = sess[t].in
      BY <1>5, <1>9
    <2>2. CASE s \in C
      <3>1. sess[t].out <= sess[s].in /\ sess[t].out # Never
        BY <1>8, <1>9, <2>1, <2>2
      <3>2. sess'[t].out = sess[t].out
        BY <1>9, <3>1
      <3> QED  BY <2>1, <3>1, <3>2 DEF Clear
    <2>3. CASE t \in C
      <3>1. sess[s].out <= sess[t].in /\ sess[s].out # Never
        BY <1>8, <1>9, <2>1, <2>3
      <3>2. sess'[s].out = sess[s].out
        BY <1>9, <3>1
      <3> QED  BY <2>1, <3>1, <3>2 DEF Clear
    <2>4. CASE s \notin C /\ t \notin C
      <3>1. Clear(sess[s], sess[t])
        BY <1>1, <1>4, <2>1
      <3> QED  BY <1>9, <2>1, <2>4, <3>1 DEF Clear
    <2> QED  BY <2>2, <2>3, <2>4
  <1> DEFINE Opens == \/ \E u \in Tabs : OpenSession(u)
                      \/ \E e \in Swipes : SwipeIn(e.at)
  <1>10. ASSUME ~Opens
         PROVE  \A v \in Sessions :
                   sess'[v] # NoSession => /\ sess[v] # NoSession
                                           /\ sess'[v].day = sess[v].day
                                           /\ sess'[v].in = sess[v].in
    BY <1>0, <1>10 DEF SessionsKept
  <1>18. CASE Opens
    BY <1>7, <1>17, <1>18
  <1> HIDE DEF Opens
  <1>11. ASSUME NEW u \in Tabs, CloseSession(u), ~Opens
         PROVE  Clear(sess'[s], sess'[t])
    <2> DEFINE C == {req[u].s}
    <2>1. C \in SUBSET Sessions /\ sess[req[u].s] # NoSession
      BY <1>11, CloseKeeps, ReqIs DEF CloseSession, Callers, Clocked
    <2>2. sess[req[u].s].out = Never
      <3>1. crossed' = (crossed \/ sess[req[u].s].out # Never)
        BY <1>11, Zenon DEF CloseSession
      <3> QED  BY <3>1, Zenon
    <2>3. \A v \in Sessions \ C : sess'[v].out = sess[v].out
      BY <1>11 DEF CloseSession, Clocked, TypeOK
    <2>4. \A v \in C : sess[v].out = Never /\ sess[v] # NoSession
      BY <2>1, <2>2
    <2> HIDE DEF C
    <2> QED  BY <1>9, <1>10, <1>11, <2>1, <2>3, <2>4
  <1>12. ASSUME NEW u \in Tabs, Beat(u), ~Opens
         PROVE  Clear(sess'[s], sess'[t])
    <2> DEFINE C == {}
    <2>1. C \in SUBSET Sessions /\ \A v \in C : sess[v].out = Never /\ sess[v] # NoSession
      OBVIOUS
    <2>2. \A v \in Sessions \ C : sess'[v].out = sess[v].out
      BY <1>12, BeatKeeps
    <2> HIDE DEF C
    <2> QED  BY <1>9, <1>10, <1>12, <2>1, <2>2
  <1>13. ASSUME NEW c \in Callers, SweepSave(c), now' = now, ~Opens
         PROVE  Clear(sess'[s], sess'[t])
    <2> DEFINE C == {v \in DOMAIN req[c].end : sess[v].out = Never}
    <2>1. C \in SUBSET Sessions /\ \A v \in Sessions \ C : sess'[v].out = sess[v].out
      <3> DEFINE other == \E v \in DOMAIN req[c].end :
                             sess[v].out \notin {Never, req[c].end[v]}
      <3>1. crossed' = (crossed \/ other)
        BY <1>13, Zenon DEF SweepSave
      <3>2. ~other
        <4> HIDE DEF other
        <4> QED  BY <3>1, Zenon
      <3> QED  BY <1>13, <3>2, SweepKeeps
    <2>2. \A v \in C : sess[v].out = Never
      OBVIOUS
    <2>3. \A v \in C : sess[v] # NoSession
      <3> SUFFICES ASSUME NEW v \in C PROVE sess[v] # NoSession  OBVIOUS
      <3>1. v \in DOMAIN req[c].end /\ sess[v].day < Today /\ Today \in Days
        BY <1>13, TodayIs DEF SweepSave, Clocked, Pending
      <3> QED  BY <3>1, Unopened, AttendanceAssumption DEF Days
    <2> HIDE DEF C
    <2> QED  BY <1>9, <1>10, <1>13, <2>1, <2>2, <2>3
  <1>14. ASSUME NEW u \in Tabs,
               \/ PunchIn(u) \/ OpenSession(u) \/ PunchOut(u)
               \/ CloseSession(u) \/ Beat(u) \/ Look(u) \/ LookSaves(u)
         PROVE  Clear(sess'[s], sess'[t])
    <2>1. CASE PunchIn(u) \/ PunchOut(u) \/ Look(u)
      BY <1>6, <2>1 DEF PunchIn, PunchOut, Look
    <2>2. CASE LookSaves(u)
      BY <1>13, <1>18, <2>2 DEF LookSaves, Callers
    <2> QED  BY <1>7, <1>11, <1>12, <1>14, <1>18, <2>1, <2>2
  <1>15. CASE TaskSaves
    BY <1>13, <1>15, <1>18 DEF TaskSaves, Callers
  <1>19. ASSUME NEW e \in Swipes, Swipe(e) PROVE Clear(sess'[s], sess'[t])
    <2>1. CASE SwipeOut(e.at) /\ ~Opens
      <3>1. PICK n \in Sessions : /\ sess[n] # NoSession /\ sess[n].out = Never
                                  /\ \A v \in Sessions \ {n} : sess'[v] = sess[v]
        BY <2>1, SwipeOutKeeps
      <3> DEFINE C == {n}
      <3>2. /\ C \in SUBSET Sessions
            /\ \A v \in C : sess[v].out = Never /\ sess[v] # NoSession
            /\ \A v \in Sessions \ C : sess'[v].out = sess[v].out
        BY <3>1
      <3> HIDE DEF C
      <3> QED  BY <1>9, <1>10, <2>1, <3>2
    <2> QED  BY <1>17, <1>18, <1>19, <2>1 DEF Swipe
  <1> QED  BY <1>6, <1>14, <1>15, <1>19
           DEF Next, SweepTask, Raise, Decide, Approve, Withdraw, MarkAbsent, Amend,
               Lock, Tick, vars

\* HoursCountedOnce: whichever tab, beat or sweep writes a session, the sessions
\* of a day lie on it and apart, unless a request wrote over what it had not read.
THEOREM HoursCountedOnceCorrect == Spec => []HoursCountedOnce
  <1>1. Init => Separate
    BY DEF Init, Separate
  <1>2. Clocked /\ Separate /\ [Next]_vars => Separate'
    BY SeparateStep
  <1>3. Clocked /\ Separate => HoursCountedOnce
    <2> SUFFICES ASSUME Clocked, Separate, ~crossed, NEW s \in Sessions, sess[s] # NoSession
                 PROVE  /\ sess[s].out # Never =>
                              sess[s].in <= sess[s].out /\ Day(sess[s].out) = sess[s].day
                        /\ \A t \in Of(sess[s].day) \ {s} :
                              sess[s].out <= sess[t].in \/ sess[t].out <= sess[s].in
      BY DEF HoursCountedOnce
    <2>1. Dated(sess[s], now)
      BY DEF Clocked
    <2> QED  BY <2>1 DEF Dated, Separate, Clear, Of
  <1> QED  BY <1>1, <1>2, <1>3, ClockedAlways, PTL DEF Spec

-----------------------------------------------------------------------------
(* A locked day.                                                           *)

\* LockedDayStands: once the day is over a clock writes another day's record and
\* an approval has looked at the lock; who changes the locked one is somebody
\* who never asks payroll.
THEOREM LockedDayStandsCorrect == Spec => LockedDayStands
  <1> DEFINE Stands == locked /\ Period < Today /\ ~crossed' /\ row'[Period] # row[Period]
                       => NeverAsksPayroll(Period)
  <1>1. Clocked /\ [Next]_vars => [Stands]_vars
    <2> SUFFICES ASSUME Clocked, Next, locked, Period < Today, ~crossed',
                        row'[Period] # row[Period]
                 PROVE  NeverAsksPayroll(Period)
      BY DEF vars
    <2>1. Period \in Days /\ DOMAIN row = Days /\ Today # Period
      BY AttendanceAssumption DEF Period, Days, Clocked, TypeOK
    <2>2. ASSUME NEW t \in Tabs,
                 \/ PunchIn(t) \/ OpenSession(t) \/ PunchOut(t)
                 \/ CloseSession(t) \/ Beat(t) \/ Look(t) \/ LookSaves(t)
          PROVE  FALSE
      BY <2>1, <2>2 DEF PunchIn, OpenSession, Arrived, PunchOut, CloseSession, Beat,
                        Look, LookSaves
    <2>3. CASE Approve
      <3>1. MayApprove
        <4>1. crossed' = (crossed \/ ~MayApprove)
          BY <2>3, Zenon DEF Approve
        <4> QED  BY <4>1, Zenon
      <3>2. claim.day # Period
        BY <3>1 DEF MayApprove
      <3> QED  BY <2>1, <2>3, <3>2 DEF Approve
    <2>4. ASSUME NEW d \in Dates, NEW status \in Marks, MarkAbsent(d, status)
          PROVE  NeverAsksPayroll(Period)
      <3>1. d = Period
        BY <2>1, <2>4 DEF MarkAbsent
      <3> QED  BY <2>4, <3>1 DEF NeverAsksPayroll
    <2>5. ASSUME NEW x \in Amended, Amend(x)
          PROVE  NeverAsksPayroll(Period)
      <3>1. x.day = Period
        BY <2>1, <2>5 DEF Amend
      <3> QED  BY <2>5, <3>1 DEF NeverAsksPayroll
    <2>6. ASSUME NEW e \in Swipes, Swipe(e)
          PROVE  NeverAsksPayroll(Period)
      <3>1. Day(e.at) = Period
        BY <2>1, <2>6 DEF Swipe, SwipeIn, SwipeOut, Arrived
      <3> QED  BY <2>6, <3>1 DEF NeverAsksPayroll
    <2>7. row' # row
      OBVIOUS
    <2> QED  BY <2>2, <2>3, <2>4, <2>5, <2>6, <2>7
             DEF Next, SweepTask, TaskSaves, Raise, Decide, Withdraw, Lock, Tick
  <1> QED  BY <1>1, ClockedAlways, PTL DEF Spec, LockedDayStands
=============================================================================
