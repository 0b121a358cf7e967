---------------------------- MODULE SessionProofs ----------------------------
(***************************************************************************)
(* Theorems about Session, for any number of requests under way at once    *)
(* and any number of token pairs.                                          *)
(***************************************************************************)
EXTENDS Session, TLAPS

Request == [kind : Kinds, at : Steps, access : Pairs, refresh : Pairs,
            new : Pairs, effect : {Keep, Set, Clear},
            status : {"none", "ok", "failed", "401", "lost"},
            runs : 0 .. 2, tries : 0 .. 1]

\* No cookie is a pair that has not been minted yet.
Within ==
    /\ jar.access <= issued /\ jar.refresh <= issued
    /\ \A r \in Requests : req[r].refresh <= issued /\ req[r].new <= issued

\* Where a request is says what has happened to it: a call that has not been
\* answered has not run, only a call is ever renewed, and then with a token.
Due(r) == req[r].at \in {"retry", "answer"}
Placed(r) ==
    /\ req[r].at \in {"sent", "refresh", "rotate", "retry"} => req[r].runs = 0
    /\ req[r].runs <= 1
    /\ req[r].at \in {"refresh", "rotate", "retry"} => req[r].kind \in Calls
    /\ req[r].at = "rotate" => req[r].refresh # 0
    /\ req[r].at \in {"sent", "refresh", "rotate"} => req[r].effect = Keep
    /\ req[r].at = "retry" => req[r].effect = Set
    /\ req[r].kind = "logout" /\ Due(r) => req[r].effect = Clear \/ broken
    /\ req[r].kind = "login" /\ Due(r) =>
           (req[r].status = "ok" <=> req[r].effect = Set)

IndType == TypeOK /\ Within /\ \A r \in Requests : Placed(r)

\* Every other request is as it was.
Alone(r) == \A q \in Requests \ {r} : req'[q] = req[q]

\* r goes on to `at` with the cookies it was sent with.
Goes(r, at, effect) ==
    /\ req' \in [Requests -> Request] /\ Alone(r)
    /\ req'[r].at = at /\ req'[r].effect = effect
    /\ req'[r].kind = req[r].kind /\ req'[r].refresh = req[r].refresh

\* The record a handler leaves: what the request asks and carries stays.
With(x, at, effect, new, status, runs) ==
    [x EXCEPT !.at = at, !.effect = effect, !.new = new, !.status = status, !.runs = runs]
Turns(r, at, effect, new, status, runs) ==
    req' = [req EXCEPT ![r] = With(req[r], at, effect, new, status, runs)]
Effects == {Keep, Set, Clear}
Statuses == {"none", "ok", "failed", "401", "lost"}
Counts == 0 .. 2

LEMMA WithLeaves ==
    ASSUME req \in [Requests -> Request], NEW r \in Requests,
           NEW at \in Steps, NEW effect \in Effects, NEW new \in Pairs,
           NEW status \in Statuses, NEW runs \in Counts, Turns(r, at, effect, new, status, runs)
    PROVE  /\ Goes(r, at, effect) /\ req'[r].new = new /\ req'[r].status = status
           /\ req'[r].runs = runs /\ req'[r].tries = req[r].tries
  <1> DEFINE x == With(req[r], at, effect, new, status, runs)
  <1>1. /\ x \in Request /\ x.at = at /\ x.effect = effect /\ x.new = new
        /\ x.status = status /\ x.runs = runs /\ x.tries = req[r].tries
        /\ x.kind = req[r].kind /\ x.refresh = req[r].refresh
    BY DEF With, Request, Statuses, Effects, Counts
  <1>a. req' = [req EXCEPT ![r] = x]
    BY DEF Turns
  <1> HIDE DEF x
  <1>2. req' \in [Requests -> Request] /\ req'[r] = x /\ Alone(r)
    BY <1>1, <1>a DEF Alone
  <1> QED  BY <1>1, <1>2 DEF Goes

LEMMA Goings ==
    ASSUME IndType, NEW r \in Requests
    PROVE  /\ Forward(r) => /\ \/ Goes(r, "refresh", Keep) /\ req'[r].runs = 0
                               \/ Goes(r, "answer", Keep) /\ req'[r].runs = 1
                            /\ req'[r].new = req[r].new
           /\ Refused(r) => /\ Goes(r, "answer", Clear)
                            /\ req'[r].runs = 0 /\ req'[r].new = req[r].new
           /\ Check(r)   => /\ Goes(r, "rotate", Keep)
                            /\ req'[r].runs = 0 /\ req'[r].new = req[r].new
           /\ Rotate(r)  => /\ Goes(r, "retry", Set)
                            /\ req'[r].runs = 0 /\ req'[r].new = issued + 1
           /\ Retry(r)   => /\ Goes(r, "answer", Set)
                            /\ req'[r].runs \in 0 .. 1 /\ req'[r].new = req[r].new
           /\ Login(r)   => /\ req'[r].runs = 0
                            /\ \/ /\ Goes(r, "answer", Set)
                                  /\ issued' = issued + 1 /\ issued < MaxPairs
                                  /\ req'[r].new = issued + 1 /\ req'[r].status = "ok"
                               \/ /\ Goes(r, "answer", Keep) /\ issued' = issued
                                  /\ req'[r].new = req[r].new /\ req'[r].status = "401"
           /\ Logout(r)  => /\ Goes(r, "answer", Clear)
                            /\ req'[r].runs = 0 /\ req'[r].new = req[r].new
           /\ Unreachable(r) => /\ Goes(r, "answer", Keep) /\ req'[r].status = "failed"
                                /\ req'[r].runs = 0 /\ req'[r].new = req[r].new
  <1> DEFINE W(at, effect, new, status, runs) == Turns(r, at, effect, new, status, runs)
             x == req[r]
  <1>0. /\ req \in [Requests -> Request] /\ MaxPairs \in Nat /\ issued \in Pairs
        /\ x \in Request /\ Placed(r)
        /\ x.new \in Pairs /\ x.status \in Statuses /\ x.runs \in Counts
        /\ Effects = {Keep, Set, Clear}
        /\ {"sent", "refresh", "rotate", "retry", "answer"} \subseteq Steps
        /\ {"ok", "401", "failed"} \subseteq Statuses /\ {0, 1} \subseteq Counts
    BY SessionAssumption DEF IndType, TypeOK, Request, Pairs, Steps, Statuses, Counts, Effects
  <1>1. ASSUME NEW at \in Steps, NEW effect \in Effects, NEW new \in Pairs,
               NEW status \in Statuses, NEW runs \in Counts, W(at, effect, new, status, runs)
        PROVE  /\ Goes(r, at, effect) /\ req'[r].new = new /\ req'[r].status = status
               /\ req'[r].runs = runs
    BY <1>0, <1>1, WithLeaves
  <1>2. ASSUME Served(r), x.runs = 0
        PROVE  \E s \in Statuses : W("answer", x.effect, x.new, s, 1)
    <2>1. PICK s \in {"ok", "failed"} :
             req' = [req EXCEPT ![r] = [x EXCEPT !.at = "answer", !.status = s, !.runs = @ + 1]]
      BY <1>0, <1>2 DEF Served
    <2>2. x.runs + 1 = 1
      BY <1>2
    <2>3. [x EXCEPT !.at = "answer", !.status = s, !.runs = x.runs + 1]
          = With(x, "answer", x.effect, x.new, s, 1)
      BY <1>0, <2>2 DEF With, Request
    <2> QED  BY <1>0, <2>1, <2>3 DEF Turns
  <1>3. ASSUME Forward(r)
        PROVE  \/ W("refresh", Keep, x.new, x.status, 0)
               \/ \E s \in Statuses : W("answer", Keep, x.new, s, 1)
    <2>1. x.runs = 0 /\ x.effect = Keep
      BY <1>0, <1>3 DEF Forward, Placed
    <2>2. [x EXCEPT !.at = "refresh"] = With(x, "refresh", Keep, x.new, x.status, 0)
      BY <1>0, <2>1 DEF With, Request
    <2> QED  BY <1>0, <1>2, <1>3, <2>1, <2>2 DEF Forward, Turns
  <1>4. Refused(r) => W("answer", Clear, x.new, "401", 0)
    <2>1. ASSUME x.runs = 0
          PROVE  [x EXCEPT !.at = "answer", !.status = "401", !.effect = Clear]
                 = With(x, "answer", Clear, x.new, "401", 0)
      BY <1>0, <2>1 DEF With, Request
    <2> QED  BY <1>0, <2>1 DEF Refused, Placed, Turns
  <1>5. Check(r) => W("rotate", Keep, x.new, x.status, 0)
    BY <1>0 DEF Check, Placed, With, Request, Turns
  <1>6. Rotate(r) => W("retry", Set, issued + 1, x.status, 0) /\ issued + 1 \in Pairs
    <2>1. ASSUME x.runs = 0
          PROVE  [x EXCEPT !.at = "retry", !.new = issued + 1, !.effect = Set]
                 = With(x, "retry", Set, issued + 1, x.status, 0)
      BY <1>0, <2>1 DEF With, Request
    <2>2. Rotate(r) => x.runs = 0 /\ issued < MaxPairs
      BY <1>0 DEF Rotate, Placed
    <2>3. issued < MaxPairs => issued + 1 \in Pairs
      BY <1>0 DEF Pairs
    <2>4. Rotate(r) => req' = [req EXCEPT ![r] = [x EXCEPT !.at = "retry", !.new = issued + 1,
                                                          !.effect = Set]]
      BY <1>0 DEF Rotate
    <2> QED  BY <2>1, <2>2, <2>3, <2>4 DEF Turns
  <1>7. ASSUME Retry(r)
        PROVE  \/ W("answer", Set, x.new, "401", 0)
               \/ \E s \in Statuses : W("answer", Set, x.new, s, 1)
    <2>1. x.runs = 0 /\ x.effect = Set
      BY <1>0, <1>7 DEF Retry, Placed
    <2>2. [x EXCEPT !.at = "answer", !.status = "401"] = With(x, "answer", Set, x.new, "401", 0)
      BY <1>0, <2>1 DEF With, Request
    <2> QED  BY <1>0, <1>2, <1>7, <2>1, <2>2 DEF Retry, Turns
  <1>8. Login(r) => \/ /\ W("answer", Set, issued + 1, "ok", 0) /\ issued' = issued + 1
                       /\ issued < MaxPairs /\ issued + 1 \in Pairs
                    \/ W("answer", Keep, x.new, "401", 0) /\ issued' = issued
    <2>1. ASSUME x.runs = 0, x.effect = Keep
          PROVE  /\ [x EXCEPT !.at = "answer", !.status = "ok", !.new = issued + 1, !.effect = Set]
                    = With(x, "answer", Set, issued + 1, "ok", 0)
                 /\ [x EXCEPT !.at = "answer", !.status = "401"]
                    = With(x, "answer", Keep, x.new, "401", 0)
      BY <1>0, <2>1 DEF With, Request
    <2>2. Login(r) => x.runs = 0 /\ x.effect = Keep
      BY <1>0 DEF Login, Placed
    <2>3. issued < MaxPairs => issued + 1 \in Pairs
      BY <1>0 DEF Pairs
    <2>4. Login(r) =>
             \/ /\ req' = [req EXCEPT ![r] = [x EXCEPT !.at = "answer", !.status = "ok",
                                                       !.new = issued + 1, !.effect = Set]]
                /\ issued' = issued + 1 /\ issued < MaxPairs
             \/ /\ req' = [req EXCEPT ![r] = [x EXCEPT !.at = "answer", !.status = "401"]]
                /\ issued' = issued
      BY <1>0 DEF Login, Mint
    <2> QED  BY <2>1, <2>2, <2>3, <2>4 DEF Turns
  <1>9. Logout(r) => W("answer", Clear, x.new, "ok", 0)
    <2>1. ASSUME x.runs = 0
          PROVE  [x EXCEPT !.at = "answer", !.status = "ok", !.effect = Clear]
                 = With(x, "answer", Clear, x.new, "ok", 0)
      BY <1>0, <2>1 DEF With, Request
    <2> QED  BY <1>0, <2>1 DEF Logout, Placed, Turns
  <1>10. Unreachable(r) => W("answer", Keep, x.new, "failed", 0)
    <2>1. ASSUME x.runs = 0
          PROVE  [x EXCEPT !.at = "answer", !.status = "failed", !.effect = Keep]
                 = With(x, "answer", Keep, x.new, "failed", 0)
      BY <1>0, <2>1 DEF With, Request
    <2> QED  BY <1>0, <2>1 DEF Unreachable, Placed, Turns
  <1> HIDE DEF W
  <1> QED  BY <1>0, <1>1, <1>3, <1>4, <1>5, <1>6, <1>7, <1>8, <1>9, <1>10

\* Asking takes the cookies as they are.
LEMMA Askings ==
    ASSUME IndType, NEW r \in Requests, NEW kind \in Kinds,
           Ask(r, kind) \/ (AskAgain(r) /\ kind = "read")
    PROVE  /\ req' \in [Requests -> Request] /\ Alone(r)
           /\ req'[r].at = "sent" /\ req'[r].effect = Keep /\ req'[r].kind = kind
           /\ req'[r].refresh = jar.refresh /\ req'[r].new = 0 /\ req'[r].runs = 0
  <1>0. /\ req \in [Requests -> Request] /\ MaxPairs \in Nat
        /\ jar \in [access : Pairs, refresh : Pairs]
    BY SessionAssumption DEF IndType, TypeOK, Request
  <1>1. PICK n \in 0 .. 1 : req' = [req EXCEPT ![r] = [Fresh(kind) EXCEPT !.tries = n]]
    BY DEF Ask, AskAgain, Fresh
  <1> DEFINE x == [Fresh(kind) EXCEPT !.tries = n]
  <1>2. x \in Request
    BY <1>0 DEF Fresh, Request, Steps, Pairs
  <1>3. x.at = "sent" /\ x.effect = Keep /\ x.kind = kind /\ x.refresh = jar.refresh
        /\ x.new = 0 /\ x.runs = 0
    BY DEF Fresh
  <1>4. req' = [req EXCEPT ![r] = x]
    BY <1>1
  <1> HIDE DEF x
  <1> QED  BY <1>0, <1>2, <1>3, <1>4 DEF Alone

\* An answer, or its loss, ends the request.
LEMMA Endings ==
    ASSUME IndType, NEW r \in Requests, Arrive(r) \/ Lose(r)
    PROVE  /\ req' \in [Requests -> Request] /\ Alone(r)
           /\ req'[r].at \in {"again", "done"}
           /\ req'[r].kind = req[r].kind /\ req'[r].refresh = req[r].refresh
           /\ req'[r].new = req[r].new /\ req'[r].runs = req[r].runs
  <1> DEFINE x == req[r]
  <1>0. /\ req \in [Requests -> Request] /\ x \in Request
        /\ x.effect \in Effects /\ x.new \in Pairs /\ x.runs \in Counts
        /\ "lost" \in Statuses /\ x.status \in Statuses
    BY DEF IndType, TypeOK, Request, Statuses, Effects, Counts
  <1>1. \E a \in {"again", "done"} : \E s \in Statuses :
           Turns(r, a, x.effect, x.new, s, x.runs)
    <2>1. CASE Arrive(r)
      <3>1. After(r) \in {"again", "done"} /\ req' = [req EXCEPT ![r].at = After(r)]
        BY <2>1 DEF After, Arrive
      <3>2. [x EXCEPT !.at = After(r)] = With(x, After(r), x.effect, x.new, x.status, x.runs)
        BY <1>0 DEF With, Request
      <3> QED  BY <1>0, <3>1, <3>2 DEF Turns
    <2>2. CASE Lose(r)
      <3>0. \E a \in {"again", "done"} :
               req' = [req EXCEPT ![r].status = "lost", ![r].at = a]
        BY <2>2 DEF Lose
      <3>1. PICK a \in {"again", "done"} :
               req' = [req EXCEPT ![r] = [x EXCEPT !.status = "lost", !.at = a]]
        BY <1>0, <3>0
      <3>2. [x EXCEPT !.status = "lost", !.at = a] = With(x, a, x.effect, x.new, "lost", x.runs)
        BY <1>0 DEF With, Request
      <3> QED  BY <1>0, <3>1, <3>2 DEF Turns
    <2> QED  BY <2>1, <2>2
  <1>2. {"again", "done"} \subseteq Steps
    BY DEF Steps
  <1>3. PICK a \in {"again", "done"}, s \in Statuses :
           Turns(r, a, x.effect, x.new, s, x.runs)
    BY <1>1
  <1>4. a \in Steps /\ req \in [Requests -> Request] /\ x.effect \in Effects
        /\ x.new \in Pairs /\ x.runs \in Counts
    BY <1>0, <1>2
  <1>5. /\ Goes(r, a, x.effect) /\ req'[r].new = x.new /\ req'[r].runs = x.runs
    BY <1>3, <1>4, WithLeaves
  <1> QED  BY <1>5 DEF Goes

-----------------------------------------------------------------------------

LEMMA TypeInit == Init => IndType
  <1> SUFFICES ASSUME Init PROVE IndType  OBVIOUS
  <1>1. Idle \in Request
    BY SessionAssumption DEF Idle, Request, Kinds, Steps, Pairs
  <1>2. req \in [Requests -> Request] /\ \A r \in Requests : req[r] = Idle
    BY <1>1 DEF Init
  <1>3. TypeOK
    <2>1. active \in BOOLEAN /\ together \in BOOLEAN /\ broken \in BOOLEAN /\ turned \in BOOLEAN
      BY DEF Init
    <2> QED  BY <1>2, <2>1, SessionAssumption DEF Init, TypeOK, Request, Pairs
  <1>4. Within
    BY <1>2 DEF Init, Within, Idle
  <1>5. \A r \in Requests : Placed(r)
    BY <1>2 DEF Placed, Due, Idle
  <1> QED  BY <1>3, <1>4, <1>5 DEF IndType

LEMMA TypeStep == IndType /\ [Next]_vars => IndType'
  <1> SUFFICES ASSUME IndType, [Next]_vars PROVE IndType'  OBVIOUS
  <1>0. /\ req \in [Requests -> Request] /\ MaxPairs \in Nat /\ issued \in 0 .. MaxPairs
        /\ jar \in [access : Pairs, refresh : Pairs]
        /\ jar.refresh \in 0 .. issued /\ jar.access \in 0 .. issued
        /\ \A r \in Requests : Placed(r) /\ req[r].refresh \in 0 .. issued
                               /\ req[r].new \in 0 .. issued
    BY SessionAssumption DEF IndType, TypeOK, Request, Pairs, Within
  \* A step of one request that mints nothing, or one pair.
  <1>1. ASSUME NEW r \in Requests, req' \in [Requests -> Request], Alone(r),
               screen' \in {"login", "app"}, together' \in BOOLEAN, broken' \in BOOLEAN,
               turned' \in BOOLEAN,
               jar' \in [access : 0 .. issued', refresh : 0 .. issued'],
               UNCHANGED <<lapsed, aged, active>>,
               issued' = issued \/ (issued' = issued + 1 /\ issued < MaxPairs),
               spent' \subseteq spent \cup (1 .. issued),
               broken => broken', req'[r].refresh <= issued, req'[r].new <= issued', Placed(r)'
        PROVE  IndType'
    <2>0. issued' \in 0 .. MaxPairs /\ issued <= issued' /\ issued' \in Nat
      BY <1>0, <1>1
    <2>1. TypeOK'
      <3>1. jar' \in [access : Pairs, refresh : Pairs]
        BY <1>0, <1>1, <2>0 DEF Pairs
      <3>2. lapsed' \in 0 .. issued' /\ aged' \in 0 .. lapsed' /\ spent' \subseteq 1 .. issued'
        BY <1>0, <1>1, <2>0 DEF IndType, TypeOK
      <3>3. active' \in BOOLEAN
        BY <1>1 DEF IndType, TypeOK
      <3> QED  BY <1>1, <2>0, <3>1, <3>2, <3>3 DEF TypeOK, Request, Pairs
    <2>2. Within'
      <3>1. jar'.access <= issued' /\ jar'.refresh <= issued'
        BY <1>1, <2>0
      <3>2. ASSUME NEW q \in Requests
            PROVE  req'[q].refresh <= issued' /\ req'[q].new <= issued'
        <4>1. CASE q = r
          <5>1. req'[r].refresh \in Nat /\ req'[r].new \in Nat
            BY <1>0, <1>1 DEF Request, Pairs
          <5> QED  BY <1>0, <1>1, <2>0, <4>1, <5>1
        <4>2. CASE q # r
          BY <1>0, <1>1, <2>0, <4>2 DEF Alone
        <4> QED  BY <4>1, <4>2
      <3> QED  BY <3>1, <3>2 DEF Within
    <2>3. \A q \in Requests : Placed(q)'
      BY <1>0, <1>1 DEF Placed, Due, Alone
    <2> QED  BY <2>1, <2>2, <2>3 DEF IndType
  <1>2. ASSUME NEW r \in Requests, NEW kind \in Kinds,
               Ask(r, kind) \/ (AskAgain(r) /\ kind = "read")
        PROVE  IndType'
    <2>1. /\ req' \in [Requests -> Request] /\ Alone(r)
          /\ req'[r].at = "sent" /\ req'[r].effect = Keep
          /\ req'[r].refresh = jar.refresh /\ req'[r].new = 0 /\ req'[r].runs = 0
      BY <1>2, Askings
    <2>2. UNCHANGED <<screen, jar, tokens, active, broken, turned>> /\ together' \in BOOLEAN
      BY <1>2 DEF Ask, AskAgain, IndType, TypeOK
    <2>3. Placed(r)'
      BY <2>1 DEF Placed, Due
    <2> QED  BY <1>0, <1>1, <2>1, <2>2, <2>3 DEF tokens, IndType, TypeOK
  <1>3. ASSUME NEW r \in Requests, Arrive(r) \/ Lose(r) PROVE IndType'
    <2>1. /\ req' \in [Requests -> Request] /\ Alone(r)
          /\ req'[r].at \in {"again", "done"}
          /\ req'[r].refresh = req[r].refresh /\ req'[r].new = req[r].new
          /\ req'[r].runs = req[r].runs
      BY <1>3, Endings
    <2>2. UNCHANGED <<tokens, active, together, turned>>
      BY <1>3 DEF Arrive, Lose
    <2>3. broken' \in BOOLEAN /\ (broken => broken') /\ together' \in BOOLEAN
          /\ turned' \in BOOLEAN
      BY <1>3 DEF Arrive, Lose, IndType, TypeOK
    <2>4. screen' \in {"login", "app"}
      BY <1>3 DEF Arrive, Lose, Shown, IndType, TypeOK
    <2>5. jar' \in [access : 0 .. issued, refresh : 0 .. issued]
      <3>1. jar \in [access : 0 .. issued, refresh : 0 .. issued]
        BY <1>0
      <3>2. \/ jar' = jar \/ jar' = [access |-> 0, refresh |-> 0]
            \/ jar' = [access |-> req[r].new, refresh |-> req[r].new]
        BY <1>3 DEF Arrive, Lose, Keep, Set, Clear
      <3> QED  BY <1>0, <3>1, <3>2
    <2>6. Placed(r)'
      BY <1>0, <2>1 DEF Placed, Due
    <2> QED  BY <1>0, <1>1, <2>1, <2>2, <2>3, <2>4, <2>5, <2>6 DEF tokens
  <1>4. ASSUME NEW r \in Requests,
               \/ Forward(r) \/ Refused(r) \/ Check(r) \/ Rotate(r) \/ Retry(r)
               \/ Login(r) \/ Logout(r) \/ Unreachable(r)
        PROVE  IndType'
    <2>1. /\ req' \in [Requests -> Request] /\ Alone(r)
          /\ req'[r].refresh = req[r].refresh /\ req'[r].kind = req[r].kind
          /\ req'[r].runs \in 0 .. 1
      BY <1>4, Goings DEF Goes
    <2>2. UNCHANGED <<screen, jar, lapsed, aged, active, together>>
      BY <1>4 DEF Forward, Refused, Check, Rotate, Retry, Login, Logout, Unreachable, tokens
    <2>3. broken' \in BOOLEAN /\ (broken => broken') /\ together' \in BOOLEAN
          /\ turned' \in BOOLEAN
      BY <1>4 DEF Forward, Refused, Check, Rotate, Retry, Login, Logout, Unreachable,
                  IndType, TypeOK
    <2>4. /\ issued' = issued \/ (issued' = issued + 1 /\ issued < MaxPairs)
          /\ req'[r].new \in {req[r].new, issued'}
      BY <1>4, Goings DEF Forward, Refused, Check, Rotate, Retry, Login, Logout, Unreachable,
                          tokens, Mint
    <2>5. spent' \subseteq spent \cup (1 .. issued)
      <3>1. Rotate(r) => req[r].refresh # 0
        BY <1>0 DEF Rotate, Placed
      <3>2. spent' = spent \/ (spent' = spent \cup {req[r].refresh} /\ req[r].refresh # 0)
        BY <1>4, <3>1 DEF Forward, Refused, Check, Rotate, Retry, Login, Logout, Unreachable, tokens
      <3> QED  BY <1>0, <3>2
    <2>6. Placed(r)'
      <3>1. Placed(r) /\ req[r].kind \in Kinds
        BY <1>0 DEF Request
      <3>2. CASE Forward(r)
        BY <3>1, <3>2, Goings DEF Goes, Placed, Due, Forward, Calls, Keep, Set, Clear
      <3>3. CASE Refused(r) \/ Check(r) \/ Rotate(r) \/ Retry(r)
        <4>1. req[r].kind \in Calls /\ (Check(r) => req[r].refresh # 0)
          BY <1>0, <3>1, <3>3 DEF Placed, Refused, Check, Rotate, Retry, Usable, IndType, TypeOK
        <4> QED  BY <3>3, <4>1, Goings DEF Goes, Placed, Due, Calls, Keep, Set, Clear
      <3>4. CASE Login(r)
        <4>1. req'[r].kind = "login" /\ req'[r].at = "answer" /\ req'[r].runs = 0
          BY <3>4, Goings DEF Goes, Login
        <4>2. req'[r].status = "ok" <=> req'[r].effect = Set
          BY <3>4, Goings DEF Goes, Keep, Set
        <4> QED  BY <4>1, <4>2 DEF Placed, Due
      <3>5. CASE Logout(r)
        <4>1. req'[r].kind = "logout" /\ req'[r].at = "answer" /\ req'[r].runs = 0
              /\ req'[r].effect = Clear
          BY <3>5, Goings DEF Goes, Logout
        <4> QED  BY <4>1 DEF Placed, Due
      <3>6. CASE Unreachable(r)
        <4>1. req[r].kind = "logout" => broken'
          BY <3>6 DEF Unreachable
        <4> QED  BY <3>6, <4>1, Goings DEF Goes, Placed, Due, Keep, Set, Clear
      <3> QED  BY <1>4, <3>2, <3>3, <3>4, <3>5, <3>6
    <2> QED  BY <1>0, <1>1, <2>1, <2>2, <2>3, <2>4, <2>5, <2>6 DEF IndType, TypeOK
  \* What happens around the requests.
  <1>5. ASSUME UNCHANGED <<req, issued, spent, together, broken, turned>>, screen' \in {"login", "app"},
               jar' \in [access : 0 .. issued, refresh : 0 .. issued],
               lapsed' \in 0 .. issued, aged' \in 0 .. lapsed', active' \in BOOLEAN
        PROVE  IndType'
    <2>1. TypeOK'
      <3>1. jar' \in [access : Pairs, refresh : Pairs]
        BY <1>0, <1>5 DEF Pairs
      <3>2. together' \in BOOLEAN /\ broken' \in BOOLEAN /\ turned' \in BOOLEAN
        BY <1>5 DEF IndType, TypeOK
      <3> QED  BY <1>0, <1>5, <3>1, <3>2 DEF IndType, TypeOK, Pairs
    <2>2. Within' /\ \A q \in Requests : Placed(q)'
      BY <1>0, <1>5 DEF Within, Placed, Due
    <2> QED  BY <2>1, <2>2 DEF IndType
  <1>6. ASSUME Navigate \/ CookieExpires \/ Lapse \/ Age \/ Switch \/ UNCHANGED vars
        PROVE  IndType'
    <2>1. jar \in [access : 0 .. issued, refresh : 0 .. issued]
      BY <1>0
    <2>2. jar' \in [access : 0 .. issued, refresh : 0 .. issued]
      <3>1. CASE CookieExpires
        BY <1>0, <2>1, <3>1 DEF CookieExpires
      <3>2. CASE jar' = jar
        BY <2>1, <3>2
      <3> QED  BY <1>6, <3>1, <3>2 DEF Navigate, Lapse, Age, Switch, vars
    <2>3. lapsed' \in 0 .. issued /\ aged' \in 0 .. lapsed'
      BY <1>0, <1>6 DEF Navigate, CookieExpires, Lapse, Age, Switch, vars, tokens, IndType, TypeOK
    <2>4. active' \in BOOLEAN
      BY <1>6 DEF Navigate, CookieExpires, Lapse, Age, Switch, vars, IndType, TypeOK
    <2>5. screen' \in {"login", "app"} /\ UNCHANGED <<req, issued, spent, together, broken, turned>>
      BY <1>6 DEF Navigate, CookieExpires, Lapse, Age, Switch, vars, tokens, IndType, TypeOK
    <2> QED  BY <1>5, <2>2, <2>3, <2>4, <2>5
  <1>7. "read" \in Kinds
    BY DEF Kinds
  <1> QED  BY <1>2, <1>3, <1>4, <1>6, <1>7 DEF Next, Step

\* Every variable keeps its type, however many requests are out at once.
THEOREM TypeCorrect == Spec => []TypeOK
  <1>1. IndType => TypeOK
    BY DEF IndType
  <1> QED  BY <1>1, TypeInit, TypeStep, PTL DEF Spec

\* A write reaches its view at most once, whatever is repeated.
THEOREM RunsOnceCorrect == Spec => []RunsOnce
  <1>1. IndType => RunsOnce
    BY DEF IndType, RunsOnce, Placed
  <1> QED  BY <1>1, TypeInit, TypeStep, PTL DEF Spec

-----------------------------------------------------------------------------
(* Requests that overlap *)

\* An answer that will change the cookies, and one that brings a new pair.
Pending(r) == Due(r) /\ req[r].effect # Keep
Bringing(r) == Due(r) /\ req[r].effect = Set

\* A pair on its way to the browser has been used by nobody yet.
Unused ==
    \A r \in Requests : Bringing(r) =>
        /\ req[r].new # 0 /\ req[r].new \notin spent /\ req[r].new # jar.refresh
        /\ \A q \in Requests : req[q].refresh # req[r].new
        /\ \A q \in Requests \ {r} : Bringing(q) => req[q].new # req[r].new

\* While the browser holds a token that is out of use, the answer that takes it
\* away is on its way.
Replaced == jar.refresh \in spent /\ ~broken => \E r \in Requests : Pending(r)

Overlap == Unused /\ Replaced

\* What a step of the handler of r does to the tokens out of use and to its own
\* new pair: nothing but for a pair that nobody has seen.
LEMMA OverlapStep == IndType /\ Overlap /\ [Next]_vars => Overlap'
  <1> SUFFICES ASSUME IndType, Unused, Replaced, [Next]_vars PROVE Overlap'
    BY DEF Overlap
  <1>0. /\ issued \in Nat /\ spent \subseteq 1 .. issued
        /\ jar.refresh \in 0 .. issued
        /\ \A r \in Requests : req[r].refresh \in 0 .. issued /\ req[r].new \in 0 .. issued
        /\ \A r \in Requests : Placed(r)
    BY SessionAssumption DEF IndType, TypeOK, Within, Pairs
  \* r is not, or no longer, bringing anything.
  <1>1. ASSUME NEW r \in Requests, Alone(r), ~Bringing(r)', spent' \subseteq spent \cup {req[r].refresh},
               \/ jar'.refresh \in {jar.refresh, 0}
               \/ jar'.refresh = req[r].new /\ Bringing(r),
               req'[r].refresh \in {jar.refresh, req[r].refresh}
        PROVE  Unused'
    <2> SUFFICES ASSUME NEW p \in Requests, Bringing(p)'
                 PROVE  /\ req'[p].new # 0 /\ req'[p].new \notin spent'
                        /\ req'[p].new # jar'.refresh
                        /\ \A q \in Requests : req'[q].refresh # req'[p].new
                        /\ \A q \in Requests \ {p} : Bringing(q)' => req'[q].new # req'[p].new
      BY DEF Unused
    <2>1. p # r /\ req'[p] = req[p] /\ Bringing(p)
      BY <1>1 DEF Alone, Bringing, Due
    <2>2. \A q \in Requests \ {p} : Bringing(q)' => Bringing(q) /\ req'[q] = req[q]
      BY <1>1 DEF Alone, Bringing, Due
    <2> QED  BY <1>1, <2>1, <2>2 DEF Unused, Alone
  \* The pair r brings has just been minted.
  <1>2. ASSUME NEW r \in Requests, Alone(r), req'[r].new = issued + 1, jar' = jar,
               req'[r].refresh = req[r].refresh, spent' \subseteq spent \cup {req[r].refresh}
        PROVE  Unused'
    <2> SUFFICES ASSUME NEW p \in Requests, Bringing(p)'
                 PROVE  /\ req'[p].new # 0 /\ req'[p].new \notin spent'
                        /\ req'[p].new # jar'.refresh
                        /\ \A q \in Requests : req'[q].refresh # req'[p].new
                        /\ \A q \in Requests \ {p} : Bringing(q)' => req'[q].new # req'[p].new
      BY DEF Unused
    <2>0. \A q \in Requests : req'[q].refresh = req[q].refresh
      BY <1>2 DEF Alone
    <2>1. \A q \in Requests \ {r} : req'[q] = req[q] /\ (Bringing(q)' <=> Bringing(q))
      BY <1>2 DEF Alone, Bringing, Due
    <2>2. CASE p = r
      BY <1>0, <1>2, <2>0, <2>1, <2>2
    <2>3. CASE p # r
      BY <1>0, <1>2, <2>0, <2>1, <2>3 DEF Unused
    <2> QED  BY <2>2, <2>3
  \* r goes on bringing what it brings.
  <1>3. ASSUME NEW r \in Requests, Alone(r), Bringing(r), req'[r].new = req[r].new, jar' = jar,
               req'[r].refresh = req[r].refresh, spent' = spent
        PROVE  Unused'
    <2>1. \A q \in Requests : /\ req'[q].refresh = req[q].refresh /\ req'[q].new = req[q].new
                              /\ Bringing(q)' => Bringing(q)
      BY <1>3 DEF Alone, Bringing, Due
    <2> QED  BY <1>3, <2>1 DEF Unused
  <1>4. ASSUME NEW r \in Requests, Alone(r), Pending(r)' PROVE Replaced'
    BY <1>4 DEF Replaced
  <1>5. ASSUME NEW r \in Requests, Alone(r), ~Pending(r) \/ broken',
               jar'.refresh = jar.refresh, spent' = spent, broken => broken'
        PROVE  Replaced'
    <2> SUFFICES ASSUME jar'.refresh \in spent', ~broken' PROVE \E q \in Requests : Pending(q)'
      BY DEF Replaced
    <2>1. PICK q \in Requests : Pending(q)
      BY <1>5 DEF Replaced
    <2> QED  BY <1>5, <2>1 DEF Alone, Pending, Due
  <1>6. ASSUME NEW r \in Requests, NEW kind \in Kinds,
               Ask(r, kind) \/ (AskAgain(r) /\ kind = "read")
        PROVE  Overlap'
    <2>1. Alone(r) /\ req'[r].at = "sent" /\ req'[r].refresh = jar.refresh
      BY <1>6, Askings
    <2>2. jar' = jar /\ spent' = spent /\ broken' = broken /\ ~Pending(r)
      BY <1>6 DEF Ask, AskAgain, tokens, Pending, Due
    <2> QED  BY <1>1, <1>5, <2>1, <2>2 DEF Overlap, Bringing, Due
  <1>7. ASSUME NEW r \in Requests, Arrive(r) \/ Lose(r) PROVE Overlap'
    <2>1. Alone(r) /\ req'[r].at \in {"again", "done"} /\ req'[r].refresh = req[r].refresh
      BY <1>7, Endings
    <2>2. spent' = spent /\ (broken => broken') /\ Due(r)
      <3>1. spent' = spent /\ Due(r)
        BY <1>7 DEF Arrive, Lose, tokens, Due
      <3>2. broken => broken'
        BY <1>7, Zenon DEF Arrive, Lose
      <3> QED  BY <3>1, <3>2
    <2>3. CASE Lose(r)
      <3>1. jar' = jar /\ (~Pending(r) \/ broken')
        BY <2>3, Zenon DEF Lose, Pending
      <3> QED  BY <1>1, <1>5, <2>1, <2>2, <3>1 DEF Overlap, Bringing, Due
    <2>4. CASE Arrive(r) /\ req[r].effect = Set
      <3>0. jar' = [access |-> req[r].new, refresh |-> req[r].new]
        BY <2>4 DEF Arrive, Set, Clear
      <3>1. jar'.refresh = req[r].new /\ Bringing(r)
        BY <2>2, <2>4, <3>0 DEF Bringing
      <3>2. jar'.refresh \notin spent'
        BY <2>2, <3>1 DEF Unused
      <3> QED  BY <1>1, <2>1, <2>2, <3>1, <3>2 DEF Overlap, Replaced, Bringing, Due
    <2>5. CASE Arrive(r) /\ req[r].effect = Clear
      <3>1. jar'.refresh = 0 /\ jar'.refresh \notin spent'
        BY <1>0, <2>2, <2>5 DEF Arrive, Set, Clear
      <3> QED  BY <1>1, <2>1, <2>2, <3>1 DEF Overlap, Replaced, Bringing, Due
    <2>6. CASE Arrive(r) /\ req[r].effect = Keep
      <3>1. jar' = jar /\ ~Pending(r)
        BY <2>6 DEF Arrive, Set, Clear, Keep, Pending
      <3> QED  BY <1>1, <1>5, <2>1, <2>2, <3>1 DEF Overlap, Bringing, Due
    <2>7. req[r].effect \in {Keep, Set, Clear}
      BY DEF IndType, TypeOK
    <2> QED  BY <1>7, <2>3, <2>4, <2>5, <2>6, <2>7
  <1>8. ASSUME NEW r \in Requests, Forward(r) \/ Refused(r) \/ Check(r) \/ Unreachable(r)
        PROVE  Overlap'
    <2>1. Alone(r) /\ req'[r].refresh = req[r].refresh /\ req'[r].effect # Set
      BY <1>8, Goings DEF Goes, Keep, Set, Clear
    <2>2. jar' = jar /\ spent' = spent
      BY <1>8 DEF Forward, Refused, Check, Unreachable, tokens
    <2>3. (broken => broken') /\ (req[r].at = "retry" => broken')
      BY <1>8 DEF Forward, Refused, Check, Unreachable, IndType, TypeOK
    <2>4. ~Pending(r) \/ broken'
      <3>1. req[r].at \in {"sent", "refresh", "retry"}
        BY <1>8 DEF Forward, Refused, Check, Unreachable
      <3> QED  BY <2>3, <3>1 DEF Pending, Due
    <2> QED  BY <1>1, <1>5, <2>1, <2>2, <2>3, <2>4 DEF Overlap, Bringing
  <1>9. ASSUME NEW r \in Requests, Retry(r) PROVE Overlap'
    <2>1. Alone(r) /\ req'[r].refresh = req[r].refresh /\ req'[r].new = req[r].new
          /\ req'[r].effect = Set /\ req'[r].at = "answer"
      BY <1>9, Goings DEF Goes
    <2>2. jar' = jar /\ spent' = spent /\ Bringing(r)
      BY <1>0, <1>9 DEF Retry, tokens, Bringing, Due, Placed
    <2> QED  BY <1>3, <1>4, <2>1, <2>2 DEF Overlap, Pending, Due, Keep, Set
  <1>10. ASSUME NEW r \in Requests, Rotate(r) PROVE Overlap'
    <2>1. Alone(r) /\ req'[r].refresh = req[r].refresh /\ req'[r].new = issued + 1
          /\ req'[r].effect = Set /\ req'[r].at = "retry"
      BY <1>10, Goings DEF Goes
    <2>2. jar' = jar /\ spent' = spent \cup {req[r].refresh}
      BY <1>10 DEF Rotate
    <2> QED  BY <1>2, <1>4, <2>1, <2>2 DEF Overlap, Pending, Due, Keep, Set
  <1>11. ASSUME NEW r \in Requests, Login(r) PROVE Overlap'
    <2>1. jar' = jar /\ spent' = spent /\ broken' = broken /\ ~Pending(r)
      BY <1>11 DEF Login, Pending, Due
    <2>2. CASE Goes(r, "answer", Set) /\ req'[r].new = issued + 1
      BY <1>2, <1>4, <2>1, <2>2 DEF Overlap, Goes, Pending, Due, Keep, Set
    <2>3. CASE Goes(r, "answer", Keep)
      BY <1>1, <1>5, <2>1, <2>3 DEF Overlap, Goes, Bringing, Keep, Set
    <2> QED  BY <1>11, <2>2, <2>3, Goings
  <1>12. ASSUME NEW r \in Requests, Logout(r) PROVE Overlap'
    <2>1. Alone(r) /\ req'[r].refresh = req[r].refresh
          /\ req'[r].effect = Clear /\ req'[r].at = "answer"
      BY <1>12, Goings DEF Goes
    <2>2. jar' = jar /\ spent' \subseteq spent \cup {req[r].refresh}
      BY <1>12 DEF Logout
    <2> QED  BY <1>1, <1>4, <2>1, <2>2 DEF Overlap, Pending, Bringing, Due, Keep, Set, Clear
  <1>13. ASSUME Navigate \/ CookieExpires \/ Lapse \/ Age \/ Switch \/ UNCHANGED vars
         PROVE  Overlap'
    <2>1. UNCHANGED <<req, spent, broken>>
      BY <1>13 DEF Navigate, CookieExpires, Lapse, Age, Switch, vars, tokens
    <2>2. jar'.refresh = jar.refresh
      BY <1>13 DEF Navigate, CookieExpires, Lapse, Age, Switch, vars, IndType, TypeOK
    <2> QED  BY <2>1, <2>2 DEF Overlap, Unused, Replaced, Pending, Bringing, Due
  <1>14. "read" \in Kinds
    BY DEF Kinds
  <1> QED  BY <1>6, <1>7, <1>8, <1>9, <1>10, <1>11, <1>12, <1>13, <1>14 DEF Next, Step

LEMMA OverlapInit == Init => Overlap
  BY DEF Init, Overlap, Unused, Replaced, Bringing, Due, Idle

\* However many requests overlap and in whatever order their answers come back,
\* a browser with nothing out and no broken call holds no token that Django has
\* taken out of use.
THEOREM HeldTokenWorksCorrect == Spec => []HeldTokenWorks
  <1>1. IndType /\ Overlap => HeldTokenWorks
    BY DEF Overlap, Replaced, Pending, Due, HeldTokenWorks, Quiet, Out
  <1> QED  BY <1>1, TypeInit, TypeStep, OverlapInit, OverlapStep, PTL DEF Spec

-----------------------------------------------------------------------------
(* One request at a time *)

Worn(n) == \A k \in 1 .. n : ~Usable(k)

\* Nothing is due: the browser holds the last pair or none, no other pair is of
\* any use, and what it shows goes with what it holds.
Orderly ==
    /\ jar.refresh \in {0, issued}
    /\ \A n \in 1 .. issued : n # jar.refresh => ~Usable(n)
    /\ screen = "login" => jar.refresh = 0
    /\ screen = "app" /\ jar.refresh = 0 => aged = issued

\* The one request that is out carries what the browser holds; a new pair on its
\* way is the last, and cookies are cleared only when no pair is of any use.
Mine(r) ==
    /\ req[r].refresh = jar.refresh
    /\ req[r].kind = "login" => jar.refresh = 0
    /\ Bringing(r) =>
          /\ req[r].new = issued /\ Worn(issued - 1)
          /\ req[r].kind = "login" \/ (screen = "app" /\ jar.refresh # 0)
    /\ Pending(r) /\ ~Bringing(r) =>
          /\ Worn(issued)
          /\ req[r].kind = "logout" \/ aged = issued \/ (screen = "login" /\ jar.refresh = 0)

Lone ==
    /\ \A r, q \in Out : r = q
    /\ \A r \in Out : Mine(r)
    /\ (\A r \in Requests : ~Pending(r)) => Orderly

Single == ~together /\ ~broken /\ ~turned => Lone

LEMMA SingleStep == IndType /\ Replaced /\ Single /\ [Next]_vars => Single'
  <1> SUFFICES ASSUME IndType, Replaced, Single, [Next]_vars, ~together', ~broken', ~turned'
               PROVE  Lone'
    BY DEF Single
  <1>0. /\ issued \in Nat /\ spent \subseteq 1 .. issued /\ aged \in 0 .. issued
        /\ jar.refresh \in 0 .. issued /\ jar \in [access : Pairs, refresh : Pairs]
        /\ screen \in {"login", "app"}
        /\ \A r \in Requests : /\ Placed(r) /\ req[r].refresh \in 0 .. issued
                               /\ req[r].effect \in {Keep, Set, Clear}
    BY SessionAssumption DEF IndType, TypeOK, Within, Pairs
  <1>1. ASSUME NEW r \in Requests, Out \subseteq {r}, Alone(r),
               r \in Out' => Mine(r)', ~Pending(r)' => Orderly'
        PROVE  Lone'
    <2>1. Out' \subseteq {r}
      BY <1>1 DEF Alone, Out
    <2> QED  BY <1>1, <2>1 DEF Lone
  \* Nothing is due: the browser's token has not been taken out of use.
  <1>2. ASSUME NEW r \in Requests, Out \subseteq {r}, ~Pending(r), ~broken, Lone
        PROVE  Orderly /\ jar.refresh \notin spent
    <2>1. \A q \in Requests : ~Pending(q)
      BY <1>2 DEF Pending, Due, Out
    <2> QED  BY <1>2, <2>1 DEF Lone, Replaced
  <1>3. ASSUME NEW r \in Requests, NEW kind \in Kinds,
               Ask(r, kind) \/ (AskAgain(r) /\ kind = "read")
        PROVE  Lone'
    <2>1. /\ Alone(r) /\ req'[r].at = "sent" /\ req'[r].kind = kind
          /\ req'[r].refresh = jar.refresh
      BY <1>3, Askings
    <2>2. /\ UNCHANGED <<screen, jar, issued, aged, spent, broken, turned>>
          /\ together' = (together \/ ~Quiet)
      BY <1>3 DEF Ask, AskAgain, tokens
    <2>3. Out = {} /\ ~together /\ ~broken /\ Lone
      BY <2>2, Zenon DEF Quiet, Single
    <2>4. Orderly /\ ~Pending(r)
      <3>1. ~Pending(r)
        BY <2>3 DEF Pending, Due, Out
      <3> QED  BY <1>2, <2>3, <3>1
    <2>5. Orderly'
      BY <2>2, <2>4 DEF Orderly, Usable
    <2>6. kind = "login" => jar.refresh = 0
      BY <1>3, <2>4 DEF Ask, Orderly
    <2>7. Mine(r)'
      BY <2>1, <2>2, <2>6 DEF Mine, Pending, Bringing, Due
    <2> QED  BY <1>1, <2>1, <2>3, <2>5, <2>7
  <1>4. ASSUME NEW r \in Requests, Arrive(r) \/ Lose(r) PROVE Lone'
    <2>1. /\ Alone(r) /\ req'[r].at \in {"again", "done"}
      BY <1>4, Endings
    <2>2. /\ UNCHANGED <<issued, aged, spent, turned>> /\ together' = together /\ req[r].at = "answer"
      BY <1>4 DEF Arrive, Lose, tokens
    <2>3. ~together /\ ~broken /\ ~turned /\ (Lose(r) => req[r].effect = Keep)
      <3>1. Arrive(r) => broken' = broken
        BY DEF Arrive
      <3>2. ASSUME Lose(r) PROVE ~broken /\ req[r].effect = Keep
        BY <3>2, Zenon DEF Lose
      <3> QED  BY <1>4, <2>2, <3>1, <3>2
    <2>4. Lone /\ Out \subseteq {r} /\ r \in Out /\ Mine(r)
      <3>1. Lone
        BY <2>3 DEF Single
      <3>2. r \in Out
        BY <2>2 DEF Out
      <3> QED  BY <3>1, <3>2 DEF Lone
    <2>5. Placed(r) /\ Due(r) /\ req[r].effect \in {Keep, Set, Clear}
      BY <1>0, <2>2 DEF Due
    <2>6. CASE req[r].effect = Keep
      <3>1. Orderly
        BY <1>2, <2>3, <2>4, <2>6 DEF Pending
      <3>2. req[r].kind # "logout" /\ ~(req[r].kind = "login" /\ req[r].status = "ok")
        BY <2>3, <2>5, <2>6 DEF Placed, Keep, Set, Clear
      <3>3. jar' = jar /\ screen' = screen
        BY <1>4, <2>6, <3>2 DEF Arrive, Lose, Shown, Keep, Set, Clear
      <3>4. Orderly'
        BY <2>2, <3>1, <3>3 DEF Orderly, Usable
      <3> QED  BY <1>1, <2>1, <2>4, <3>4 DEF Out
    <2>7. CASE req[r].effect = Set
      <3>0. Arrive(r) /\ Bringing(r) /\ Pending(r)
        BY <1>4, <2>3, <2>5, <2>7 DEF Keep, Set, Bringing, Pending
      <3>1. jar' = [access |-> req[r].new, refresh |-> req[r].new]
        BY <2>7, <3>0 DEF Arrive, Set, Clear
      <3>2. jar'.refresh = issued /\ Worn(issued - 1)
        BY <2>4, <3>0, <3>1 DEF Mine
      <3>3. screen' = "app"
        <4>1. req[r].kind # "logout" /\ (req[r].kind = "login" => req[r].status = "ok")
          BY <2>3, <2>5, <2>7 DEF Placed, Keep, Set, Clear
        <4>2. req[r].kind # "login" => screen = "app"
          BY <2>4, <3>0 DEF Mine
        <4> QED  BY <3>0, <4>1, <4>2 DEF Arrive, Shown
      <3>4. Orderly'
        BY <1>0, <2>2, <3>2, <3>3 DEF Orderly, Worn, Usable
      <3> QED  BY <1>1, <2>1, <2>4, <3>4 DEF Out
    <2>8. CASE req[r].effect = Clear
      <3>0. Arrive(r) /\ Pending(r) /\ ~Bringing(r)
        BY <1>4, <2>3, <2>5, <2>8 DEF Keep, Set, Clear, Bringing, Pending
      <3>1. jar' = [access |-> 0, refresh |-> 0]
        BY <2>8, <3>0 DEF Arrive, Set, Clear
      <3>2. Worn(issued)
        BY <2>4, <3>0 DEF Mine
      <3>3. screen' = "login" \/ aged = issued
        <4>1. ~(req[r].kind = "login" /\ req[r].status = "ok")
          BY <2>5, <2>8 DEF Placed, Set, Clear
        <4> QED  BY <2>4, <3>0, <4>1 DEF Mine, Arrive, Shown
      <3>4. Orderly'
        BY <1>0, <2>2, <3>1, <3>2, <3>3 DEF Orderly, Worn, Usable
      <3> QED  BY <1>1, <2>1, <2>4, <3>4 DEF Out
    <2> QED  BY <2>5, <2>6, <2>7, <2>8
  \* The handler of the one request that is out.
  <1>5. ASSUME NEW r \in Requests,
               \/ Forward(r) \/ Refused(r) \/ Check(r) \/ Rotate(r) \/ Retry(r)
               \/ Login(r) \/ Logout(r) \/ Unreachable(r)
        PROVE  Lone'
    <2>1. /\ Alone(r) /\ req'[r].refresh = req[r].refresh /\ req'[r].kind = req[r].kind
      BY <1>5, Goings DEF Goes
    <2>2. UNCHANGED <<screen, jar, aged>> /\ together' = together
      BY <1>5 DEF Forward, Refused, Check, Rotate, Retry, Login, Logout, Unreachable, tokens
    <2>2a. ~turned
      <3>1. Refused(r) => ~turned
        BY Zenon DEF Refused
      <3>2. Logout(r) => ~turned
        BY Zenon DEF Logout
      <3>3. Forward(r) \/ Check(r) \/ Rotate(r) \/ Retry(r) \/ Login(r) \/ Unreachable(r)
            => turned' = turned
        BY DEF Forward, Check, Rotate, Retry, Login, Unreachable
      <3> QED  BY <1>5, <3>1, <3>2, <3>3
    <2>3. ~together /\ ~broken
          /\ (Unreachable(r) => req[r].at # "retry" /\ req[r].kind # "logout")
      <3>1. ~Unreachable(r) => broken' = broken
        BY <1>5 DEF Forward, Refused, Check, Rotate, Retry, Login, Logout
      <3>2. ASSUME Unreachable(r) PROVE ~broken /\ req[r].at # "retry" /\ req[r].kind # "logout"
        BY <3>2, Zenon DEF Unreachable
      <3> QED  BY <2>2, <3>1, <3>2
    <2>4. Lone /\ Out \subseteq {r} /\ Mine(r)
      <3>1. Lone
        BY <2>3, <2>2a DEF Single
      <3>2. r \in Out
        BY <1>5 DEF Out, Forward, Refused, Check, Rotate, Retry, Login, Logout, Unreachable
      <3> QED  BY <3>1, <3>2 DEF Lone
    <2>5. req'[r].refresh = jar'.refresh /\ (req'[r].kind = "login" => jar'.refresh = 0)
      BY <2>1, <2>2, <2>4 DEF Mine
    <2>6. ~Retry(r) => Orderly /\ jar.refresh \notin spent
      <3>1. ~Retry(r) => ~Pending(r)
        BY <1>5, <2>3 DEF Forward, Refused, Check, Rotate, Login, Logout, Unreachable,
                          Pending, Due
      <3> QED  BY <1>2, <2>3, <2>4, <3>1
    \* The answer will leave the cookies alone, or the handler goes on.
    <2>7. ASSUME ~Retry(r), req'[r].effect = Keep, issued' = issued, spent' = spent
          PROVE  Lone'
      <3>1. Orderly'
        BY <2>2, <2>6, <2>7 DEF Orderly, Usable
      <3>2. Mine(r)'
        BY <2>5, <2>7 DEF Mine, Pending, Bringing, Keep, Set
      <3> QED  BY <1>1, <2>1, <2>4, <3>1, <3>2
    <2>8. CASE Forward(r) \/ Check(r) \/ Unreachable(r)
      <3>1. req'[r].effect = Keep /\ issued' = issued /\ spent' = spent
        BY <2>8, Goings DEF Goes, Forward, Check, Unreachable, tokens
      <3>2. ~Retry(r)
        BY <2>3, <2>8 DEF Forward, Check, Unreachable, Retry
      <3> QED  BY <2>7, <3>1, <3>2
    <2>9. CASE Refused(r)
      <3>1. req'[r].effect = Clear /\ req'[r].at = "answer" /\ issued' = issued /\ spent' = spent
        BY <2>9, Goings DEF Goes, Refused, tokens
      <3>2. Orderly /\ jar.refresh \notin spent
        BY <2>6, <2>9 DEF Refused, Retry
      <3>3. jar.refresh <= aged
        <4>1. ~Usable(req[r].refresh)
          BY <2>9, Zenon DEF Refused
        <4> QED  BY <1>0, <2>4, <3>2, <4>1 DEF Usable, Mine
      <3>4. Worn(issued) /\ (aged = issued \/ (screen = "login" /\ jar.refresh = 0))
        BY <1>0, <3>2, <3>3 DEF Orderly, Worn, Usable
      <3>5. Mine(r)' /\ Pending(r)'
        BY <2>2, <2>5, <3>1, <3>4 DEF Mine, Pending, Bringing, Due, Worn, Usable, Keep, Set, Clear
      <3> QED  BY <1>1, <2>1, <2>4, <3>5
    <2>10. CASE Rotate(r)
      <3>1. /\ req'[r].effect = Set /\ req'[r].at = "retry" /\ req'[r].new = issued + 1
            /\ issued' = issued + 1 /\ spent' = spent \cup {req[r].refresh}
        BY <2>10, Goings DEF Goes, Rotate, Mint
      <3>2. Orderly /\ jar.refresh # 0 /\ req[r].refresh = jar.refresh
        BY <1>0, <2>4, <2>6, <2>10 DEF Rotate, Retry, Placed, Mine
      <3>3. jar.refresh = issued /\ screen = "app"
        BY <1>0, <3>2 DEF Orderly
      <3>4. Worn(issued - 1)'
        BY <1>0, <2>2, <3>1, <3>2, <3>3 DEF Orderly, Worn, Usable
      <3>5. Mine(r)' /\ Pending(r)'
        BY <2>2, <2>5, <3>1, <3>2, <3>3, <3>4 DEF Mine, Pending, Bringing, Due, Keep, Set
      <3> QED  BY <1>1, <2>1, <2>4, <3>5
    <2>11. CASE Retry(r)
      <3>1. /\ req'[r].effect = Set /\ req'[r].at = "answer" /\ req'[r].new = req[r].new
            /\ issued' = issued /\ spent' = spent
        BY <2>11, Goings DEF Goes, Retry, tokens
      <3>2. Bringing(r)
        BY <1>0, <2>11 DEF Retry, Bringing, Due, Placed
      <3>3. Mine(r)' /\ Pending(r)'
        BY <2>1, <2>2, <2>4, <2>5, <3>1, <3>2
           DEF Mine, Pending, Bringing, Due, Worn, Usable, Keep, Set
      <3> QED  BY <1>1, <2>1, <2>4, <3>3
    <2>12. CASE Login(r)
      <3>0. ~Retry(r) /\ req[r].kind = "login" /\ spent' = spent
        BY <2>12 DEF Login, Retry
      <3>1. CASE /\ Goes(r, "answer", Set) /\ issued' = issued + 1
                 /\ req'[r].new = issued + 1
        <4>1. jar.refresh = 0 /\ Orderly
          BY <2>4, <2>6, <3>0 DEF Mine
        <4>2. Worn(issued - 1)'
          BY <1>0, <2>2, <3>0, <3>1, <4>1 DEF Orderly, Worn, Usable
        <4>3. Mine(r)' /\ Pending(r)'
          BY <2>1, <2>5, <3>0, <3>1, <4>2 DEF Goes, Mine, Pending, Bringing, Due, Keep, Set
        <4> QED  BY <1>1, <2>1, <2>4, <4>3
      <3>2. CASE Goes(r, "answer", Keep) /\ issued' = issued
        BY <2>7, <3>0, <3>2 DEF Goes
      <3> QED  BY <2>12, <3>1, <3>2, Goings
    <2>13. CASE Logout(r)
      <3>1. /\ req'[r].effect = Clear /\ req'[r].at = "answer" /\ issued' = issued
            /\ req[r].kind = "logout" /\ ~Retry(r)
        BY <2>13, Goings DEF Goes, Logout, Retry
      <3>0. spent' = IF req[r].refresh = 0 THEN spent ELSE spent \cup {req[r].refresh}
        BY <2>13, Zenon DEF Logout
      <3>2. Orderly /\ req[r].refresh = jar.refresh
        BY <2>4, <2>6, <3>1 DEF Mine
      <3>3. Worn(issued)'
        BY <1>0, <2>2, <3>0, <3>1, <3>2 DEF Orderly, Worn, Usable
      <3>4. Mine(r)' /\ Pending(r)'
        BY <2>1, <2>5, <3>1, <3>3 DEF Mine, Pending, Bringing, Due, Keep, Set, Clear
      <3> QED  BY <1>1, <2>1, <2>4, <3>4
    <2> QED  BY <1>5, <2>8, <2>9, <2>10, <2>11, <2>12, <2>13
  <1>6. ASSUME Navigate \/ CookieExpires \/ Lapse \/ Age \/ Switch \/ UNCHANGED vars
        PROVE  Lone'
    <2>1. UNCHANGED <<req, issued, spent, together, broken, turned>>
      BY <1>6 DEF Navigate, CookieExpires, Lapse, Age, Switch, vars, tokens
    <2>2. jar'.refresh = jar.refresh
      BY <1>0, <1>6 DEF Navigate, CookieExpires, Lapse, Age, Switch, vars
    <2>3. aged' = aged \/ (aged' = aged + 1 /\ aged < issued)
      BY <1>0, <1>6 DEF Navigate, CookieExpires, Lapse, Age, Switch, vars, tokens, IndType, TypeOK
    <2>4. screen' = screen \/ screen' = IF jar.refresh = 0 THEN "login" ELSE "app"
      BY <1>6 DEF Navigate, CookieExpires, Lapse, Age, Switch, vars
    <2>5. Lone
      BY <2>1 DEF Single
    <2>6. \A n : ~Usable(n) /\ n \in Int => ~Usable(n)'
      BY <1>0, <2>1, <2>3 DEF Usable
    <2>7. \A n \in Nat : Worn(n) => Worn(n)'
      BY <2>6 DEF Worn
    <2>8. Orderly => Orderly'
      BY <1>0, <2>1, <2>2, <2>3, <2>4, <2>6 DEF Orderly
    <2>9. ASSUME NEW r \in Requests, Mine(r) PROVE Mine(r)'
      BY <1>0, <2>1, <2>2, <2>3, <2>4, <2>6, <2>9 DEF Mine, Worn, Pending, Bringing, Due
    <2>10. Out' = Out /\ \A r \in Requests : Pending(r)' <=> Pending(r)
      BY <2>1 DEF Out, Pending, Due
    <2>11. Out \subseteq Requests
      BY DEF Out
    <2> QED  BY <2>5, <2>8, <2>9, <2>10, <2>11 DEF Lone
  <1>7. "read" \in Kinds
    BY DEF Kinds
  <1> QED  BY <1>3, <1>4, <1>5, <1>6, <1>7 DEF Next, Step

LEMMA SingleInit == Init => Single
  BY SessionAssumption DEF Init, Single, Lone, Mine, Out, Orderly, Pending, Bringing, Due, Idle

LEMMA SingleAlways == Spec => [](IndType /\ Replaced /\ Single)
  <1>1. IndType /\ Overlap => Replaced
    BY DEF Overlap
  <1> QED  BY <1>1, TypeInit, TypeStep, OverlapInit, OverlapStep, SingleInit, SingleStep,
              PTL DEF Spec

LEMMA CalmIsOrderly == Single /\ Quiet /\ ~together /\ ~broken /\ ~turned => Orderly
  BY DEF Single, Lone, Quiet, Out, Pending, Due

\* One request at a time, and no refresh turned away without a look at its token:
\* a screen of the app is never left without a refresh cookie before the seven
\* days of the last pair are over.
THEOREM OneAtATimeStaysInCorrect == Spec => []OneAtATimeStaysIn
  <1>1. IndType /\ Replaced /\ Single => OneAtATimeStaysIn
    BY CalmIsOrderly DEF OneAtATimeStaysIn, Orderly
  <1> QED  BY <1>1, SingleAlways, PTL

\* One request at a time, and every sign-out taken by Django: when the browser is
\* back at the login page, no refresh token ever minted for it is of any use.
THEOREM SignOutRevokesCorrect == Spec => []SignOutRevokes
  <1>1. IndType /\ Replaced /\ Single => SignOutRevokes
    BY CalmIsOrderly DEF SignOutRevokes, Orderly
  <1> QED  BY <1>1, SingleAlways, PTL
=============================================================================
