------------------------------ MODULE Session ------------------------------
(***************************************************************************)
(* A signed-in browser.  The browser holds two cookies, a short access     *)
(* token and a refresh token; Next.js route handlers turn them into bearer *)
(* calls to Django, and trade the refresh token for a new pair when Django *)
(* answers 401 (src/frontend/app/api/proxy, app/media, app/api/auth,       *)
(* lib/server).  The refresh token is used once: Django rotates it and     *)
(* blacklists the old one.  A page asks for many things at once, so        *)
(* several requests may carry the same two cookies, and their answers come *)
(* back in any order or not at all.                                        *)
(*                                                                         *)
(* Pairs of tokens are numbered in the order Django mints them; 0 is no    *)
(* cookie.  All pairs live equally long, so the older lapse first and two  *)
(* counters tell which access and which refresh tokens have run out.       *)
(***************************************************************************)
EXTENDS Integers, FiniteSets

CONSTANTS Requests,   \* the requests the browser may send, each once
          MaxPairs    \* bound on the pairs of tokens minted

ASSUME SessionAssumption == MaxPairs \in Nat \ {0}

VARIABLES screen,     \* "login" or "app": what the browser shows
          jar,        \* the two cookies
          req,        \* every request, its handler included
          issued,     \* pairs minted so far
          lapsed,     \* access tokens 1..lapsed are past their fifteen minutes
          aged,       \* refresh tokens 1..aged are past their seven days
          spent,      \* refresh tokens on Django's blacklist
          active,     \* the account's is_active
          together,   \* two requests have been out at once
          broken,     \* a call failed, or its answer was lost, after cookies were due
          turned      \* a refresh or a sign-out was answered without a look at its token

vars == <<screen, jar, req, issued, lapsed, aged, spent, active, together, broken, turned>>

Kinds == {"read", "write", "media", "login", "logout"}
Pairs == 0 .. MaxPairs
Steps == {"idle", "sent", "refresh", "rotate", "retry", "answer", "again", "done"}

\* What a handler's answer does to the cookies: nothing, set a pair, clear them.
Keep == "keep"
Set == "set"
Clear == "clear"

Fresh(kind) ==
    [kind |-> kind, at |-> "sent", access |-> jar.access, refresh |-> jar.refresh,
     new |-> 0, effect |-> Keep, status |-> "none", runs |-> 0, tries |-> 0]

Idle ==
    [kind |-> "read", at |-> "idle", access |-> 0, refresh |-> 0,
     new |-> 0, effect |-> Keep, status |-> "none", runs |-> 0, tries |-> 0]

Out == {r \in Requests : req[r].at \notin {"idle", "again", "done"}}
Quiet == Out = {}

Init ==
    /\ screen = "login"
    /\ jar = [access |-> 0, refresh |-> 0]
    /\ req = [r \in Requests |-> Idle]
    /\ issued = 0 /\ lapsed = 0 /\ aged = 0
    /\ spent = {}
    /\ active = TRUE
    /\ together = FALSE /\ broken = FALSE /\ turned = FALSE

tokens == <<issued, lapsed, aged, spent>>

----------------------------------------------------------------------------
(* The browser                                                             *)

\* A screen asks for something: the cookies as they are now travel with it.
Ask(r, kind) ==
    /\ req[r].at = "idle"
    /\ IF kind = "login" THEN screen = "login" ELSE screen = "app"
    /\ req' = [req EXCEPT ![r] = Fresh(kind)]
    /\ together' = (together \/ ~Quiet)
    /\ UNCHANGED <<screen, jar, tokens, active, broken, turned>>

\* React Query asks once more for a read that failed (retry: 1).
AskAgain(r) ==
    /\ req[r].at = "again"
    /\ req' = [req EXCEPT ![r] = [Fresh("read") EXCEPT !.tries = 1]]
    /\ together' = (together \/ ~Quiet)
    /\ UNCHANGED <<screen, jar, tokens, active, broken, turned>>

\* Opening a page leads to the login page when there is no refresh cookie.
Navigate ==
    /\ screen' = IF jar.refresh = 0 THEN "login" ELSE "app"
    /\ screen' # screen
    /\ UNCHANGED <<jar, req, tokens, active, together, broken, turned>>

After(r) ==
    IF req[r].kind = "read" /\ req[r].tries = 0 /\ req[r].status # "ok"
    THEN "again" ELSE "done"

\* The login page leaves for the app on an ok answer; the menu goes to the
\* login page whatever the answer to the sign-out was.
Shown(r) ==
    CASE req[r].kind = "login" /\ req[r].status = "ok" -> "app"
      [] req[r].kind = "logout" -> "login"
      [] OTHER -> screen

\* mutant: only the access cookie is renewed.
ArriveHalf(r) ==
    /\ req[r].at = "answer"
    /\ jar' = CASE req[r].effect = Set -> [access |-> req[r].new,
                                          refresh |-> IF req[r].kind = "login" THEN req[r].new
                                                      ELSE jar.refresh]
                [] req[r].effect = Clear -> [access |-> 0, refresh |-> 0]
                [] OTHER -> jar
    /\ screen' = Shown(r)
    /\ req' = [req EXCEPT ![r].at = After(r)]
    /\ UNCHANGED <<tokens, active, together, broken, turned>>

\* The answer reaches the browser, which obeys its Set-Cookie headers.
Arrive(r) ==
    /\ req[r].at = "answer"
    /\ jar' = CASE req[r].effect = Set -> [access |-> req[r].new, refresh |-> req[r].new]
                [] req[r].effect = Clear -> [access |-> 0, refresh |-> 0]
                [] OTHER -> jar
    /\ screen' = Shown(r)
    /\ req' = [req EXCEPT ![r].at = After(r)]
    /\ UNCHANGED <<tokens, active, together, broken, turned>>

\* The connection drops: what the handler did is done, its answer is lost.
Lose(r) ==
    /\ req[r].at = "answer"
    /\ req' = [req EXCEPT ![r].status = "lost",
                          ![r].at = IF req[r].kind = "read" /\ req[r].tries = 0
                                    THEN "again" ELSE "done"]
    /\ screen' = IF req[r].kind = "logout" THEN "login" ELSE screen
    /\ broken' = (broken \/ req[r].effect # Keep)
    /\ UNCHANGED <<jar, tokens, active, together, turned>>

\* The browser drops the access cookie at the end of its own fifteen minutes.
CookieExpires ==
    /\ jar.access # 0 /\ jar.access <= lapsed
    /\ jar' = [jar EXCEPT !.access = 0]
    /\ UNCHANGED <<screen, req, tokens, active, together, broken, turned>>

----------------------------------------------------------------------------
(* Django and SimpleJWT                                                    *)

Accepts(access) == access > lapsed /\ active

Usable(refresh) == refresh > aged /\ refresh \notin spent

Mint == issued' = issued + 1

Lapse ==
    /\ lapsed < issued /\ lapsed' = lapsed + 1
    /\ UNCHANGED <<screen, jar, req, issued, aged, spent, active, together, broken, turned>>

Age ==
    /\ aged < lapsed /\ aged' = aged + 1
    /\ UNCHANGED <<screen, jar, req, issued, lapsed, spent, active, together, broken, turned>>

\* HR closes or re-opens the account (revoke_access, restore_access).
Switch ==
    /\ active' = ~active
    /\ UNCHANGED <<screen, jar, req, tokens, together, broken, turned>>

----------------------------------------------------------------------------
(* The route handlers                                                      *)

Calls == {"read", "write", "media"}

Served(r) == \E s \in {"ok", "failed"} :
    req' = [req EXCEPT ![r].at = "answer", ![r].status = s, ![r].runs = @ + 1]

\* mutant: any answer that is not ok leads to a refresh and a second call.
ForwardAny(r) ==
    /\ req[r].at = "sent" /\ req[r].kind \in Calls
    /\ \/ Accepts(req[r].access) /\ Served(r)
       \/ /\ Accepts(req[r].access)
          /\ req' = [req EXCEPT ![r].at = "refresh", ![r].runs = @ + 1]
       \/ /\ ~Accepts(req[r].access)
          /\ req' = [req EXCEPT ![r].at = "refresh"]
    /\ UNCHANGED <<screen, jar, tokens, active, together, broken, turned>>

\* The handler tries the access cookie first; only a 401 leads to a refresh.
Forward(r) ==
    /\ req[r].at = "sent" /\ req[r].kind \in Calls
    /\ \/ Accepts(req[r].access) /\ Served(r)
       \/ /\ ~Accepts(req[r].access)
          /\ req' = [req EXCEPT ![r].at = "refresh"]
    /\ UNCHANGED <<screen, jar, tokens, active, together, broken, turned>>

\* There is no new pair: no refresh cookie, a token Django refuses, or any other
\* answer that is not ok, a 429 of the throttle or a 5xx.  The handler does not
\* tell them apart: 401, and both cookies are cleared.
Refused(r) ==
    /\ req[r].at = "refresh"
    /\ turned' = (turned \/ Usable(req[r].refresh))
    /\ req' = [req EXCEPT ![r].at = "answer", ![r].status = "401", ![r].effect = Clear]
    /\ UNCHANGED <<screen, jar, tokens, active, together, broken>>

\* Django reads the blacklist ...
Check(r) ==
    /\ req[r].at = "refresh"
    /\ Usable(req[r].refresh)
    /\ req' = [req EXCEPT ![r].at = "rotate"]
    /\ UNCHANGED <<screen, jar, tokens, active, together, broken, turned>>

\* ... and then blacklists the old refresh token and mints a new pair.
Rotate(r) ==
    /\ req[r].at = "rotate" /\ issued < MaxPairs
    /\ Mint
    /\ spent' = spent \union {req[r].refresh}
    /\ req' = [req EXCEPT ![r].at = "retry", ![r].new = issued + 1, ![r].effect = Set]
    /\ UNCHANGED <<screen, jar, lapsed, aged, active, together, broken, turned>>

\* mutant: a second 401 signs the person out.
RetryOrClear(r) ==
    /\ req[r].at = "retry"
    /\ \/ Accepts(req[r].new) /\ Served(r)
       \/ /\ ~Accepts(req[r].new)
          /\ req' = [req EXCEPT ![r].at = "answer", ![r].status = "401", ![r].effect = Clear]
    /\ UNCHANGED <<screen, jar, tokens, active, together, broken, turned>>

\* The call is made a second time with the new access token, and the new pair
\* goes to the browser whatever that second answer is.
Retry(r) ==
    /\ req[r].at = "retry"
    /\ \/ Accepts(req[r].new) /\ Served(r)
       \/ /\ ~Accepts(req[r].new)
          /\ req' = [req EXCEPT ![r].at = "answer", ![r].status = "401"]
    /\ UNCHANGED <<screen, jar, tokens, active, together, broken, turned>>

\* POST /api/auth/login: a closed account is refused.
Login(r) ==
    /\ req[r].at = "sent" /\ req[r].kind = "login"
    /\ \/ /\ active /\ issued < MaxPairs
          /\ Mint
          /\ req' = [req EXCEPT ![r].at = "answer", ![r].status = "ok",
                                ![r].new = issued + 1, ![r].effect = Set]
       \/ /\ req' = [req EXCEPT ![r].at = "answer", ![r].status = "401"]
          /\ UNCHANGED issued
    /\ UNCHANGED <<screen, jar, lapsed, aged, spent, active, together, broken, turned>>

\* mutant: sign-out only forgets the cookies.
LogoutForgets(r) ==
    /\ req[r].at = "sent" /\ req[r].kind = "logout"
    /\ req' = [req EXCEPT ![r].at = "answer", ![r].status = "ok", ![r].effect = Clear]
    /\ UNCHANGED <<screen, jar, tokens, active, together, broken, turned>>

\* POST /api/auth/logout: the refresh token is sent to be blacklisted when there
\* is one.  The handler does not read the answer, which may be a 429 or a 5xx:
\* ok, and both cookies are cleared.
Logout(r) ==
    /\ req[r].at = "sent" /\ req[r].kind = "logout"
    /\ \/ /\ spent' = IF req[r].refresh = 0 THEN spent ELSE spent \union {req[r].refresh}
          /\ UNCHANGED turned
       \/ /\ req[r].refresh # 0 /\ turned' = TRUE
          /\ UNCHANGED spent
    /\ req' = [req EXCEPT ![r].at = "answer", ![r].status = "ok", ![r].effect = Clear]
    /\ UNCHANGED <<screen, jar, issued, lapsed, aged, active, together, broken>>

\* Django cannot be reached: fetch throws and the handler answers 500 with no
\* Set-Cookie, even when a new pair has just been minted.
Unreachable(r) ==
    /\ req[r].at \in {"sent", "refresh", "retry"}
    /\ req' = [req EXCEPT ![r].at = "answer", ![r].status = "failed", ![r].effect = Keep]
    /\ broken' = (broken \/ req[r].at = "retry" \/ req[r].kind = "logout")
    /\ UNCHANGED <<screen, jar, tokens, active, together, turned>>

Step(r) ==
    \/ \E kind \in Kinds : Ask(r, kind)
    \/ AskAgain(r) \/ Arrive(r) \/ Lose(r)
    \/ Forward(r) \/ Refused(r) \/ Check(r) \/ Rotate(r) \/ Retry(r)
    \/ Login(r) \/ Logout(r) \/ Unreachable(r)

Next ==
    \/ \E r \in Requests : Step(r)
    \/ Navigate \/ CookieExpires \/ Lapse \/ Age \/ Switch

Spec == Init /\ [][Next]_vars

----------------------------------------------------------------------------
(* Properties                                                              *)

TypeOK ==
    /\ screen \in {"login", "app"}
    /\ jar \in [access : Pairs, refresh : Pairs]
    /\ req \in [Requests -> [kind : Kinds, at : Steps, access : Pairs, refresh : Pairs,
                             new : Pairs, effect : {Keep, Set, Clear},
                             status : {"none", "ok", "failed", "401", "lost"},
                             runs : 0 .. 2, tries : 0 .. 1]]
    /\ issued \in Pairs /\ lapsed \in 0 .. issued /\ aged \in 0 .. lapsed
    /\ spent \subseteq 1 .. issued
    /\ active \in BOOLEAN /\ together \in BOOLEAN /\ broken \in BOOLEAN
    /\ turned \in BOOLEAN

\* A write reaches its view at most once: the handler repeats a call only after
\* a 401, and a 401 means the view never ran (route.ts, handler).
RunsOnce == \A r \in Requests : req[r].kind = "write" => req[r].runs <= 1

\* However requests overlap, the browser is never left holding a refresh token
\* that Django has already taken out of use: unless a call broke off half way,
\* the cookies it holds when nothing is out still work until they are too old.
HeldTokenWorks == Quiet /\ ~broken => jar.refresh \notin spent

\* A browser whose requests go one at a time, and none of whose refreshes was
\* turned away without a look at its token, keeps its session across every lapse
\* of the access token: while it shows the app it has a refresh cookie until the
\* seven days are over, whether or not the account is closed and opened again in
\* between (route.ts, handler; refreshToken.ts).
OneAtATimeStaysIn ==
    ~together /\ ~broken /\ ~turned /\ Quiet /\ screen = "app" /\ jar.refresh = 0
        => aged = issued

\* After a sign-out that Django took, no refresh token of the session is of any
\* use, however often it had been rotated (ROTATE_REFRESH_TOKENS with
\* BLACKLIST_AFTER_ROTATION, and TokenBlacklistView at sign-out).
SignOutRevokes ==
    ~together /\ ~broken /\ ~turned /\ Quiet /\ screen = "login"
        => \A n \in 1 .. issued : ~Usable(n)

\* What the sign-out route answers, {"ok": true} with both cookies cleared, read
\* as what it did: the browser's own refresh token is of no use any more.  A
\* throttled blacklist call refutes it (MCSession_signout.cfg).
OkIsSignedOut ==
    \A r \in Requests : req[r].kind = "logout" /\ req[r].at = "answer" /\ req[r].status = "ok"
        => ~Usable(req[r].refresh)
=============================================================================
