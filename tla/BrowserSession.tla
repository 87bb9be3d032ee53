--------------------------- MODULE BrowserSession ---------------------------
(***************************************************************************)
(* The browser's side of a session, on top of AuthSessions: the cookie all *)
(* tabs share, the access token each tab keeps in memory (lib/session.ts), *)
(* the single refresh in flight of a tab and the 401 policy (lib/http.ts), *)
(* signing in, up and out (lib/auth-api.ts), and what the provider shows   *)
(* (components/auth-provider.tsx, components/require-auth.tsx).            *)
(***************************************************************************)
EXTENDS AuthSessions

CONSTANTS Tabs,
          Attempts,     \* authorised calls of a tab besides GET /auth/me
          MaxLosses     \* bound: answers that do not reach their tab

ASSUME BrowserAssumption == MaxLosses \in Nat /\ "me" \notin Attempts

VARIABLES cookie,       \* analyst_refresh, 0 when there is none
          tab,          \* the script state of each tab
          losses        \* answers lost so far

browserVars == <<session, account, resetLink, call, cookie, tab, losses>>

Kinds == {"refresh", "in", "out"}

AttemptSteps == {"idle", "first", "anonymous", "waiting", "second"}

(* access: whether there is an access token in memory.  boot: the provider *)
(* waits for its first refresh.  flight: the slots of the tab's auth calls. *)
TabStates ==
    [access  : BOOLEAN,
     ui      : {"loading", "authenticated", "unauthenticated"},
     boot    : BOOLEAN,
     flight  : [Kinds -> Slots \cup {None}],
     attempt : [Attempts \cup {"me"} -> AttemptSteps]]

Orphans == {s \in Slots : \A w \in Tabs, k \in Kinds : tab[w].flight[k] # s}

-----------------------------------------------------------------------------
(* clearSession: the listener of the provider hears of it only when there  *)
(* was a session to clear.                                                 *)
ClearSession(t) ==
    [t EXCEPT !.access = FALSE,
              !.ui = IF t.access THEN "unauthenticated" ELSE @]

Launch(t, k, s) == [t EXCEPT !.flight[k] = s]
Landed(t, k)    == [t EXCEPT !.flight[k] = None]

\* Mutant of RefreshSession: no refresh is shared.
RefreshEach(w, t) ==
    \E s \in FreeSlots :
       /\ Send(s, "refresh", cookie, None)
       /\ tab' = [tab EXCEPT ![w] = Launch(t, "refresh", s)]

(* refreshSession: start the refresh of this tab, or join the one in       *)
(* flight.                                                                 *)
RefreshSession(w, t) ==
    \/ /\ t.flight["refresh"] # None
       /\ tab' = [tab EXCEPT ![w] = t]
       /\ UNCHANGED call
    \/ /\ t.flight["refresh"] = None
       /\ \E s \in FreeSlots :
             /\ Send(s, "refresh", cookie, None)
             /\ tab' = [tab EXCEPT ![w] = Launch(t, "refresh", s)]

(* performRefresh succeeds: every caller that waits retries with the new   *)
(* token, and the provider goes on to GET /auth/me.                        *)
Refreshed(t) ==
    [t EXCEPT !.access = TRUE,
              !.boot = FALSE,
              !.attempt = [a \in DOMAIN t.attempt |->
                 CASE a = "me" /\ t.boot        -> "first"
                   [] t.attempt[a] = "waiting" -> "second"
                   [] OTHER                    -> t.attempt[a]]]

\* Mutant of NotRefreshed: the provider is not told.
NotRefreshedQuietly(t) ==
    [ClearSession(t) EXCEPT
       !.boot = FALSE,
       !.attempt = [a \in DOMAIN t.attempt |->
          IF t.attempt[a] = "waiting" THEN "idle" ELSE t.attempt[a]]]

(* performRefresh fails: callers give up, and the provider stops loading.  *)
NotRefreshed(t) ==
    [ClearSession(t) EXCEPT
       !.boot = FALSE,
       !.ui = IF t.boot \/ t.attempt["me"] = "waiting" THEN "unauthenticated" ELSE @,
       !.attempt = [a \in DOMAIN t.attempt |->
          IF t.attempt[a] = "waiting" THEN "idle" ELSE t.attempt[a]]]

(* The tab hears how a call ended.                                         *)
Heard(t, op, issued) ==
    CASE op = "refresh" -> IF issued THEN Refreshed(t) ELSE NotRefreshed(t)
      [] op = "login"   -> IF issued THEN [t EXCEPT !.access = TRUE,
                                                    !.ui = "authenticated"] ELSE t
      [] op = "signup"  -> IF issued THEN [t EXCEPT !.access = TRUE] ELSE t
      [] op = "logout"  -> [ClearSession(t) EXCEPT !.ui = "unauthenticated"]

(* Set-Cookie of an answer.  The answer to a refused refresh carries none: *)
(* raising HTTPException discards the response the route had prepared.     *)
CookieAfter(s) ==
    CASE At(s, "issued")                               -> Token(s)
      [] At(s, "done") /\ call[s].op = "logout"        -> 0
      [] OTHER                                         -> cookie

-----------------------------------------------------------------------------
Hears(w, k) ==
    LET s == tab[w].flight[k] IN
    /\ s # None
    /\ Answered(s)
    /\ cookie' = CookieAfter(s)
    /\ tab' = [tab EXCEPT ![w] =
                 Landed(Heard(@, call[s].op, At(s, "issued")), k)]
    /\ Finish(s)
    /\ UNCHANGED losses

(* fetchWithTimeout gives up, or the connection breaks, at any time; the   *)
(* API goes on with the request.                                           *)
Loses(w, k) ==
    LET s == tab[w].flight[k] IN
    /\ s # None
    /\ losses < MaxLosses
    /\ losses' = losses + 1
    /\ tab' = [tab EXCEPT ![w] = Landed(Heard(@, call[s].op, FALSE), k)]
    /\ UNCHANGED <<session, account, resetLink, call, cookie>>

(* A request nobody waits for is answered; the browser may still have seen *)
(* the header of an answer it gave up on.                                  *)
OrphanAnswered(s) ==
    /\ s \in Orphans
    /\ Answered(s)
    /\ cookie' \in {cookie, CookieAfter(s)}
    /\ Finish(s)
    /\ UNCHANGED <<tab, losses>>

-----------------------------------------------------------------------------
(* authorizedJson: an attempt carries the token in memory, if there is     *)
(* one, when it starts.                                                    *)
Attempt(w, a) ==
    /\ tab[w].ui = "authenticated"
    /\ tab[w].attempt[a] = "idle"
    /\ tab' = [tab EXCEPT ![w].attempt[a] =
                 IF tab[w].access THEN "first" ELSE "anonymous"]
    /\ UNCHANGED <<session, account, resetLink, call, cookie, losses>>

(* A first 401 buys a refresh.  An attempt without a token is answered 401, *)
(* one with a token may be: principal_from_access_token refuses a token    *)
(* past its expiry, and looks at no session.                               *)
FirstRejected(w, a) ==
    /\ tab[w].attempt[a] \in {"first", "anonymous"}
    /\ RefreshSession(w, [tab[w] EXCEPT !.attempt[a] = "waiting"])
    /\ UNCHANGED <<session, account, resetLink, cookie, losses>>

(* The API accepts the token; GET /auth/me establishes the session.        *)
Accepted(w, a) ==
    /\ tab[w].attempt[a] \in {"first", "second"}
    /\ tab' = [tab EXCEPT ![w].attempt[a] = "idle",
                          ![w].ui = IF a = "me" THEN "authenticated" ELSE @]
    /\ UNCHANGED <<session, account, resetLink, call, cookie, losses>>

(* A second 401 ends the session, and so does every failure of GET         *)
(* /auth/me; another failure is only shown to its caller.                  *)
SecondRejected(w, a) ==
    /\ tab[w].attempt[a] = "second"
    /\ LET t == ClearSession(tab[w]) IN
       tab' = [tab EXCEPT ![w] =
         [t EXCEPT !.attempt[a] = "idle",
                   !.ui = IF a = "me" THEN "unauthenticated" ELSE t.ui]]
    /\ UNCHANGED <<session, account, resetLink, call, cookie, losses>>

AttemptFails(w, a) ==
    /\ tab[w].attempt[a] \in {"first", "anonymous", "second"}
    /\ tab' = [tab EXCEPT ![w] =
         IF a = "me"
         THEN [ClearSession(@) EXCEPT !.attempt[a] = "idle", !.ui = "unauthenticated"]
         ELSE [@ EXCEPT !.attempt[a] = "idle"]]
    /\ UNCHANGED <<session, account, resetLink, call, cookie, losses>>

-----------------------------------------------------------------------------
(* login-form.tsx, signup-form.tsx: only for a reader who is not let in.   *)
SignIn(w, op, u) ==
    /\ tab[w].ui # "authenticated"
    /\ tab[w].flight["in"] = None
    /\ \E s \in FreeSlots :
          /\ Send(s, op, 0, u)
          /\ tab' = [tab EXCEPT ![w] = Launch(@, "in", s)]
    /\ UNCHANGED <<session, account, resetLink, cookie, losses>>

(* user-bar.tsx, signOut.                                                  *)
SignOut(w) ==
    /\ tab[w].ui = "authenticated"
    /\ tab[w].flight["out"] = None
    /\ \E s \in FreeSlots :
          /\ Send(s, "logout", cookie, None)
          /\ tab' = [tab EXCEPT ![w] = Launch(@, "out", s)]
    /\ UNCHANGED <<session, account, resetLink, cookie, losses>>

(* The page is loaded: the provider mounts and refreshes.                  *)
Loaded == [access |-> FALSE, ui |-> "loading", boot |-> TRUE,
           flight |-> [k \in Kinds |-> None],
           attempt |-> [a \in Attempts \cup {"me"} |-> "idle"]]

Load(w) ==
    /\ tab[w].boot /\ tab[w].flight["refresh"] = None
    /\ RefreshSession(w, tab[w])
    /\ UNCHANGED <<session, account, resetLink, cookie, losses>>

(* Reload, or leave and come back; calls in flight are not waited for.     *)
Reload(w) ==
    /\ ~tab[w].boot
    /\ losses < MaxLosses
    /\ losses' = losses + 1
    /\ tab' = [tab EXCEPT ![w] = Loaded]
    /\ UNCHANGED <<session, account, resetLink, call, cookie>>

-----------------------------------------------------------------------------
TabStep(w) ==
    \/ Load(w)
    \/ \E k \in Kinds : Hears(w, k)
    \/ \E a \in Attempts \cup {"me"} :
          \/ FirstRejected(w, a) \/ SecondRejected(w, a)
          \/ Accepted(w, a) \/ AttemptFails(w, a)

Reader(w) ==
    \/ \E a \in Attempts : Attempt(w, a)
    \/ \E op \in {"login", "signup"}, u \in Users : SignIn(w, op, u)
    \/ SignOut(w)
    \/ Reload(w)
    \/ \E k \in Kinds : Loses(w, k)

ServeStep(s) == /\ Serve(s) \/ RequestFails(s)
                /\ UNCHANGED <<cookie, tab, losses>>

Elsewhere ==
    /\ \/ \E s \in FreeSlots, u \in Users : ConfirmReset(s, u)
       \/ \E u \in Users : RequestPasswordReset(u)
    /\ UNCHANGED <<cookie, tab, losses>>

BrowserInit ==
    /\ AuthInit
    /\ cookie = Len(session)
    /\ tab = [w \in Tabs |-> Loaded]
    /\ losses = 0

BrowserNext ==
    \/ \E w \in Tabs : TabStep(w) \/ Reader(w)
    \/ \E s \in Slots : ServeStep(s) \/ OrphanAnswered(s)
    \/ Elsewhere

BrowserSpec == BrowserInit /\ [][BrowserNext]_browserVars

-----------------------------------------------------------------------------
BrowserTypeOK ==
    /\ AuthTypeOK
    /\ cookie \in 0..Len(session)
    /\ tab \in [Tabs -> TabStates]
    /\ losses \in 0..MaxLosses

(* As long as every answer reaches its tab, no refresh of the reader's own *)
(* tab is taken for a replay: the refresh in flight is shared by all       *)
(* callers, so a token that was rotated away is not presented again.       *)
NoFalseReplay == losses = 0 => \A s \in Slots : ~At(s, "replayed")

(* As long as every answer reaches its tab, the loop that revokes a        *)
(* replayed lineage would visit exactly the sessions that token led to.    *)
LineageIsExact ==
    losses = 0 => \A t \in DOMAIN session : Lineage(t) = Descendants(t)

(* No caller waits for a refresh that is not in flight, and the page does  *)
(* not stay in "Checking your session" with nothing left that would end it. *)
NobodyWaitsForNothing ==
    \A w \in Tabs :
       /\ (\E a \in Attempts \cup {"me"} : tab[w].attempt[a] = "waiting")
             => tab[w].flight["refresh"] # None
       /\ tab[w].ui = "loading" => tab[w].boot \/ tab[w].attempt["me"] # "idle"

(* A reader who holds an access token, with nothing left to settle, is let *)
(* in: registering "returns a session exactly as `login` does: the reader  *)
(* lands in their workspace".                                              *)
TokenMeansLetIn ==
    \A w \in Tabs :
       (tab[w].access /\ ~tab[w].boot /\ tab[w].attempt["me"] = "idle")
          => tab[w].ui = "authenticated"
=============================================================================
