---------------------------- MODULE BrowserSession ----------------------------
(***************************************************************************)
(* One browser in front of RefreshTokens: the cookies that the replies of  *)
(* AuthController set and clear, and the tabs whose apiFetch               *)
(* (frontend/lib/api.ts) refreshes the session when a call is turned down  *)
(* and tries that call once more.  The calls of a tab share one refresh;   *)
(* tabs share nothing but the cookies.  The page that logs in and out      *)
(* sends its requests beside them.                                         *)
(*                                                                         *)
(* A tab is the name of its refresh request as well: it has one at a time. *)
(***************************************************************************)
EXTENDS RefreshTokens

CONSTANTS Tabs, Forms, \* the requests: refreshes of tabs; logins and logouts
          Calls, TabOf \* API calls, and the tab each is made in

ASSUME RequestsAssumption == Requests = Tabs \cup Forms /\ Tabs \cap Forms = {}
ASSUME CallsAssumption == TabOf \in [Calls -> Tabs]

VARIABLES jar,    \* the refresh_token cookie
          access, \* the access_token cookie is there and has not expired
          call,   \* the calls: step, and the access cookie they were sent with
          lost,   \* history: a reply never reached the browser
          crossed \* history: a tab presented a token that another's refresh still carried

history == <<lost, crossed>>
client == <<jar, access, call, history>>
session == <<vars, client>>
-----------------------------------------------------------------------------
SessionInit == /\ Init
               /\ jar = NoToken /\ access = FALSE /\ lost = FALSE /\ crossed = FALSE
               /\ call = [c \in Calls |-> [step |-> "idle", valid |-> FALSE]]

\* The server side goes on; the browser learns of it by the reply.
Server == /\ \E r \in Requests : Serve(r) \/ Abort(r)
          /\ UNCHANGED client

\* Mutant: the promise is not released when the refresh fails.
SettleOnSuccess(tab, step) ==
    call' = [c \in Calls |-> IF TabOf[c] = tab /\ call[c].step = "waiting" /\ step # "error"
                             THEN [call[c] EXCEPT !.step = step] ELSE call[c]]
\* What the shared promise of a tab brings to the calls that wait for it.
Settle(tab, step) == call' = [c \in Calls |-> IF TabOf[c] = tab /\ call[c].step = "waiting"
                                             THEN [call[c] EXCEPT !.step = step] ELSE call[c]]

(* apiFetch: the first attempt.                                            *)
Fetch(c) == /\ call[c].step = "idle"
            /\ call' = [call EXCEPT ![c] = [step |-> "sent", valid |-> access]]
            /\ UNCHANGED <<vars, jar, access, history>>

(* JwtAuthGuard lets the call pass, or the retried call fails for good.    *)
Respond(c) == /\ \/ call[c].step = "sent" /\ call[c].valid
                 \/ call[c].step = "resent"
              /\ call' = [call EXCEPT ![c].step = IF call[c].valid THEN "ok" ELSE "error"]
              /\ UNCHANGED <<vars, jar, access, history>>

(* 401: the call starts a refresh, or joins the one in flight in its tab.  *)
(* Without a cookie the API answers 401 before it looks at the database.   *)
Refresh(c) ==
    LET tab == TabOf[c] IN
    /\ call[c].step = "sent" /\ ~call[c].valid
    /\ call' = [call EXCEPT ![c].step = "waiting"]
    /\ IF tx[tab].pc # "idle" THEN UNCHANGED <<vars, crossed>>
       ELSE IF jar = NoToken
       THEN /\ tx' = [tx EXCEPT ![tab].pc = "failed", ![tab].kind = "refresh"]
            /\ UNCHANGED <<now, users, made, present, row, sweep, crossed>>
       ELSE /\ Send(tab, "refresh", jar)
            /\ crossed' = (crossed \/ \E other \in Tabs : tx[other].token = jar)
    /\ UNCHANGED <<jar, access, lost>>

\* Mutants: a failed refresh leaves the cookies; setRefreshCookie is forgotten.
CookiesKept(tab) == IF tx[tab].pc = "granted" THEN jar' = tx[tab].new /\ access' = TRUE
                    ELSE UNCHANGED <<jar, access>>
AccessCookieOnly(tab) == IF tx[tab].pc = "granted" THEN jar' = jar /\ access' = TRUE
                         ELSE jar' = NoToken /\ access' = FALSE
(* The reply of a refresh: both cookies are replaced, or, whatever went    *)
(* wrong, cleared.                                                         *)
RefreshCookies(tab) == IF tx[tab].pc = "granted" THEN jar' = tx[tab].new /\ access' = TRUE
                       ELSE jar' = NoToken /\ access' = FALSE
RefreshAnswered(tab) ==
    /\ Finish(tab)
    /\ RefreshCookies(tab)
    /\ Settle(tab, IF tx[tab].pc = "granted" THEN "retrying" ELSE "error")
    /\ UNCHANGED history

(* It never arrives: fetch rejects, and the cookies stay as they are.      *)
RefreshLost(tab) ==
    /\ Finish(tab)
    /\ Settle(tab, "error")
    /\ lost' = TRUE
    /\ UNCHANGED <<jar, access, crossed>>

(* 429 from the rate limit, which is asked before the try block: the       *)
(* cookies are kept and the token has not been presented.                  *)
RefreshLimited(tab) ==
    /\ tx[tab].pc = "sent"
    /\ tx' = [tx EXCEPT ![tab] = NoRequest]
    /\ Settle(tab, "error")
    /\ UNCHANGED <<now, users, made, present, row, sweep, jar, access, history>>

(* The one retry, with the cookies as they are now.                        *)
Retry(c) == /\ call[c].step = "retrying"
            /\ call' = [call EXCEPT ![c] = [step |-> "resent", valid |-> access]]
            /\ UNCHANGED <<vars, jar, access, history>>

(* The login, signup and logout requests of the pages, and their replies.  *)
Submit(f) == /\ made + Cardinality(Requests) + Cardinality({c \in Calls : call[c].step # "error"})
                  <= MaxTokens \* the bound: calls find room for their refreshes
             /\ \/ \E u \in Users : SignUp(f, u) \/ LogIn(f, u)
                \/ jar # NoToken /\ Send(f, "logout", jar)
             /\ UNCHANGED client
FormAnswered(f) ==
    /\ Finish(f)
    /\ CASE tx[f].pc = "granted" -> jar' = tx[f].new /\ access' = TRUE
         [] tx[f].pc = "closed"  -> jar' = NoToken /\ access' = FALSE
         [] OTHER                -> UNCHANGED <<jar, access>>
    /\ UNCHANGED <<call, history>>
FormLost(f) == Finish(f) /\ lost' = TRUE /\ UNCHANGED <<jar, access, call, crossed>>

(* 15 minutes pass.                                                        *)
AccessExpires == access /\ access' = FALSE /\ UNCHANGED <<vars, jar, call, history>>

Proceed(c) == Respond(c) \/ Refresh(c) \/ Retry(c)
SessionNext == \/ Server \/ AccessExpires
               \/ \E c \in Calls : Fetch(c) \/ Proceed(c)
               \/ \E tab \in Tabs : \/ RefreshAnswered(tab) \/ RefreshLost(tab)
                                    \/ RefreshLimited(tab)
               \/ \E f \in Forms : Submit(f) \/ FormAnswered(f) \/ FormLost(f)
SessionSpec == SessionInit /\ [][SessionNext]_session

(* What a request waits for, and PostgreSQL's deadlock detection.          *)
Wanted(r) == IF tx[r].pc = "sent" /\ tx[r].kind = "refresh" THEN {tx[r].token}
             ELSE IF tx[r].pc = "revoking" THEN tx[r].todo ELSE {}
Stuck(r) == Wanted(r) # {} /\ \A t \in Wanted(r) : ~LockFree(r, t)
Deadlocked(r) == \E S \in SUBSET Requests :
                    /\ r \in S
                    /\ \A q \in S : Stuck(q) /\ \E p \in S \ {q} : Wanted(q) \cap Locks(p) # {}
Victim(r) == Deadlocked(r) /\ Abort(r)
Lock(r) == LockToken(r) \/ \E t \in Tokens : RevokeRow(r, t)
Continue(r) == \/ Issue(r) \/ Replace(r) \/ CommitRotation(r)
               \/ StartRevoke(r) \/ CommitRevoke(r)

\* An open transaction issues its next statement; row locks are granted in the
\* order they are asked for; a deadlock is broken; replies arrive or fetch rejects;
\* the script of a page goes on.
FairSession ==
    /\ SessionSpec
    /\ \A r \in Requests : /\ WF_session(Continue(r) /\ UNCHANGED client)
                           /\ SF_session(Lock(r) /\ UNCHANGED client)
    /\ WF_session((\E r \in Requests : Victim(r)) /\ UNCHANGED client)
    /\ \A tab \in Tabs : WF_session(RefreshAnswered(tab) \/ RefreshLost(tab))
    /\ \A f \in Forms : WF_session(FormAnswered(f) \/ FormLost(f))
    /\ \A c \in Calls : WF_session(Proceed(c))
-----------------------------------------------------------------------------
(* What the single flight of api.ts is there for, and where it ends: the   *)
(* server revokes a family of this browser for reuse only after a reply    *)
(* was lost or two tabs refreshed with one token at a time, whatever       *)
(* calls, failures, logins and logouts run beside the refreshes.  Tabs     *)
(* that refresh one after the other, or with different tokens, are safe.   *)
ReuseHasCause ==
    (\E t \in present : row[t].revoked = "reuse_detected") => lost \/ crossed

(* When nothing is in flight, no reply was lost and no refreshes crossed,  *)
(* the cookie is the one live token of its family, or one that a logout    *)
(* revoked.                                                                *)
CookieIsCurrent ==
    ~lost /\ ~crossed /\ jar # NoToken /\ (\A r \in Requests : tx[r].pc = "idle")
       => jar \in present /\ (Live(jar) \/ row[jar].revoked = "logout")

(* Every API call is answered to the page, refresh and retry included: a   *)
(* call is made once, and time and again none is under way.                *)
CallsSettle == []<>(\A c \in Calls : call[c].step \in {"idle", "ok", "error"})
=============================================================================
