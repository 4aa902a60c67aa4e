---------------------------- MODULE ClientSession ----------------------------
(***************************************************************************)
(* The sign-in state of one browser tab: AuthProvider (useAuth.tsx), the   *)
(* token in localStorage with apiFetch's rule for 401, sign-in with a      *)
(* wallet (siwe.ts, ConnectButton), a password or a new account, log-out,  *)
(* and the redirects of the login page and the two layouts.  Every request *)
(* is handled by the API and answered later, so a log-out, an expiry or    *)
(* another answer can come between.  A full page load (window.location)    *)
(* drops the state of the tab and every promise with it.                   *)
(* Role lists are reduced to "is an administrator", texts are left out.    *)
(***************************************************************************)
EXTENDS Naturals, Sequences

CONSTANTS Users, Admins,
          Nobody,
          MaxSignIns,   \* bound: sign-ins and registrations started
          MaxVisits       \* bound: links, saves, log-outs and requests of the pages

ASSUME SessionAssumption ==
    /\ Admins \subseteq Users /\ Nobody \notin Users
    /\ {MaxSignIns, MaxVisits} \subseteq Nat

VARIABLES
    token,      \* number of the session in localStorage, 0 when none
    user,       \* AuthProvider's user
    loading,    \* AuthProvider's isLoading
    path,       \* the page shown
    leaving,    \* a full page load to this page is under way, or "no"
    flows,      \* handlers that await something
    signIns, acts,  \* counters of the bounds
    sessions,   \* the API: sessions in order of creation
    givenUp     \* history: wallet sign-ins that ended at the signature

sessionVars == <<token, user, loading, path, leaving, flows, signIns, acts,
                 sessions, givenUp>>
counters == <<signIns, acts>>
thisTab == <<token, user, loading, path, leaving>>

Paths == {"market", "login", "register", "dashboard", "admin"}
SignInKinds == {"siwe", "password", "register"}
Authenticated == user # Nobody
IsAdmin == user \in Admins

Flow(kind, stage, n, who, tok) ==
    [kind |-> kind, stage |-> stage, n |-> n, who |-> who, tok |-> tok,
     got |-> "nothing", session |-> 0]

SessionTypeOK ==
    /\ token \in 0..Len(sessions) /\ user \in Users \cup {Nobody} /\ loading \in BOOLEAN
    /\ path \in Paths /\ leaving \in Paths \cup {"no"}
    /\ flows \subseteq [kind : SignInKinds \cup {"refresh", "logout", "profile", "page"},
                        stage : {"nonce", "sign", "verify", "me", "post"},
                        n : 0..(MaxSignIns + MaxVisits), who : Users \cup {Nobody},
                        tok : 0..Len(sessions),
                        got : {"nothing", "ok", "unauthorized", "failed"},
                        session : 0..Len(sessions)]
    /\ signIns \in 0..MaxSignIns /\ acts \in 0..MaxVisits
    /\ sessions \in Seq([owner : Users, valid : BOOLEAN, by : 0..MaxSignIns])
    /\ givenUp \subseteq 1..MaxSignIns

-----------------------------------------------------------------------------
(* Page load: refreshUser with whatever token an earlier visit left.       *)

LoadedTab(tok, page) ==
    /\ token' = tok /\ user' = Nobody /\ path' = page /\ leaving' = "no"
    /\ loading' = (tok # 0)
    /\ flows' = IF tok = 0 THEN {} ELSE {Flow("refresh", "me", 0, Nobody, tok)}

SessionInit ==
    /\ sessions \in {<<>>} \cup {<<[owner |-> u, valid |-> v, by |-> 0]>> :
                                  u \in Users, v \in BOOLEAN}
    /\ token = Len(sessions) /\ user = Nobody /\ loading = (token # 0)
    /\ path \in {"market", "login"} /\ leaving = "no"
    /\ flows = IF token = 0 THEN {} ELSE {Flow("refresh", "me", 0, Nobody, token)}
    /\ signIns = 0 /\ acts = 0 /\ givenUp = {}

TabLoads ==
    /\ leaving # "no" /\ LoadedTab(token, leaving)
    /\ UNCHANGED <<counters, sessions, givenUp>>

-----------------------------------------------------------------------------
(* Links and redirects.                                                    *)

Redirecting(from) ==
    CASE from = "login" ->
            ~loading /\ Authenticated /\ \A f \in flows : f.kind # "password"
      [] from = "register" -> Authenticated
      [] from = "dashboard" -> ~loading /\ ~Authenticated
      [] from = "admin" -> ~loading /\ ~IsAdmin
      [] OTHER -> FALSE

Consoles == {"dashboard", "admin"}

\* The navigation bar over the two consoles, elsewhere, and the links that the
\* login page and the register page have to each other.
HeaderLinks(p) == path \in Consoles /\ (p = "market" \/ (p \in Consoles /\ IsAdmin))
MarketLinks(p) ==
    /\ path \notin Consoles
    /\ CASE p = "login" -> ~Authenticated
         [] p = "dashboard" -> Authenticated
         [] p = "admin" -> IsAdmin
         [] OTHER -> p = "market"
AuthLinks(p) == {path, p} = {"login", "register"}

FollowLink(p) ==
    /\ leaving = "no" /\ p # path /\ ~Redirecting(path)
    /\ HeaderLinks(p) \/ MarketLinks(p) \/ AuthLinks(p)
    /\ acts < MaxVisits /\ acts' = acts + 1
    /\ path' = p
    /\ UNCHANGED <<token, user, loading, leaving, flows, signIns, sessions, givenUp>>

Home(u) == IF u \in Admins THEN "admin" ELSE "dashboard"

\* The login page loads the console anew, the others push a route.
Redirect ==
    /\ leaving = "no" /\ Redirecting(path)
    /\ IF path = "login"
       THEN leaving' = Home(user) /\ UNCHANGED path
       ELSE /\ path' = IF path = "register" \/ Authenticated THEN "dashboard" ELSE "login"
            /\ UNCHANGED leaving
    /\ UNCHANGED <<token, user, loading, flows, counters, sessions, givenUp>>

-----------------------------------------------------------------------------
(* Buttons.  React runs a due redirect before it handles the next click.   *)

Usable == leaving = "no" /\ ~Redirecting(path)

SiweOffered == ~Authenticated /\ ~loading
PasswordOffered == path = "login" /\ ~loading
RegisterOffered == path = "register" /\ ~loading

StartSignIn(kind, stage, u) ==
    /\ Usable /\ signIns < MaxSignIns /\ signIns' = signIns + 1
    /\ loading' = TRUE
    /\ flows' = flows \cup {Flow(kind, stage, signIns + 1, u, token)}
    /\ UNCHANGED <<token, user, path, leaving, acts, sessions, givenUp>>

ClickSiwe(u) == SiweOffered /\ StartSignIn("siwe", "nonce", u)
SubmitPassword(u) == PasswordOffered /\ StartSignIn("password", "post", u)
SubmitRegister(u) == RegisterOffered /\ u \notin Admins /\ StartSignIn("register", "post", u)

StartCall(kind) ==
    /\ Usable /\ acts < MaxVisits /\ acts' = acts + 1
    /\ flows' = flows \cup {Flow(kind, "post", MaxSignIns + acts + 1, Nobody, token)}
    /\ UNCHANGED <<token, user, path, leaving, signIns, sessions, givenUp>>

ClickLogout == Authenticated /\ StartCall("logout") /\ loading' = TRUE
SaveName == Authenticated /\ StartCall("profile") /\ UNCHANGED loading
PageCall == StartCall("page") /\ UNCHANGED loading

-----------------------------------------------------------------------------
(* The API.                                                                *)

AsksSession(f) == f.stage = "verify" \/ (f.stage = "post" /\ f.kind \in SignInKinds)
Valid(tok) == tok # 0 /\ sessions[tok].valid
Served(f, got) == flows' = (flows \ {f}) \cup {[f EXCEPT !.got = got]}

\* Requests made with a token; a failure is an error or an answer that got lost.
Serve(f) ==
    /\ f.got = "nothing" /\ f.stage # "sign" /\ ~AsksSession(f)
    /\ \/ Served(f, "failed")
       \/ Served(f, IF f.stage = "nonce" \/ Valid(f.tok) THEN "ok" ELSE "unauthorized")
    /\ sessions' = IF f.kind = "logout" /\ f.stage = "post" /\ Valid(f.tok)
                   THEN [sessions EXCEPT ![f.tok].valid = FALSE] ELSE sessions
    /\ UNCHANGED <<thisTab, counters, givenUp>>

\* A verified signature, a right password or a new account gives a session.
ServeSignIn(f) ==
    /\ f.got = "nothing" /\ AsksSession(f)
    /\ \/ /\ \E got \in {"failed", "unauthorized"} : Served(f, got)
          /\ UNCHANGED sessions
       \/ /\ sessions' = Append(sessions, [owner |-> f.who, valid |-> TRUE, by |-> f.n])
          /\ \/ Served(f, "failed")
             \/ flows' = (flows \ {f}) \cup
                    {[f EXCEPT !.got = "ok", !.session = Len(sessions) + 1]}
    /\ UNCHANGED <<thisTab, counters, givenUp>>

Expire(s) ==
    /\ sessions[s].valid /\ sessions' = [sessions EXCEPT ![s].valid = FALSE]
    /\ UNCHANGED <<thisTab, flows, counters, givenUp>>

-----------------------------------------------------------------------------
(* Continuations of the handlers.                                          *)

Answered(f, stage) == f.stage = stage /\ f.got # "nothing"
Continue(f, stage, tok) ==
    flows' = (flows \ {f}) \cup {[f EXCEPT !.stage = stage, !.tok = tok, !.got = "nothing"]}

\* apiFetch: a 401 to a request that carried a token removes the stored one.
Pruned(f) == IF f.got = "unauthorized" /\ f.tok # 0 THEN 0 ELSE token

NonceAnswered(f) ==
    /\ Answered(f, "nonce")
    /\ IF f.got = "ok" THEN Continue(f, "sign", f.tok) /\ UNCHANGED loading
       ELSE flows' = flows \ {f} /\ loading' = FALSE
    /\ UNCHANGED <<token, user, path, leaving, counters, sessions, givenUp>>

Signs(f) ==
    /\ f.stage = "sign" /\ Continue(f, "verify", token)
    /\ UNCHANGED <<thisTab, counters, sessions, givenUp>>

\* Variant of SignatureGivenUp: a late signature continues the sign-in.
TimeoutLetsGoOn(f) ==
    /\ f.stage = "sign" /\ givenUp' = givenUp \cup {f.n}
    /\ loading' = FALSE
    /\ UNCHANGED <<token, user, path, leaving, flows, counters, sessions>>

\* The wallet refuses, or 30 s pass: the promise of the signature is abandoned.
SignatureGivenUp(f) ==
    /\ f.stage = "sign" /\ flows' = flows \ {f}
    /\ givenUp' = givenUp \cup {f.n}
    /\ loading' = FALSE
    /\ UNCHANGED <<token, user, path, leaving, counters, sessions>>

\* The token is stored and refreshUser asks who it belongs to.
SessionGiven(f) ==
    /\ AsksSession(f) /\ f.got # "nothing"
    /\ IF f.got = "ok"
       THEN token' = f.session /\ Continue(f, "me", f.session) /\ UNCHANGED loading
       ELSE flows' = flows \ {f} /\ loading' = FALSE /\ token' = Pruned(f)
    /\ UNCHANGED <<user, path, leaving, counters, sessions, givenUp>>

\* refreshUser, and what the page that signed in does next whatever came of it.
MeAnswered(f) ==
    /\ Answered(f, "me") /\ flows' = flows \ {f}
    /\ IF f.got = "ok"
       THEN user' = sessions[f.tok].owner /\ UNCHANGED token
       ELSE user' = Nobody /\ token' = 0
    /\ loading' = FALSE
    /\ leaving' = IF f.kind = "password" \/ (f.kind = "siwe" /\ path \in {"login", "register"})
                  THEN Home(f.who) ELSE leaving
    /\ path' = IF f.kind = "register" THEN "dashboard" ELSE path
    /\ UNCHANGED <<counters, sessions, givenUp>>

LogoutAnswered(f) ==
    /\ f.kind = "logout" /\ Answered(f, "post") /\ flows' = flows \ {f}
    /\ token' = 0 /\ user' = Nobody /\ loading' = FALSE /\ leaving' = "login"
    /\ UNCHANGED <<path, counters, sessions, givenUp>>

\* updateProfileName takes the answer for the user, a page ignores whose it is.
CallAnswered(f) ==
    /\ f.kind \in {"profile", "page"} /\ Answered(f, "post") /\ flows' = flows \ {f}
    /\ user' = IF f.kind = "profile" /\ f.got = "ok" THEN sessions[f.tok].owner ELSE user
    /\ token' = Pruned(f)
    /\ UNCHANGED <<loading, path, leaving, counters, sessions, givenUp>>

-----------------------------------------------------------------------------

FlowMoves(f) ==
    \/ Serve(f) \/ ServeSignIn(f) \/ NonceAnswered(f) \/ SignatureGivenUp(f)
    \/ SessionGiven(f) \/ MeAnswered(f) \/ LogoutAnswered(f) \/ CallAnswered(f)

SessionNext ==
    \/ TabLoads \/ Redirect
    \/ \E p \in Paths : FollowLink(p)
    \/ \E u \in Users : ClickSiwe(u) \/ SubmitPassword(u) \/ SubmitRegister(u)
    \/ ClickLogout \/ SaveName \/ PageCall
    \/ \E s \in DOMAIN sessions : Expire(s)
    \/ \E f \in flows : FlowMoves(f) \/ Signs(f)

\* Requests end, the timer of the signature fires and pages load; users and the
\* wallet need not do anything.
SessionFairness ==
    /\ WF_sessionVars(TabLoads) /\ WF_sessionVars(Redirect)
    /\ WF_sessionVars(\E f \in flows : FlowMoves(f))

SessionSpec == SessionInit /\ [][SessionNext]_sessionVars

-----------------------------------------------------------------------------

\* A tab at rest that shows nobody keeps no token, and one that shows a user holds
\* no other user's token: whatever failed, expired or was answered late on the way
\* (useAuth.tsx:51, api-client.ts:88).
TabAtRest == flows = {} /\ leaving = "no"
TokenMatchesUser ==
    TabAtRest =>
        /\ user = Nobody => token = 0
        /\ user # Nobody /\ token # 0 => sessions[token].owner = user

\* A wallet sign-in reported as cancelled or timed out never becomes a session,
\* although the wallet's prompt stays open (siwe.ts:54).
GivenUpForGood == \A s \in DOMAIN sessions : sessions[s].by \notin givenUp

\* A session belongs to the user shown, and to no sign-in that was given up (useAuth.tsx:51, siwe.ts:54).
SessionIsOwn == TokenMatchesUser /\ GivenUpForGood

\* What must not last: a spinner, a page load or a redirect that is due.  No wallet
\* that never answers, expired token or failed request leaves "Authenticating..." on
\* or bounces between login page and console (siwe.ts:54, AdminLayout).
SessionWaits == loading \/ leaving # "no" \/ Redirecting(path)
=============================================================================
