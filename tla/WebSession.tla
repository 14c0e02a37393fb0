----------------------------- MODULE WebSession -----------------------------
(***************************************************************************)
(* The two cookies that keep a browser signed in to the web application,   *)
(* and the session rows of the API behind them.                            *)
(*                                                                         *)
(* Each call of api, apiUpload or apiFetchRaw works on the cookies its     *)
(* request came with.  When the access token is refused it rotates the     *)
(* refresh token, and the answer brings the browser the new pair; calls of *)
(* one page and of several tabs and images do so side by side.             *)
(***************************************************************************)
EXTENDS Integers, FiniteSets

CONSTANTS
    Calls,          \* calls the web server has under way at a time
    MaxTokens,      \* bound on the pairs of tokens issued
    MaxFailures,    \* bound on the calls that are cut short
    None

SessionAssumption ==
    /\ IsFiniteSet(Calls) /\ MaxTokens \in Nat /\ MaxFailures \in Nat
    /\ None \notin 1..MaxTokens

VARIABLES
    jar,        \* the browser's cookies: at, rt
    row,        \* sessions, one per pair of tokens: family and whether revoked
    valid,      \* access tokens that have not expired
    call,       \* what each call is doing, with which cookies, and what it got
    disturbed,  \* a rotation's answer was lost, or another call was beside it
    failures

vars == <<jar, row, valid, call, disturbed, failures>>

(* A pair of tokens is the number of the session it was issued with.       *)
Tokens == 1..MaxTokens
Unissued == [family |-> None, live |-> FALSE]
NoCookies == [at |-> None, rt |-> None]
Idle == [pc |-> "idle", kind |-> "page", at |-> None, rt |-> None, got |-> None]

At(c, pc) == call[c].pc = pc
Goes(c, w) == call' = [call EXCEPT ![c] = w]
Steps(c, pc) == Goes(c, [call[c] EXCEPT !.pc = pc])
Ends(c) == Goes(c, Idle)
Quiet == \A c \in Calls : At(c, "idle")

Refreshing(c) == call[c].pc \in {"issue", "save", "respond"}

(***************************************************************************)
(* A call                                                                  *)
(***************************************************************************)

(* A page reads its cookies and cannot set any; a server action and the    *)
(* photo route can.                                                        *)
Kinds == {"page", "action"}

Opens(c, kind) ==
    /\ At(c, "idle")
    /\ Goes(c, [pc |-> "send", kind |-> kind, at |-> jar.at, rt |-> jar.rt, got |-> None])
    /\ disturbed' = (disturbed \/ \E d \in Calls : Refreshing(d))
    /\ UNCHANGED <<jar, row, valid, failures>>

(* JwtAuthGuard: the token has not expired and its session is live. *)
Accepts(t) == t # None /\ t \in valid /\ row[t].live

(* On a 401, or with no token to send.  Without a refresh token the call   *)
(* is refused, and its page sends the browser to the sign-in page.         *)
MustRefresh(c) == ~Accepts(call[c].at)

Sends(c) ==
    /\ At(c, "send")
    /\ IF MustRefresh(c) /\ call[c].rt # None THEN Steps(c, "refresh") ELSE Ends(c)
    /\ UNCHANGED <<jar, row, valid, disturbed, failures>>

Revoked(f) == [t \in Tokens |-> IF row[t].family = f THEN [row[t] EXCEPT !.live = FALSE]
                                ELSE row[t]]

(* POST /auth/refresh claims the rotation, or takes the token for a stolen *)
(* one and ends its family.                                                *)
Rotates(c) ==
    LET t == call[c].rt IN
    /\ At(c, "refresh")
    /\ IF row[t].live
       THEN row' = [row EXCEPT ![t].live = FALSE] /\ Steps(c, "issue")
       ELSE row' = Revoked(row[t].family) /\ Ends(c)
    /\ disturbed' = (disturbed \/ \E d \in Calls \ {c} : ~At(d, "idle"))
    /\ UNCHANGED <<jar, valid, failures>>

(* Pairs are numbered as they are issued. *)
Issues(t, f) ==
    /\ row[t] = Unissued /\ \A u \in 1..(t - 1) : row[u] # Unissued
    /\ row' = [row EXCEPT ![t] = [family |-> f, live |-> TRUE]]
    /\ valid' = valid \union {t}

IssuesNext(c, t) ==
    /\ At(c, "issue") /\ Issues(t, row[call[c].rt].family)
    /\ Goes(c, [call[c] EXCEPT !.pc = "save", !.got = t])
    /\ UNCHANGED <<jar, disturbed, failures>>

(* Next.js throws where cookies cannot be set, and the call ends there;    *)
(* elsewhere it is sent again, and what comes of it goes with the cookies. *)
SaveSession(c) ==
    /\ At(c, "save")
    /\ IF call[c].kind = "page" THEN Ends(c) ELSE Steps(c, "respond")
    /\ disturbed' = (disturbed \/ call[c].kind = "page")
    /\ UNCHANGED <<jar, row, valid, failures>>

(* Variant: a browser that holds a refresh token keeps it. *)
AccessCookieOnly(t) == [at |-> t, rt |-> IF jar.rt = None THEN t ELSE jar.rt]

Cookies(t) == [at |-> t, rt |-> t]

Responds(c) ==
    /\ At(c, "respond")
    /\ jar' = Cookies(call[c].got)
    /\ Ends(c)
    /\ UNCHANGED <<row, valid, disturbed, failures>>

(* The process dies, an answer of the API is lost, or the browser is gone. *)
CutShort(c) ==
    /\ ~At(c, "idle") /\ failures < MaxFailures
    /\ failures' = failures + 1
    /\ Ends(c)
    /\ disturbed' = (disturbed \/ Refreshing(c) \/ At(c, "clear"))
    /\ UNCHANGED <<jar, row, valid>>

(* The cookie goes a little before the token does, so the token lapses in  *)
(* the hands of a call; an answer that comes late leaves a dead cookie.    *)
(* That of a session revoked is refused already.                           *)
Lapses(t) ==
    /\ t \in valid /\ row[t].live
    /\ valid' = valid \ {t}
    /\ jar' = IF jar.at = t THEN [jar EXCEPT !.at = None] ELSE jar
    /\ UNCHANGED <<row, call, disturbed, failures>>

(***************************************************************************)
(* Signing in and out                                                      *)
(***************************************************************************)

(* The form is shown to a browser without a refresh cookie, whatever the   *)
(* other tabs do before the code is typed in.                              *)
OpensLogin(c) ==
    /\ At(c, "idle") /\ jar.rt = None
    /\ Goes(c, [Idle EXCEPT !.pc = "verify", !.kind = "action"])
    /\ UNCHANGED <<jar, row, valid, disturbed, failures>>

VerifyOtp(c, t) ==
    /\ At(c, "verify") /\ Issues(t, t)
    /\ Goes(c, [call[c] EXCEPT !.pc = "respond", !.got = t])
    /\ UNCHANGED <<jar, disturbed, failures>>

OpensSignOut(c) ==
    /\ At(c, "idle") /\ jar.rt # None
    /\ Goes(c, [Idle EXCEPT !.pc = "logout", !.kind = "action", !.rt = jar.rt])
    /\ UNCHANGED <<jar, row, valid, disturbed, failures>>

(* "Clearing our own cookies matters more than the server acknowledging."  *)
Logout(c) ==
    /\ At(c, "logout")
    /\ \/ row' = [row EXCEPT ![call[c].rt].live = FALSE] /\ UNCHANGED failures
       \/ failures < MaxFailures /\ failures' = failures + 1 /\ UNCHANGED row
    /\ Steps(c, "clear")
    /\ UNCHANGED <<jar, valid, disturbed>>

ClearSession(c) ==
    /\ At(c, "clear")
    /\ jar' = NoCookies
    /\ Ends(c)
    /\ UNCHANGED <<row, valid, disturbed, failures>>

(***************************************************************************)
(* The system                                                              *)
(***************************************************************************)

Init ==
    /\ jar = NoCookies
    /\ row = [t \in Tokens |-> Unissued]
    /\ valid = {}
    /\ call = [c \in Calls |-> Idle]
    /\ disturbed = FALSE /\ failures = 0

Next ==
    \/ \E c \in Calls :
          \/ \E kind \in Kinds : Opens(c, kind)
          \/ \E t \in Tokens : IssuesNext(c, t) \/ VerifyOtp(c, t)
          \/ Sends(c) \/ Rotates(c) \/ SaveSession(c) \/ Responds(c) \/ CutShort(c)
          \/ OpensLogin(c) \/ OpensSignOut(c) \/ Logout(c) \/ ClearSession(c)
    \/ \E t \in Tokens : Lapses(t)

Spec == Init /\ [][Next]_vars

(***************************************************************************)
(* Properties                                                              *)
(***************************************************************************)

SignedInForReal == jar.rt # None => row[jar.rt].live

(* A rotation of its own keeps the browser signed in (api, saveSession):   *)
(* as long as every rotation was done by an action that nothing else was   *)
(* beside and nothing cut short, a browser whose calls have all ended      *)
(* holds a refresh token that still works, or none, whatever tabs signed   *)
(* in and out meanwhile.                                                   *)
SoleRefreshKeepsSession == Quiet /\ ~disturbed => SignedInForReal

(* "The access token is short-lived by design, so this happens routinely   *)
(* rather than exceptionally" (api): with nothing failing and all calls    *)
(* ended, a browser that holds a refresh token is signed in.  It does not  *)
(* hold: a page cannot set the cookies it was given, and of the calls a    *)
(* page or its photos make at once each rotates the same token, which ends *)
(* the family; the sign-in page then sends the holder of the dead cookie   *)
(* back to the page that sent them.                                        *)
StaysSignedIn == Quiet /\ failures = 0 => SignedInForReal
=============================================================================
