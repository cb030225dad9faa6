------------------------------ MODULE Sessions ------------------------------
(***************************************************************************)
(* Signing in and out in the web UI: the sign-in page, the guard in front  *)
(* of the menu page, and the session cookie.                               *)
(*                                                                         *)
(* All tabs of a browser share one cookie, and none is told when another   *)
(* changes it.  A tab copies the token into its own state once, when the   *)
(* menu page has validated it, and uses the copy from then on.  Between    *)
(* the guard's look at the cookie, the page's, and the API's answer, other *)
(* tabs sign in and out.                                                   *)
(*                                                                         *)
(* router.replace only starts a navigation: the page changes later, and a  *)
(* second replace supersedes the first.  The continuation of a call runs   *)
(* also when the component that made it is gone, but not after the page    *)
(* was loaded anew.                                                        *)
(*                                                                         *)
(* There is one page behind the guard, so that the target a visitor asked  *)
(* for, which the guard and the sign-in page hand on, plays no part here.  *)
(***************************************************************************)
EXTENDS Naturals, FiniteSets

CONSTANTS
  Tabs,      (* the tabs of the browser                                     *)
  Users,     (* the people who use it                                       *)
  Allowed,   (* those whose e-mail domain NEXT_PUBLIC_ALLOWED_EMAIL_DOMAINS *)
             (* admits                                                      *)
  Known,     (* those who have an account from the start                    *)
  MaxMoves,  (* the pages that are loaded anew and the forms that are       *)
             (* submitted; bounds the model                                 *)
  Faults,    (* a subset of FaultKinds                                      *)
  None

(* A call fails or loses its answer; the time of an old token runs out.    *)
FaultKinds == {"error", "expiry"}

Token == [user : Users, era : {"old", "new"}]

(* The menu page, and the sign-in page in its two modes.                   *)
Modes == {"sign-in", "sign-up"}
Pages == {"menu"} \union Modes

CallType == [state : {"sent", "served", "failed"}, how : Modes, user : Users, here : BOOLEAN]

(* The validation of a token, from the call for the profile on.            *)
Validation == [state : {"asking", "profile", "refused"}, token : Token]

ASSUME SessionsAssumption ==
  /\ Allowed \subseteq Users /\ Known \subseteq Users
  /\ MaxMoves \in Nat
  /\ Faults \subseteq FaultKinds
  /\ None \notin Token \union CallType \union Pages

VARIABLES
  patient,    (* do the visitors wait for a page to settle?                 *)
  faults,     (* the faults of this behaviour                               *)
  cookie,     (* the token in the cookie, or None                           *)
  expired,    (* the tokens whose time is over                              *)
  known,      (* the API's: the users who have an account                   *)
  url,        (* url[t]: the page tab t shows                               *)
  goto,       (* goto[t]: the page it is on its way to, or None             *)
  session,    (* session[t]: where validateSession is, and how it ended     *)
  token,      (* token[t]: the token that the menu page of t has read       *)
  shown,      (* shown[t]: the user whose name the page shows, or None      *)
  gone,       (* gone[t]: the validations under way of menu pages that are  *)
              (* not in tab t any more                                      *)
  call,       (* call[t]: the sign-in call of t; one at a time, which       *)
              (* bounds the model                                           *)
  submitting, (* submitting[t]: is the form's button disabled?              *)
  moves       (* the pages loaded and the forms submitted so far            *)

kind == <<patient, faults>>
page == <<url, goto>>
member == <<session, token, shown, gone>>
form == <<call, submitting>>
vars == <<kind, cookie, expired, known, page, member, form, moves>>

Checking == {"loading", "asking", "profile", "refused"}
SessionStates == {"none", "in", "out"} \union Checking

Admits(u) == u \in Allowed

(* A cookie may be left over from an earlier visit; without faults it is   *)
(* a good one.                                                             *)
Init ==
  /\ patient \in BOOLEAN /\ faults \in {{}, Faults}
  /\ cookie \in {None} \union [user : IF faults = {} THEN Allowed \intersect Known ELSE Known,
                               era : {"old"}]
  /\ expired = {} /\ known = Known
  /\ url \in [Tabs -> IF cookie = None THEN {"sign-in"} ELSE {"sign-in", "menu"}]
  /\ goto = [t \in Tabs |-> None]
  /\ session = [t \in Tabs |-> IF url[t] = "menu" THEN "loading" ELSE "none"]
  /\ token = [t \in Tabs |-> None]
  /\ shown = [t \in Tabs |-> None]
  /\ gone = [t \in Tabs |-> {}]
  /\ call = [t \in Tabs |-> None]
  /\ submitting = [t \in Tabs |-> FALSE]
  /\ moves = 0

(* A patient visitor does nothing while the tab is busy.                   *)
Settled(t) == goto[t] = None /\ call[t] = None /\ session[t] \notin Checking
Awaited(t) == patient => Settled(t)

-----------------------------------------------------------------------------
(* Pages *)

(* proxy: the guard in front of every page but the sign-in page looks at   *)
(* whether there is a cookie, not at what is in it.                        *)
Proxy(u) == IF u = "menu" /\ cookie = None THEN "sign-in" ELSE u

(* The page of u is mounted in tab t.                                      *)
Mount(t, u) ==
  /\ url' = [url EXCEPT ![t] = u]
  /\ session' = [session EXCEPT ![t] = IF u = "menu" THEN "loading" ELSE "none"]
  /\ token' = [token EXCEPT ![t] = None]
  /\ shown' = [shown EXCEPT ![t] = None]
  /\ submitting' = [submitting EXCEPT ![t] = FALSE]

(* The visitor opens a page in the tab, or reloads it.  Of a registration  *)
(* under way nobody will learn how it ended.                               *)
Open(t, u) ==
  /\ Awaited(t) /\ moves < MaxMoves
  /\ moves' = moves + 1
  /\ Mount(t, Proxy(u))
  /\ goto' = [goto EXCEPT ![t] = None]
  /\ gone' = [gone EXCEPT ![t] = {}]
  /\ call' = [call EXCEPT ![t] = None]
  /\ known' \in {known} \union
       (IF call[t] # None /\ call[t].state = "sent" /\ call[t].how = "sign-up"
        THEN {known \union {call[t].user}} ELSE {})
  /\ UNCHANGED <<kind, cookie, expired>>

(* The cookie: one for all tabs of the browser.                            *)
WriteSessionToken(k) == cookie' = k
ClearSessionToken == cookie' = None

Navigate(t, u) == goto' = [goto EXCEPT ![t] = u]

(* The validation that the page of tab t leaves behind: its effect is      *)
(* cleaned up, but the call is not given up.                               *)
LeftBehind(t) ==
  IF session[t] \in {"asking", "profile", "refused"}
  THEN {[state |-> session[t], token |-> token[t]]} ELSE {}

(* A navigation ends.  It stays in the document, and on the same page it   *)
(* keeps the components and their state.                                   *)
Arrive(t) ==
  /\ goto[t] # None
  /\ Navigate(t, None)
  /\ LET u == Proxy(goto[t]) IN
     IF u = url[t] \/ {u, url[t]} = Modes
     THEN url' = [url EXCEPT ![t] = u] /\ UNCHANGED <<member, form>>
     ELSE /\ Mount(t, u)
          /\ gone' = [gone EXCEPT ![t] = @ \union LeftBehind(t)]
          /\ call' = [call EXCEPT ![t] = IF @ = None THEN None ELSE [@ EXCEPT !.here = FALSE]]
  /\ UNCHANGED <<kind, cookie, expired, known, moves>>

-----------------------------------------------------------------------------
(* The sign-in page *)

(* setMode: the form keeps its state, a call under way included.           *)
SwitchMode(t, m) ==
  /\ url[t] \in Modes /\ Awaited(t)
  /\ Navigate(t, m)
  /\ UNCHANGED <<kind, cookie, expired, known, url, member, form, moves>>

Send(t, u) ==
  /\ moves < MaxMoves
  /\ moves' = moves + 1
  /\ call' = [call EXCEPT ![t] = [state |-> "sent", how |-> url[t], user |-> u, here |-> TRUE]]
  /\ submitting' = [submitting EXCEPT ![t] = TRUE]
  /\ UNCHANGED <<kind, cookie, expired, known, page, member>>

(* The button of either form is disabled while a call is under way.        *)
MaySubmit(t) == ~submitting[t] /\ call[t] = None /\ Awaited(t)

SignInForm(t) == url[t] = "sign-in" /\ MaySubmit(t)
SignUpForm(t) == url[t] = "sign-up" /\ MaySubmit(t)

OnSignIn(t, u) == SignInForm(t) /\ Send(t, u)

(* An address that is not admitted is turned down before the call.         *)
OnSignUp(t, u) == SignUpForm(t) /\ Admits(u) /\ Send(t, u)

Answered(t, state) == call' = [call EXCEPT ![t].state = state]

(* The API: a user signs in who has an account, and signs up who has none. *)
(* Its own policy on domains, if it has one, need not be the page's.       *)
ServeAuth(t) ==
  /\ call[t] # None /\ call[t].state = "sent"
  /\ IF call[t].how = "sign-in"
     THEN /\ Answered(t, IF call[t].user \in known THEN "served" ELSE "failed")
          /\ UNCHANGED known
     ELSE /\ Answered(t, IF call[t].user \in known THEN "failed" ELSE "served")
          /\ known' = known \union {call[t].user}
  /\ UNCHANGED <<kind, cookie, expired, page, member, submitting, moves>>

FailAuth(t) ==
  /\ "error" \in faults
  /\ call[t] # None /\ call[t].state = "sent"
  /\ Answered(t, "failed")
  /\ known' \in {known} \union
       (IF call[t].how = "sign-up" THEN {known \union {call[t].user}} ELSE {})
  /\ UNCHANGED <<kind, cookie, expired, page, member, submitting, moves>>

(* Variant: the answer's address is not checked again.                     *)
CompleteAuthUnchecked(t) ==
  /\ WriteSessionToken([user |-> call[t].user, era |-> "new"])
  /\ Navigate(t, "menu")

(* completeAuth: the token answered goes into the cookie.                  *)
CompleteAuth(t) ==
  IF Admits(call[t].user)
  THEN /\ WriteSessionToken([user |-> call[t].user, era |-> "new"])
       /\ Navigate(t, "menu")
  ELSE UNCHANGED <<cookie, goto>>

(* Variant: the form stays disabled after an answer.                       *)
OverUnlessServed(t) ==
  /\ call' = [call EXCEPT ![t] = None]
  /\ submitting' = [submitting EXCEPT ![t] = @ /\ call[t].state = "served"]

(* finally: the form's button is enabled again, also before the navigation *)
(* has ended.  A form that is gone has no button.                          *)
Over(t) ==
  /\ call' = [call EXCEPT ![t] = None]
  /\ submitting' = [submitting EXCEPT ![t] = @ /\ ~call[t].here]

(* Variant: an error is not caught.                                        *)
OnAuthUncaught(t) ==
  /\ call[t] # None /\ call[t].state = "served"
  /\ CompleteAuth(t)
  /\ Over(t)
  /\ UNCHANGED <<kind, expired, known, url, member, moves>>

OnAuth(t) ==
  /\ call[t] # None /\ call[t].state \in {"served", "failed"}
  /\ IF call[t].state = "served" THEN CompleteAuth(t) ELSE UNCHANGED <<cookie, goto>>
  /\ Over(t)
  /\ UNCHANGED <<kind, expired, known, url, member, moves>>

-----------------------------------------------------------------------------
(* The menu page *)

Become(t, state) == session' = [session EXCEPT ![t] = state]

(* The page has no session and leads to the sign-in page.                  *)
Leave(t) ==
  /\ Become(t, "out")
  /\ token' = [token EXCEPT ![t] = None]
  /\ shown' = [shown EXCEPT ![t] = None]
  /\ Navigate(t, "sign-in")
  /\ UNCHANGED gone

(* validateSession looks at the cookie, which need not be the one that the *)
(* guard has seen.                                                         *)
Validate(t) ==
  /\ session[t] = "loading"
  /\ IF cookie = None \/ cookie \in expired
     THEN ClearSessionToken /\ Leave(t)
     ELSE /\ token' = [token EXCEPT ![t] = cookie]
          /\ Become(t, "asking")
          /\ UNCHANGED <<cookie, shown, gone, goto>>
  /\ UNCHANGED <<kind, expired, known, url, form, moves>>

(* The API knows the tokens it has signed, until their time is over.       *)
Judgements(k) ==
  {IF k \in expired THEN "refused" ELSE "profile"} \union
    (IF "error" \in faults THEN {"refused"} ELSE {})

ServeMe(t) ==
  /\ session[t] = "asking"
  /\ \E j \in Judgements(token[t]) : Become(t, j)
  /\ UNCHANGED <<kind, cookie, expired, known, page, token, shown, gone, form, moves>>

(* Variants: the session starts with what is in the cookie by now; the     *)
(* profile's domain is not checked.                                        *)
OnMeRereads(t) ==
  /\ session[t] \in {"profile", "refused"}
  /\ IF session[t] = "profile" /\ Admits(token[t].user)
     THEN /\ Become(t, "in")
          /\ token' = [token EXCEPT ![t] = cookie]
          /\ shown' = [shown EXCEPT ![t] = token[t].user]
          /\ UNCHANGED <<cookie, gone, goto>>
     ELSE ClearSessionToken /\ Leave(t)
  /\ UNCHANGED <<kind, expired, known, url, form, moves>>

OnMeUnchecked(t) ==
  /\ session[t] \in {"profile", "refused"}
  /\ IF session[t] = "profile"
     THEN /\ Become(t, "in")
          /\ shown' = [shown EXCEPT ![t] = token[t].user]
          /\ UNCHANGED <<cookie, token, gone, goto>>
     ELSE ClearSessionToken /\ Leave(t)
  /\ UNCHANGED <<kind, expired, known, url, form, moves>>

(* A profile of an admitted user starts the session; anything else clears  *)
(* the cookie, whatever has been put into it meanwhile.                    *)
OnMe(t) ==
  /\ session[t] \in {"profile", "refused"}
  /\ IF session[t] = "profile" /\ Admits(token[t].user)
     THEN /\ Become(t, "in")
          /\ shown' = [shown EXCEPT ![t] = token[t].user]
          /\ UNCHANGED <<cookie, token, gone, goto>>
     ELSE ClearSessionToken /\ Leave(t)
  /\ UNCHANGED <<kind, expired, known, url, form, moves>>

(* A validation goes on also when its page is gone.  It touches no state   *)
(* of the page any more, but it still clears the cookie and leads the tab, *)
(* wherever that is by now, to the sign-in page (validateSession asks      *)
(* isMounted before it sets a state, and before nothing else).             *)
ServeGone(t) ==
  \E v \in gone[t], j \in {"profile", "refused"} :
    /\ v.state = "asking" /\ j \in Judgements(v.token)
    /\ gone' = [gone EXCEPT ![t] = (@ \ {v}) \union {[v EXCEPT !.state = j]}]
    /\ UNCHANGED <<kind, cookie, expired, known, page, session, token, shown, form, moves>>

OnMeGone(t) ==
  \E v \in gone[t] :
    /\ v.state # "asking"
    /\ gone' = [gone EXCEPT ![t] = @ \ {v}]
    /\ IF v.state = "profile" /\ Admits(v.token.user)
       THEN UNCHANGED <<cookie, goto>>
       ELSE ClearSessionToken /\ Navigate(t, "sign-in")
    /\ UNCHANGED <<kind, expired, known, url, session, token, shown, form, moves>>

(* The button is there whenever the page is not checking.                  *)
SignOut(t) ==
  /\ session[t] \in {"in", "out"} /\ Awaited(t)
  /\ ClearSessionToken
  /\ Leave(t)
  /\ UNCHANGED <<kind, expired, known, url, form, moves>>

Expire(k) ==
  /\ "expiry" \in faults
  /\ k.era = "old" /\ k \notin expired
  /\ expired' = expired \union {k}
  /\ UNCHANGED <<kind, cookie, known, page, member, form, moves>>

FormStep(t) == ServeAuth(t) \/ OnAuth(t)
PageStep(t) == Validate(t) \/ ServeMe(t) \/ OnMe(t)
GoneStep(t) == ServeGone(t) \/ OnMeGone(t)

TabStep(t) ==
  \/ \E u \in {"menu", "sign-in"} : Open(t, u)
  \/ Arrive(t)
  \/ \E m \in Modes : SwitchMode(t, m)
  \/ \E u \in Users : OnSignIn(t, u) \/ OnSignUp(t, u)
  \/ FormStep(t) \/ FailAuth(t)
  \/ PageStep(t) \/ GoneStep(t) \/ SignOut(t)

Next == (\E t \in Tabs : TabStep(t)) \/ (\E k \in Token : Expire(k))

Spec == Init /\ [][Next]_vars

(* The API settles every request, and the browser ends every navigation    *)
(* and runs every effect and continuation.                                 *)
GoesOn(t) ==
  /\ WF_vars(Arrive(t)) /\ WF_vars(FormStep(t))
  /\ WF_vars(PageStep(t)) /\ WF_vars(GoneStep(t))

FairSpec == Spec /\ \A t \in Tabs : GoesOn(t)

-----------------------------------------------------------------------------
(* Properties *)

(* Every variable has its type. *)
TypeOK ==
  /\ patient \in BOOLEAN /\ faults \subseteq FaultKinds
  /\ cookie \in Token \union {None}
  /\ expired \subseteq Token /\ known \subseteq Users
  /\ url \in [Tabs -> Pages] /\ goto \in [Tabs -> Pages \union {None}]
  /\ session \in [Tabs -> SessionStates]
  /\ token \in [Tabs -> Token \union {None}]
  /\ shown \in [Tabs -> Users \union {None}]
  /\ gone \in [Tabs -> SUBSET Validation]
  /\ call \in [Tabs -> CallType \union {None}]
  /\ submitting \in [Tabs -> BOOLEAN]
  /\ moves \in 0..MaxMoves

(* However the tabs sign in and out around it, a tab acts with the token   *)
(* of the user it shows (menu-context.tsx reads the cookie once, before it *)
(* awaits the profile).                                                    *)
ShowsWhoActs ==
  \A t \in Tabs : session[t] = "in" => token[t] # None /\ shown[t] = token[t].user

(* A user whose domain is not admitted gets into no tab, also with a token *)
(* from the time before the domain was excluded, and no sign-in leaves     *)
(* such a user's token in the cookie.                                      *)
PolicyIsKept ==
  /\ \A t \in Tabs : session[t] = "in" => shown[t] \in Allowed
  /\ cookie # None /\ cookie.era = "new" => cookie.user \in Allowed

(* While nothing fails or expires, nobody is signed out but by signing     *)
(* out: whoever the form lets in is not turned away by the menu page of    *)
(* any tab.                                                                *)
KeptUntilSignOut ==
  [][(faults = {} /\ cookie # None /\ cookie' = None) => \E t \in Tabs : SignOut(t)]_vars

(* A tab that has come to rest is of use: it has a session, or it shows    *)
(* the sign-in page with a button that is enabled, whatever the other tabs *)
(* do.  A visitor who does not wait can be left on a menu page without a   *)
(* session, by a sign-in that ends when the page is about to be left.      *)
NoDeadEnd ==
  \A t \in Tabs : Settled(t) =>
    /\ ~submitting[t]
    /\ patient => url[t] # "menu" \/ session[t] = "in"

(* The tabs of visitors who wait come to rest again and again: no call is  *)
(* without an end, and the guard, the two pages and their redirects send   *)
(* nobody in a circle.                                                     *)
TabsSettle == \A t \in Tabs : []<>(patient => Settled(t))
=============================================================================
