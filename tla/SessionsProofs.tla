--------------------------- MODULE SessionsProofs ---------------------------
(***************************************************************************)
(* Proofs about Sessions for every set of tabs, users and admitted users,  *)
(* any number of moves and every combination of faults.                    *)
(***************************************************************************)
EXTENDS Sessions, TLAPS

(* A tab has a session only with the token that its page has read.         *)
MemberInv(t) ==
  /\ session[t] \in {"asking", "profile", "refused", "in"} => token[t] # None
  /\ session[t] = "in" => shown[t] = token[t].user /\ shown[t] \in Allowed
  /\ url[t] = "menu" <=> session[t] # "none"

(* A form is disabled only while its own call is under way.                *)
FormInv(t) == submitting[t] => call[t] # None /\ call[t].here

(* The tab of a visitor who waits does one thing at a time: a form's call, *)
(* or the validation of the session, or a navigation.                      *)
PatientInv(t) ==
  patient =>
    /\ call[t] # None => url[t] # "menu" /\ goto[t] = None
    /\ session[t] \in Checking \union {"in"} => goto[t] = None
    /\ session[t] = "out" => goto[t] = "sign-in"
    /\ gone[t] = {}

(* What no sign-in is to leave in the cookie.                              *)
CookieInv == cookie # None /\ cookie.era = "new" => cookie.user \in Allowed

(* While nothing fails or expires every token is good.                     *)
FaultlessInv ==
  faults = {} =>
    /\ expired = {}
    /\ cookie # None => cookie.user \in Allowed
    /\ \A t \in Tabs : session[t] # "refused"
    /\ \A t \in Tabs : token[t] # None => token[t].user \in Allowed
    /\ \A t \in Tabs : \A v \in gone[t] : v.state # "refused" /\ v.token.user \in Allowed

IInv ==
  /\ TypeOK
  /\ \A t \in Tabs : MemberInv(t) /\ FormInv(t) /\ PatientInv(t)
  /\ CookieInv
  /\ FaultlessInv

-----------------------------------------------------------------------------
(* A tab starts on a page without a user. *)
LEMMA InitInv == Init => IInv
<1> SUFFICES ASSUME Init PROVE IInv
  OBVIOUS
<1>1. cookie \in Token \union {None} /\ (cookie # None => cookie.era = "old")
      /\ (faults = {} /\ cookie # None => cookie.user \in Allowed)
  BY SessionsAssumption DEF Init, Token
<1>2. url \in [Tabs -> {"sign-in", "menu"}]
  BY DEF Init
<1>3. TypeOK
  BY <1>1, <1>2, SessionsAssumption DEF Init, TypeOK, Pages, Modes, SessionStates, Checking
<1>4. \A t \in Tabs : MemberInv(t) /\ FormInv(t) /\ PatientInv(t)
  BY <1>2 DEF Init, MemberInv, FormInv, PatientInv, Checking
<1>5. CookieInv /\ FaultlessInv
  BY <1>1, <1>2 DEF Init, CookieInv, FaultlessInv
<1> QED
  BY <1>3, <1>4, <1>5 DEF IInv

(* A tab is not disturbed by what happens to another.                      *)
LEMMA OtherTab ==
  ASSUME IInv, NEW t \in Tabs, patient' = patient,
         url'[t] = url[t], goto'[t] = goto[t], session'[t] = session[t], token'[t] = token[t],
         shown'[t] = shown[t], gone'[t] = gone[t], call'[t] = call[t],
         submitting'[t] = submitting[t]
  PROVE  MemberInv(t)' /\ FormInv(t)' /\ PatientInv(t)'
BY DEF IInv, MemberInv, FormInv, PatientInv

-----------------------------------------------------------------------------
(* Pages *)

LEMMA OpenStep ==
  ASSUME IInv, NEW t \in Tabs, NEW u \in {"menu", "sign-in"}, Open(t, u) PROVE IInv'
<1> USE DEF IInv, Open, Mount, kind
<1>1. Proxy(u) \in {"menu", "sign-in"}
  BY DEF Proxy
<1>2. TypeOK'
  BY <1>1, SessionsAssumption DEF TypeOK, Pages, Modes, SessionStates, Checking, CallType
<1>3. MemberInv(t)' /\ FormInv(t)' /\ PatientInv(t)'
  BY <1>1 DEF TypeOK, MemberInv, FormInv, PatientInv, Checking
<1>4. \A s \in Tabs \ {t} : MemberInv(s)' /\ FormInv(s)' /\ PatientInv(s)'
  BY OtherTab DEF TypeOK
<1>5. CookieInv' /\ FaultlessInv'
  BY DEF TypeOK, CookieInv, FaultlessInv
<1> QED
  BY <1>2, <1>3, <1>4, <1>5

LEMMA ArriveStep ==
  ASSUME IInv, NEW t \in Tabs, Arrive(t) PROVE IInv'
<1> DEFINE u == Proxy(goto[t])
<1> USE DEF IInv, Arrive, Navigate, kind, member, form
<1>1. goto[t] \in Pages /\ u \in Pages
  BY DEF TypeOK, Proxy, Pages, Modes
<1>2. CASE u = url[t] \/ {u, url[t]} = Modes
  <2>1. url' = [url EXCEPT ![t] = u] /\ goto' = [goto EXCEPT ![t] = None]
        /\ UNCHANGED <<session, token, shown, gone, call, submitting>>
    BY <1>2
  <2>2. u = "menu" <=> url[t] = "menu"
    BY <1>2 DEF Modes
  <2>3. TypeOK'
    BY <1>1, <2>1 DEF TypeOK
  <2>4. MemberInv(t)' /\ FormInv(t)'
    BY <2>1, <2>2 DEF TypeOK, MemberInv, FormInv
  <2>5. PatientInv(t)'
    <3>1. goto[t] = "sign-in" => u = "sign-in"
      BY DEF Proxy
    <3>2. session[t] = "out" => url[t] = "menu"
      BY DEF MemberInv
    <3> QED
      BY <2>1, <2>2, <3>1, <3>2, SessionsAssumption DEF TypeOK, PatientInv, Checking, Pages
  <2>6. \A s \in Tabs \ {t} : MemberInv(s)' /\ FormInv(s)' /\ PatientInv(s)'
    BY <2>1, OtherTab DEF TypeOK
  <2>7. CookieInv' /\ FaultlessInv'
    BY <2>1 DEF CookieInv, FaultlessInv
  <2> QED
    BY <2>3, <2>4, <2>5, <2>6, <2>7
<1>3. CASE ~(u = url[t] \/ {u, url[t]} = Modes)
  <2>1. /\ Mount(t, u)
        /\ gone' = [gone EXCEPT ![t] = @ \union LeftBehind(t)]
        /\ call' = [call EXCEPT ![t] = IF @ = None THEN None ELSE [@ EXCEPT !.here = FALSE]]
    BY <1>3
  <2>2. LeftBehind(t) \subseteq Validation
    BY DEF TypeOK, MemberInv, LeftBehind, Validation
  <2>3. gone' \in [Tabs -> SUBSET Validation]
    BY <2>1, <2>2 DEF TypeOK
  <2>4. patient => LeftBehind(t) = {}
    BY <1>1, SessionsAssumption DEF PatientInv, LeftBehind, Checking
  <2>5. faults = {} =>
           \A v \in LeftBehind(t) : v.state # "refused" /\ v.token.user \in Allowed
    BY DEF FaultlessInv, MemberInv, LeftBehind
  <2>6. call' \in [Tabs -> CallType \union {None}]
    <3>1. \A c \in CallType : [c EXCEPT !.here = FALSE] \in CallType
      BY DEF CallType
    <3>2. call[t] \in CallType \union {None}
      BY DEF TypeOK
    <3>3. call'[t] \in CallType \union {None}
      BY <2>1, <3>1, <3>2 DEF TypeOK
    <3> QED
      BY <2>1, <3>3 DEF TypeOK
  <2>7. TypeOK'
    BY <1>1, <2>1, <2>6, <2>3 DEF TypeOK, Mount, SessionStates, Checking
  <2>8. MemberInv(t)' /\ FormInv(t)'
    BY <2>1 DEF TypeOK, Mount, MemberInv, FormInv
  <2>9. PatientInv(t)'
    BY <2>1, <1>1, <2>4, SessionsAssumption DEF TypeOK, Mount, PatientInv, Checking
  <2>10. \A s \in Tabs \ {t} : MemberInv(s)' /\ FormInv(s)' /\ PatientInv(s)'
    BY <2>1, OtherTab DEF TypeOK, Mount
  <2>11. CookieInv' /\ FaultlessInv'
    <3>1. CookieInv'
      BY <2>1 DEF CookieInv
    <3>2. ASSUME faults = {} PROVE \A s \in Tabs : \A v \in gone'[s] :
                                     v.state # "refused" /\ v.token.user \in Allowed
      BY <2>1, <2>5, <3>2 DEF TypeOK, FaultlessInv
    <3> QED
      BY <2>1, <3>1, <3>2 DEF TypeOK, Mount, FaultlessInv
  <2> QED
    BY <2>7, <2>8, <2>9, <2>10, <2>11
<1> QED
  BY <1>2, <1>3

LEMMA SwitchModeStep ==
  ASSUME IInv, NEW t \in Tabs, NEW m \in Modes, SwitchMode(t, m) PROVE IInv'
<1> USE DEF IInv, SwitchMode, Navigate, kind, member, form
<1>1. TypeOK'
  BY DEF TypeOK, Pages
<1>2. MemberInv(t)' /\ FormInv(t)' /\ PatientInv(t)'
  BY DEF TypeOK, MemberInv, FormInv, PatientInv, Checking, Awaited, Settled, Modes
<1>3. \A s \in Tabs \ {t} : MemberInv(s)' /\ FormInv(s)' /\ PatientInv(s)'
  BY OtherTab DEF TypeOK
<1>4. CookieInv' /\ FaultlessInv'
  BY DEF CookieInv, FaultlessInv
<1> QED
  BY <1>1, <1>2, <1>3, <1>4

-----------------------------------------------------------------------------
(* The sign-in page *)

LEMMA SendStep ==
  ASSUME IInv, NEW t \in Tabs, NEW u \in Users, url[t] \in Modes, MaySubmit(t), Send(t, u)
  PROVE  IInv'
<1> USE DEF IInv, Send, MaySubmit, kind, page, member
<1>1. call'[t] \in CallType
  BY DEF TypeOK, CallType
<1>2. TypeOK'
  BY <1>1, SessionsAssumption DEF TypeOK, CallType
<1>3. MemberInv(t)' /\ FormInv(t)' /\ PatientInv(t)'
  BY <1>1, SessionsAssumption
     DEF TypeOK, MemberInv, FormInv, PatientInv, Checking, Awaited, Settled, Modes
<1>4. \A s \in Tabs \ {t} : MemberInv(s)' /\ FormInv(s)' /\ PatientInv(s)'
  BY OtherTab DEF TypeOK
<1>5. CookieInv' /\ FaultlessInv'
  BY DEF CookieInv, FaultlessInv
<1> QED
  BY <1>2, <1>3, <1>4, <1>5

(* The API answers, or nobody does.                                        *)
LEMMA AnsweredStep ==
  ASSUME IInv, NEW t \in Tabs, ServeAuth(t) \/ FailAuth(t) PROVE IInv'
<1> USE DEF IInv, ServeAuth, FailAuth, Answered, kind, page, member
<1>1. call[t] \in CallType
  BY DEF TypeOK
<1>2. PICK state \in {"served", "failed"} : call' = [call EXCEPT ![t].state = state]
  OBVIOUS
<1>3. call'[t] \in CallType /\ call'[t].here = call[t].here
  BY <1>1, <1>2 DEF TypeOK, CallType
<1>4. call' \in [Tabs -> CallType \union {None}]
  BY <1>2, <1>3 DEF TypeOK
<1>5. known' \subseteq Users
  BY <1>1 DEF TypeOK, CallType
<1>6. TypeOK'
  BY <1>4, <1>5 DEF TypeOK
<1>7. MemberInv(t)' /\ FormInv(t)' /\ PatientInv(t)'
  BY <1>3, SessionsAssumption DEF TypeOK, MemberInv, FormInv, PatientInv
<1>8. \A s \in Tabs \ {t} : MemberInv(s)' /\ FormInv(s)' /\ PatientInv(s)'
  BY <1>2, OtherTab DEF TypeOK
<1>9. CookieInv' /\ FaultlessInv'
  BY DEF CookieInv, FaultlessInv
<1> QED
  BY <1>6, <1>7, <1>8, <1>9

LEMMA OnAuthStep ==
  ASSUME IInv, NEW t \in Tabs, OnAuth(t) PROVE IInv'
<1> USE DEF IInv, OnAuth, CompleteAuth, Over, WriteSessionToken, Navigate, Admits, kind, member
<1>1. call[t] \in CallType /\ call[t].user \in Users
  BY DEF TypeOK, CallType
<1>2. cookie' \in Token \union {None}
  BY <1>1 DEF TypeOK, Token
<1>3. goto' \in [Tabs -> Pages \union {None}]
  BY DEF TypeOK, Pages
<1>4. TypeOK'
  BY <1>2, <1>3 DEF TypeOK
<1>5. MemberInv(t)' /\ FormInv(t)'
  BY DEF TypeOK, MemberInv, FormInv
<1>6. PatientInv(t)'
  BY DEF TypeOK, MemberInv, PatientInv, Checking
<1>7. \A s \in Tabs \ {t} : MemberInv(s)' /\ FormInv(s)' /\ PatientInv(s)'
  <2> SUFFICES ASSUME NEW s \in Tabs \ {t} PROVE MemberInv(s)' /\ FormInv(s)' /\ PatientInv(s)'
    OBVIOUS
  <2>1. goto'[s] = goto[s]
    BY DEF TypeOK
  <2> QED
    BY <2>1, OtherTab DEF TypeOK
<1>8. CookieInv' /\ FaultlessInv'
  BY DEF CookieInv, FaultlessInv
<1> QED
  BY <1>4, <1>5, <1>6, <1>7, <1>8

-----------------------------------------------------------------------------
(* The menu page *)

(* A page without a session is left.                                       *)
LEMMA LeaveStep ==
  ASSUME IInv, NEW t \in Tabs, ClearSessionToken, Leave(t), url[t] = "menu",
         patient => call[t] = None,
         UNCHANGED <<kind, expired, known, url, form, moves>>
  PROVE  IInv'
<1> USE DEF IInv, ClearSessionToken, Leave, Become, Navigate, kind, form
<1>1. TypeOK'
  BY DEF TypeOK, SessionStates, Pages, Modes
<1>2. MemberInv(t)' /\ FormInv(t)' /\ PatientInv(t)'
  BY DEF TypeOK, MemberInv, FormInv, PatientInv, Checking
<1>3. \A s \in Tabs \ {t} : MemberInv(s)' /\ FormInv(s)' /\ PatientInv(s)'
  BY OtherTab DEF TypeOK
<1>4. CookieInv' /\ FaultlessInv'
  BY DEF TypeOK, CookieInv, FaultlessInv
<1> QED
  BY <1>1, <1>2, <1>3, <1>4

LEMMA ValidateStep ==
  ASSUME IInv, NEW t \in Tabs, Validate(t) PROVE IInv'
<1>1. url[t] = "menu" /\ (patient => call[t] = None)
  BY DEF IInv, Validate, MemberInv, PatientInv
<1>2. CASE cookie = None \/ cookie \in expired
  BY <1>1, <1>2, LeaveStep DEF Validate
<1>3. CASE ~(cookie = None \/ cookie \in expired)
  <2> USE <1>3 DEF IInv, Validate, Become, kind, form
  <2>1. TypeOK'
    BY DEF TypeOK, SessionStates, Checking
  <2>2. MemberInv(t)' /\ FormInv(t)' /\ PatientInv(t)'
    BY DEF TypeOK, MemberInv, FormInv, PatientInv, Checking
  <2>3. \A s \in Tabs \ {t} : MemberInv(s)' /\ FormInv(s)' /\ PatientInv(s)'
    BY OtherTab DEF TypeOK
  <2>4. CookieInv' /\ FaultlessInv'
    BY DEF TypeOK, CookieInv, FaultlessInv
  <2> QED
    BY <2>1, <2>2, <2>3, <2>4
<1> QED
  BY <1>2, <1>3

LEMMA ServeMeStep ==
  ASSUME IInv, NEW t \in Tabs, ServeMe(t) PROVE IInv'
<1> USE DEF IInv, ServeMe, Become, kind, page, form
<1>1. PICK state \in {"profile", "refused"} :
        /\ session' = [session EXCEPT ![t] = state]
        /\ state = "refused" => token[t] \in expired \/ "error" \in faults
  BY DEF Judgements
<1>2. TypeOK'
  BY <1>1 DEF TypeOK, SessionStates, Checking
<1>3. MemberInv(t)' /\ FormInv(t)' /\ PatientInv(t)'
  BY <1>1 DEF TypeOK, MemberInv, FormInv, PatientInv, Checking
<1>4. \A s \in Tabs \ {t} : MemberInv(s)' /\ FormInv(s)' /\ PatientInv(s)'
  BY <1>1, OtherTab DEF TypeOK
<1>5. CookieInv' /\ FaultlessInv'
  BY <1>1 DEF TypeOK, CookieInv, FaultlessInv
<1> QED
  BY <1>2, <1>3, <1>4, <1>5

LEMMA OnMeStep ==
  ASSUME IInv, NEW t \in Tabs, OnMe(t) PROVE IInv'
<1>1. url[t] = "menu" /\ (patient => call[t] = None)
  BY DEF IInv, OnMe, MemberInv, PatientInv
<1>2. CASE session[t] = "profile" /\ Admits(token[t].user)
  <2> USE <1>2 DEF IInv, OnMe, Become, Admits, kind, form
  <2>1. token[t] \in Token /\ token[t].user \in Users
    BY DEF TypeOK, MemberInv, Token
  <2>2. TypeOK'
    BY <2>1 DEF TypeOK, SessionStates
  <2>3. MemberInv(t)' /\ FormInv(t)' /\ PatientInv(t)'
    BY DEF TypeOK, MemberInv, FormInv, PatientInv, Checking
  <2>4. \A s \in Tabs \ {t} : MemberInv(s)' /\ FormInv(s)' /\ PatientInv(s)'
    BY OtherTab DEF TypeOK
  <2>5. CookieInv' /\ FaultlessInv'
    BY DEF TypeOK, CookieInv, FaultlessInv
  <2> QED
    BY <2>2, <2>3, <2>4, <2>5
<1>3. CASE ~(session[t] = "profile" /\ Admits(token[t].user))
  BY <1>1, <1>3, LeaveStep DEF OnMe
<1> QED
  BY <1>2, <1>3

(* The tab of a visitor who waits has no validation of a page that is gone.*)
LEMMA GoneSteps ==
  ASSUME IInv, NEW t \in Tabs, GoneStep(t) PROVE IInv'
<1> USE DEF IInv, GoneStep, ServeGone, OnMeGone, ClearSessionToken, Navigate, kind, page, form
<1>1. PICK v \in gone[t] :
        /\ v.state = "asking" =>
             \E j \in Judgements(v.token) \intersect {"profile", "refused"} :
               gone' = [gone EXCEPT ![t] = (@ \ {v}) \union {[v EXCEPT !.state = j]}]
        /\ v.state # "asking" => gone' = [gone EXCEPT ![t] = @ \ {v}]
        /\ cookie' \in {cookie, None}
        /\ goto' = goto \/ goto' = [goto EXCEPT ![t] = "sign-in"]
        /\ UNCHANGED <<kind, expired, known, url, session, token, shown, form, moves>>
  BY DEF TypeOK
<1>2. ~patient
  BY DEF PatientInv
<1>3. v \in Validation
  BY DEF TypeOK
<1> HIDE DEF GoneStep, ServeGone, OnMeGone
<1>4. /\ gone' \in [Tabs -> SUBSET Validation]
      /\ \A s \in Tabs \ {t} : gone'[s] = gone[s]
      /\ faults = {} => \A s \in Tabs : \A w \in gone'[s] :
                         w.state # "refused" /\ w.token.user \in Allowed
  <2>1. CASE v.state = "asking"
    <3>1. PICK j \in Judgements(v.token) \intersect {"profile", "refused"} :
            gone' = [gone EXCEPT ![t] = (@ \ {v}) \union {[v EXCEPT !.state = j]}]
      BY <1>1, <2>1
    <3> DEFINE w == [v EXCEPT !.state = j]
    <3>2. w \in Validation /\ w.state = j /\ w.token = v.token
      BY <1>3 DEF Validation
    <3>3. faults = {} => j # "refused" /\ v.token.user \in Allowed
      BY DEF FaultlessInv, Judgements
    <3> HIDE DEF w
    <3> QED
      BY <3>1, <3>2, <3>3 DEF TypeOK, FaultlessInv, w
  <2>2. CASE v.state # "asking"
    BY <1>1, <2>2 DEF TypeOK, FaultlessInv
  <2> QED
    BY <2>1, <2>2
<1>5. TypeOK'
  BY <1>1, <1>4 DEF TypeOK, Pages, Modes
<1>6. MemberInv(t)' /\ FormInv(t)' /\ PatientInv(t)'
  BY <1>1, <1>2 DEF MemberInv, FormInv, PatientInv
<1>7. \A s \in Tabs \ {t} : MemberInv(s)' /\ FormInv(s)' /\ PatientInv(s)'
  BY <1>1, <1>4, OtherTab DEF TypeOK
<1>8. CookieInv' /\ FaultlessInv'
  BY <1>1, <1>4 DEF CookieInv, FaultlessInv
<1> QED
  BY <1>5, <1>6, <1>7, <1>8

LEMMA SignOutStep ==
  ASSUME IInv, NEW t \in Tabs, SignOut(t) PROVE IInv'
BY LeaveStep DEF IInv, SignOut, MemberInv, PatientInv, Awaited, Settled

LEMMA ExpireStep ==
  ASSUME IInv, NEW k \in Token, Expire(k) PROVE IInv'
<1> USE DEF IInv, Expire, kind, page, member, form
<1>1. TypeOK'
  BY DEF TypeOK
<1>2. \A s \in Tabs : MemberInv(s)' /\ FormInv(s)' /\ PatientInv(s)'
  BY OtherTab
<1>3. CookieInv' /\ FaultlessInv'
  BY DEF CookieInv, FaultlessInv
<1> QED
  BY <1>1, <1>2, <1>3

LEMMA StepInv == IInv /\ [Next]_vars => IInv'
<1> SUFFICES ASSUME IInv, [Next]_vars PROVE IInv'
  OBVIOUS
<1>1. ASSUME NEW t \in Tabs, TabStep(t) PROVE IInv'
  <2>1. ASSUME NEW u \in {"menu", "sign-in"}, Open(t, u) PROVE IInv'
    BY <2>1, OpenStep
  <2>2. CASE Arrive(t)
    BY <2>2, ArriveStep
  <2>3. ASSUME NEW m \in Modes, SwitchMode(t, m) PROVE IInv'
    BY <2>3, SwitchModeStep
  <2>4. ASSUME NEW u \in Users, OnSignIn(t, u) \/ OnSignUp(t, u) PROVE IInv'
    BY <2>4, SendStep DEF OnSignIn, OnSignUp, SignInForm, SignUpForm, Modes
  <2>5. CASE FormStep(t) \/ FailAuth(t)
    BY <2>5, AnsweredStep, OnAuthStep DEF FormStep
  <2>6. CASE PageStep(t) \/ SignOut(t)
    BY <2>6, ValidateStep, ServeMeStep, OnMeStep, SignOutStep DEF PageStep
  <2>7. CASE GoneStep(t)
    BY <2>7, GoneSteps
  <2> QED
    BY <1>1, <2>1, <2>2, <2>3, <2>4, <2>5, <2>6, <2>7 DEF TabStep
<1>2. ASSUME NEW k \in Token, Expire(k) PROVE IInv'
  BY <1>2, ExpireStep
<1>3. CASE UNCHANGED vars
  <2> USE <1>3 DEF vars, kind, page, member, form
  <2>1. \A s \in Tabs : MemberInv(s)' /\ FormInv(s)' /\ PatientInv(s)'
    BY OtherTab
  <2> QED
    BY <2>1 DEF IInv, TypeOK, CookieInv, FaultlessInv
<1> QED
  BY <1>1, <1>2, <1>3 DEF Next

-----------------------------------------------------------------------------
(* The inductive invariant of Sessions, for every behaviour of the tabs.   *)
THEOREM Invariance == Spec => []IInv
BY InitInv, StepInv, PTL DEF Spec

(* Every variable of Sessions keeps its type.                              *)
THEOREM TypeCorrect == Spec => []TypeOK
<1>1. IInv => TypeOK
  BY DEF IInv
<1> QED
  BY <1>1, Invariance, PTL

(* validateSession: a tab acts with the token of the user it shows.        *)
THEOREM Shown == Spec => []ShowsWhoActs
<1>1. IInv => ShowsWhoActs
  BY DEF IInv, MemberInv, ShowsWhoActs
<1> QED
  BY <1>1, Invariance, PTL

(* completeAuth and validateSession: who is not admitted gets in nowhere.  *)
THEOREM Kept == Spec => []PolicyIsKept
<1>1. IInv => PolicyIsKept
  BY DEF IInv, MemberInv, CookieInv, PolicyIsKept
<1> QED
  BY <1>1, Invariance, PTL

(* The forms and the redirects: a tab at rest has an enabled form or, for  *)
(* a visitor who waits, a session.                                         *)
THEOREM Usable == Spec => []NoDeadEnd
<1>1. IInv => NoDeadEnd
  <2> SUFFICES ASSUME IInv, NEW t \in Tabs, Settled(t)
               PROVE  ~submitting[t] /\ (patient => url[t] # "menu" \/ session[t] = "in")
    BY DEF NoDeadEnd
  <2>1. ~submitting[t]
    BY DEF IInv, FormInv, Settled, TypeOK
  <2>2. ASSUME patient, url[t] = "menu" PROVE session[t] = "in"
    <3>1. session[t] \in {"in", "out"}
      BY <2>2 DEF IInv, TypeOK, MemberInv, Settled, SessionStates
    <3>2. session[t] # "out"
      BY <2>2, SessionsAssumption DEF IInv, PatientInv, Settled, Pages, Modes
    <3> QED
      BY <3>1, <3>2
  <2> QED
    BY <2>1, <2>2
<1> QED
  BY <1>1, Invariance, PTL

(* validateSession and signOut: while nothing fails or expires, the cookie *)
(* is cleared by signing out only.                                         *)
THEOREM SignedIn == Spec => KeptUntilSignOut
<1>1. IInv /\ [Next]_vars =>
        [(faults = {} /\ cookie # None /\ cookie' = None) => \E t \in Tabs : SignOut(t)]_vars
  <2> SUFFICES ASSUME IInv, Next, faults = {}, cookie # None, cookie' = None
               PROVE  \E t \in Tabs : SignOut(t)
    OBVIOUS
  <2>1. ASSUME NEW k \in Token, Expire(k) PROVE FALSE
    BY <2>1 DEF Expire
  <2>2. ASSUME NEW t \in Tabs, TabStep(t), ~SignOut(t) PROVE FALSE
    <3>1. ASSUME NEW u \in {"menu", "sign-in"}, Open(t, u) PROVE FALSE
      BY <3>1 DEF Open
    <3>2. CASE Arrive(t)
      BY <3>2 DEF Arrive
    <3>3. ASSUME NEW m \in Modes, SwitchMode(t, m) PROVE FALSE
      BY <3>3 DEF SwitchMode
    <3>4. ASSUME NEW u \in Users, OnSignIn(t, u) \/ OnSignUp(t, u) PROVE FALSE
      BY <3>4 DEF OnSignIn, OnSignUp, Send
    <3>5. CASE ServeAuth(t) \/ FailAuth(t) \/ ServeMe(t)
      BY <3>5 DEF ServeAuth, FailAuth, ServeMe
    <3>6. CASE OnAuth(t)
      <4>1. call[t].user \in Users
        BY <3>6 DEF IInv, TypeOK, OnAuth, CallType
      <4>2. [user |-> call[t].user, era |-> "new"] # None
        BY <4>1, SessionsAssumption DEF Token
      <4> QED
        BY <3>6, <4>2 DEF OnAuth, CompleteAuth, WriteSessionToken
    <3>7. CASE Validate(t)
      BY <3>7 DEF Validate, IInv, FaultlessInv
    <3>8. CASE OnMe(t)
      BY <3>8 DEF OnMe, IInv, FaultlessInv, MemberInv, Admits
    <3>9. CASE GoneStep(t)
      <4>1. PICK v \in gone[t] : v.state # "asking" /\ ~(v.state = "profile" /\ v.token.user \in Allowed)
        BY <3>9 DEF GoneStep, ServeGone, OnMeGone, Admits
      <4>2. v \in Validation
        BY DEF IInv, TypeOK
      <4> QED
        BY <4>1, <4>2 DEF IInv, FaultlessInv, Validation
    <3> QED
      BY <2>2, <3>1, <3>2, <3>3, <3>4, <3>5, <3>6, <3>7, <3>8, <3>9
         DEF TabStep, FormStep, PageStep
  <2> QED
    BY <2>1, <2>2 DEF Next
<1> QED
  BY <1>1, Invariance, PTL DEF Spec, KeptUntilSignOut

-----------------------------------------------------------------------------
(* What the tab of a visitor who waits may be busy with.                   *)
Sent(t) == call[t] # None /\ call[t].state = "sent"
Replied(t) == call[t] # None /\ call[t].state # "sent"
ToMenu(t) == goto[t] = "menu"
ToForm(t) == goto[t] \in Modes
Loading(t) == session[t] = "loading"
Asking(t) == session[t] = "asking"
Judged(t) == session[t] \in {"profile", "refused"}

LEMMA OneThing ==
  ASSUME IInv, patient, NEW t \in Tabs
  PROVE  /\ Settled(t) \/ Sent(t) \/ Replied(t) \/ ToMenu(t) \/ ToForm(t)
            \/ Loading(t) \/ Asking(t) \/ Judged(t)
         /\ Sent(t) \/ Replied(t) => goto[t] = None /\ session[t] = "none"
         /\ ToMenu(t) \/ ToForm(t) => call[t] = None /\ session[t] \notin Checking
         /\ Loading(t) \/ Asking(t) \/ Judged(t) => call[t] = None /\ goto[t] = None
<1> USE SessionsAssumption DEF IInv, Sent, Replied, ToMenu, ToForm, Loading, Asking, Judged
<1>1. TypeOK /\ MemberInv(t) /\ PatientInv(t)
  OBVIOUS
<1>2. call[t] # None => goto[t] = None /\ session[t] = "none"
  BY <1>1 DEF MemberInv, PatientInv
<1>3. goto[t] # None => call[t] = None /\ session[t] \notin Checking
  BY <1>1 DEF PatientInv
<1>4. goto[t] \in {None, "menu"} \union Modes
  BY <1>1 DEF TypeOK, Pages
<1>5. session[t] \in Checking => call[t] = None /\ goto[t] = None
  BY <1>2, <1>3, <1>1 DEF Checking
<1>6. "menu" # None /\ None \notin Modes
  BY DEF Pages
<1> QED
  BY <1>2, <1>3, <1>4, <1>5, <1>6 DEF Settled, Checking

(* What each step makes of what the tab is doing.                          *)
LEMMA FormFacts ==
  ASSUME IInv, patient, NEW t \in Tabs, FormStep(t) \/ FailAuth(t)
  PROVE  \/ Sent(t) /\ Replied(t)'
         \/ Replied(t) /\ (Settled(t) \/ ToMenu(t))'
<1> USE SessionsAssumption DEF Sent, Replied, ToMenu, Settled
<1>1. TypeOK /\ call[t] \in CallType /\ call[t] # None
  BY DEF IInv, TypeOK, FormStep, ServeAuth, FailAuth, OnAuth
<1>2. goto[t] = None /\ session[t] = "none"
  BY <1>1, OneThing
<1>3. ASSUME NEW state \in {"served", "failed"}, call[t].state = "sent", Answered(t, state)
      PROVE  Sent(t) /\ Replied(t)'
  <2>1. call'[t] \in CallType /\ call'[t].state = state
    BY <1>1, <1>3 DEF TypeOK, Answered, CallType
  <2> QED
    BY <1>1, <1>3, <2>1
<1>4. CASE ServeAuth(t) \/ FailAuth(t)
  BY <1>3, <1>4 DEF ServeAuth, FailAuth
<1>5. CASE OnAuth(t)
  <2>1. call[t].state # "sent" /\ call'[t] = None /\ session'[t] = "none"
    BY <1>1, <1>2, <1>5 DEF OnAuth, Over, TypeOK, member
  <2>2. goto'[t] \in {None, "menu"}
    BY <1>1, <1>2, <1>5 DEF OnAuth, CompleteAuth, Navigate, TypeOK
  <2> QED
    BY <1>1, <2>1, <2>2 DEF Checking
<1> QED
  BY <1>4, <1>5 DEF FormStep

LEMMA PageFacts ==
  ASSUME IInv, patient, NEW t \in Tabs, PageStep(t)
  PROVE  \/ Loading(t) /\ (Asking(t) \/ ToForm(t))'
         \/ Asking(t) /\ Judged(t)'
         \/ Judged(t) /\ (Settled(t) \/ ToForm(t))'
<1> USE DEF Loading, Asking, Judged, ToForm, Settled
<1>1. TypeOK /\ session[t] \in Checking
  BY DEF IInv, PageStep, Validate, ServeMe, OnMe, Checking
<1>2. goto[t] = None /\ call[t] = None
  BY <1>1, OneThing DEF Checking
<1>3. Leave(t) => goto'[t] = "sign-in"
  BY <1>1 DEF Leave, Navigate, TypeOK
<1>4. CASE Validate(t)
  BY <1>1, <1>3, <1>4 DEF Validate, Become, TypeOK, Modes
<1>5. CASE ServeMe(t)
  <2>1. PICK j \in {"profile", "refused"} : session' = [session EXCEPT ![t] = j]
    BY <1>5 DEF ServeMe, Become, Judgements
  <2> QED
    BY <1>1, <1>5, <2>1 DEF ServeMe, TypeOK
<1>6. CASE OnMe(t)
  BY <1>1, <1>2, <1>3, <1>6 DEF OnMe, Become, TypeOK, Modes, form, Checking
<1> QED
  BY <1>4, <1>5, <1>6 DEF PageStep

LEMMA ArriveFacts ==
  ASSUME IInv, patient, NEW t \in Tabs, Arrive(t)
  PROVE  \/ ToMenu(t) /\ (Settled(t) \/ Loading(t))'
         \/ ToForm(t) /\ Settled(t)'
<1> USE DEF Loading, ToMenu, ToForm, Settled
<1> DEFINE u == Proxy(goto[t])
<1>1. TypeOK /\ MemberInv(t) /\ PatientInv(t) /\ goto[t] \in Pages /\ goto[t] # None
  BY DEF IInv, Arrive, TypeOK
<1>2. call[t] = None /\ session[t] \notin Checking /\ goto'[t] = None
  BY <1>1, OneThing DEF Arrive, Navigate, TypeOK, Pages
<1>3. /\ goto[t] \in Modes => u = goto[t]
      /\ goto[t] = "menu" => u \in {"menu", "sign-in"}
  BY DEF Proxy, Modes
<1>4. CASE UNCHANGED <<member, form>>
  BY <1>1, <1>2, <1>4 DEF member, form, Pages
<1>5. CASE /\ Mount(t, u)
           /\ call' = [call EXCEPT ![t] = IF @ = None THEN None ELSE [@ EXCEPT !.here = FALSE]]
  BY <1>1, <1>2, <1>3, <1>5 DEF Mount, TypeOK, Pages, Modes, Checking
<1> QED
  BY <1>4, <1>5 DEF Arrive

(* A tab that is busy is moved by its own steps only.                      *)
LEMMA TabMoves ==
  ASSUME IInv, patient, NEW t \in Tabs, ~Settled(t), [Next]_vars
  PROVE  /\ patient' = patient
         /\ \/ call'[t] = call[t] /\ goto'[t] = goto[t] /\ session'[t] = session[t]
            \/ FormStep(t) \/ FailAuth(t) \/ PageStep(t) \/ Arrive(t)
<1> USE DEF kind, page, member, form
<1>1. TypeOK
  BY DEF IInv
<1>2. ASSUME NEW s \in Tabs, TabStep(s), s # t
      PROVE  patient' = patient /\ call'[t] = call[t] /\ goto'[t] = goto[t] /\ session'[t] = session[t]
  <2> USE <1>1, <1>2 DEF TypeOK
  <2>1. ASSUME NEW u \in {"menu", "sign-in"}, Open(s, u)
        PROVE  patient' = patient /\ call'[t] = call[t] /\ goto'[t] = goto[t] /\ session'[t] = session[t]
    BY <2>1 DEF Open, Mount
  <2>2. CASE Arrive(s)
    BY <2>2 DEF Arrive, Mount, Navigate
  <2>3. CASE \E m \in Modes : SwitchMode(s, m)
    BY <2>3 DEF SwitchMode, Navigate
  <2>4. CASE \E u \in Users : OnSignIn(s, u) \/ OnSignUp(s, u)
    BY <2>4 DEF OnSignIn, OnSignUp, Send
  <2>5. CASE ServeAuth(s) \/ FailAuth(s)
    BY <2>5 DEF ServeAuth, FailAuth, Answered
  <2>6. CASE OnAuth(s)
    BY <2>6 DEF OnAuth, CompleteAuth, Over, Navigate
  <2>7. CASE PageStep(s) \/ SignOut(s)
    BY <2>7 DEF PageStep, Validate, ServeMe, OnMe, SignOut, Leave, Become, Navigate
  <2>8. CASE GoneStep(s)
    BY <2>8 DEF GoneStep, ServeGone, OnMeGone, Navigate
  <2> QED
    BY <1>2, <2>1, <2>2, <2>3, <2>4, <2>5, <2>6, <2>7, <2>8 DEF TabStep, FormStep
<1>3. CASE TabStep(t)
  <2>1. patient' = patient
    BY <1>3 DEF TabStep, Open, Arrive, SwitchMode, OnSignIn, OnSignUp, Send, FormStep, ServeAuth,
       FailAuth, OnAuth, PageStep, Validate, ServeMe, OnMe, GoneStep, ServeGone, OnMeGone, SignOut
  <2>2. \A u \in {"menu", "sign-in"} : ~Open(t, u)
    BY DEF Open, Awaited
  <2>3. \A m \in Modes : ~SwitchMode(t, m)
    BY DEF SwitchMode, Awaited
  <2>4. \A u \in Users : ~OnSignIn(t, u) /\ ~OnSignUp(t, u)
    BY DEF OnSignIn, OnSignUp, SignInForm, SignUpForm, MaySubmit, Awaited
  <2>5. ~SignOut(t)
    BY DEF SignOut, Awaited
  <2>6. ~GoneStep(t)
    BY DEF IInv, PatientInv, GoneStep, ServeGone, OnMeGone
  <2> QED
    BY <1>3, <2>1, <2>2, <2>3, <2>4, <2>5, <2>6 DEF TabStep
<1>4. CASE (\E k \in Token : Expire(k)) \/ UNCHANGED vars
  BY <1>4 DEF Expire, vars
<1> QED
  BY <1>2, <1>3, <1>4 DEF Next

(* What a state must have for each of a tab's steps: the guards of Arrive, *)
(* FormStep and PageStep.  That a step is ENABLED where its guard holds is *)
(* what none of the provers knows.                                         *)
GuardsEnable ==
  \A t \in Tabs :
    /\ goto[t] # None => ENABLED <<Arrive(t)>>_vars
    /\ call[t] # None => ENABLED <<FormStep(t)>>_vars
    /\ session[t] \in Checking => ENABLED <<PageStep(t)>>_vars

(* The tabs of visitors who wait come to rest: what a tab is busy with     *)
(* leads on to the next thing and never back, from the form's call to the  *)
(* guard, the menu page's validateSession and the sign-in page, with other *)
(* tabs at work on the cookie all the while.                               *)
THEOREM Rests == FairSpec /\ []GuardsEnable => TabsSettle
<1> SUFFICES ASSUME NEW t \in Tabs
             PROVE  FairSpec /\ []GuardsEnable => []<>(patient => Settled(t))
  BY DEF TabsSettle
<1> DEFINE C1 == patient /\ Sent(t)
           C2 == patient /\ Replied(t)
           G1 == patient /\ ToMenu(t)
           L == patient /\ Loading(t)
           A == patient /\ Asking(t)
           J == patient /\ Judged(t)
           G2 == patient /\ ToForm(t)
           Rest == patient => Settled(t)
<1>1. FairSpec => Spec /\ GoesOn(t)
  BY DEF FairSpec
<1>2. GuardsEnable => /\ C1 \/ C2 => ENABLED <<FormStep(t)>>_vars
                      /\ G1 \/ G2 => ENABLED <<Arrive(t)>>_vars
                      /\ L \/ A \/ J => ENABLED <<PageStep(t)>>_vars
  <2>1. /\ C1 \/ C2 => call[t] # None
        /\ G1 \/ G2 => goto[t] # None
        /\ L \/ A \/ J => session[t] \in Checking
    BY SessionsAssumption
       DEF Sent, Replied, ToMenu, ToForm, Loading, Asking, Judged, Checking, Pages
  <2> HIDE DEF C1, C2, G1, G2, L, A, J
  <2> QED
    BY <2>1 DEF GuardsEnable
<1>3. IInv /\ [Next]_vars => /\ C1 => C1' \/ C2' \/ Rest'
                             /\ C2 => C2' \/ G1' \/ Rest'
                             /\ G1 => G1' \/ L' \/ Rest'
                             /\ L => L' \/ A' \/ G2' \/ Rest'
                             /\ A => A' \/ J' \/ Rest'
                             /\ J => J' \/ G2' \/ Rest'
                             /\ G2 => G2' \/ Rest'
  <2> SUFFICES ASSUME IInv, [Next]_vars, patient, ~Settled(t)
               PROVE  /\ C1 => C1' \/ C2' \/ Rest'
                      /\ C2 => C2' \/ G1' \/ Rest'
                      /\ G1 => G1' \/ L' \/ Rest'
                      /\ L => L' \/ A' \/ G2' \/ Rest'
                      /\ A => A' \/ J' \/ Rest'
                      /\ J => J' \/ G2' \/ Rest'
                      /\ G2 => G2' \/ Rest'
    BY SessionsAssumption
       DEF Settled, Sent, Replied, ToMenu, ToForm, Loading, Asking, Judged, Checking, Pages
  <2>1. patient'
    BY TabMoves
  <2>2. CASE call'[t] = call[t] /\ goto'[t] = goto[t] /\ session'[t] = session[t]
    BY <2>1, <2>2 DEF Sent, Replied, ToMenu, ToForm, Loading, Asking, Judged
  <2>3. CASE FormStep(t) \/ FailAuth(t)
    BY <2>1, <2>3, FormFacts, OneThing DEF Sent, Replied, ToMenu, ToForm, Loading, Asking, Judged
  <2>4. CASE PageStep(t)
    <3>1. ~Sent(t) /\ ~Replied(t) /\ ~ToMenu(t) /\ ~ToForm(t)
      BY <2>4, PageFacts, OneThing, SessionsAssumption DEF Sent, Replied, ToMenu, ToForm, Pages
    <3>2. \/ Loading(t) /\ ~Asking(t) /\ ~Judged(t)
          \/ Asking(t) /\ ~Loading(t) /\ ~Judged(t)
          \/ Judged(t) /\ ~Loading(t) /\ ~Asking(t)
      BY <2>4, PageFacts DEF Loading, Asking, Judged
    <3> QED
      BY <2>1, <2>4, <3>1, <3>2, PageFacts
  <2>5. CASE Arrive(t)
    <3>1. ~Sent(t) /\ ~Replied(t) /\ ~Loading(t) /\ ~Asking(t) /\ ~Judged(t)
      BY <2>5, ArriveFacts, OneThing DEF Sent, Replied, Loading, Asking, Judged, Checking
    <3>2. ~(ToMenu(t) /\ ToForm(t))
      BY DEF ToMenu, ToForm, Modes
    <3> QED
      BY <2>1, <2>5, <3>1, <3>2, ArriveFacts
  <2> QED
    BY <2>2, <2>3, <2>4, <2>5, TabMoves
<1>4. /\ IInv /\ C1 /\ <<FormStep(t)>>_vars => C2' \/ Rest'
      /\ IInv /\ C2 /\ <<FormStep(t)>>_vars => G1' \/ Rest'
  <2> SUFFICES ASSUME IInv, patient, FormStep(t)
               PROVE  /\ C1 => C2' \/ Rest'
                      /\ C2 => G1' \/ Rest'
    OBVIOUS
  <2>1. ~(Sent(t) /\ Replied(t))
    BY DEF Sent, Replied
  <2>2. patient' = patient
    BY DEF FormStep, ServeAuth, OnAuth, kind
  <2> QED
    BY <2>1, <2>2, FormFacts
<1>5. /\ IInv /\ G1 /\ <<Arrive(t)>>_vars => L' \/ Rest'
      /\ IInv /\ G2 /\ <<Arrive(t)>>_vars => Rest'
  <2> SUFFICES ASSUME IInv, patient, Arrive(t)
               PROVE  /\ G1 => L' \/ Rest'
                      /\ G2 => Rest'
    OBVIOUS
  <2>1. ~(ToMenu(t) /\ ToForm(t))
    BY DEF ToMenu, ToForm, Modes
  <2>2. patient' = patient
    BY DEF Arrive, kind
  <2> QED
    BY <2>1, <2>2, ArriveFacts
<1>6. /\ IInv /\ L /\ <<PageStep(t)>>_vars => A' \/ G2'
      /\ IInv /\ A /\ <<PageStep(t)>>_vars => J'
      /\ IInv /\ J /\ <<PageStep(t)>>_vars => G2' \/ Rest'
  <2> SUFFICES ASSUME IInv, patient, PageStep(t)
               PROVE  /\ L => A' \/ G2'
                      /\ A => J'
                      /\ J => G2' \/ Rest'
    OBVIOUS
  <2>1. ~(Loading(t) /\ Asking(t)) /\ ~(Loading(t) /\ Judged(t)) /\ ~(Asking(t) /\ Judged(t))
    BY DEF Loading, Asking, Judged
  <2>2. patient' = patient
    BY DEF PageStep, Validate, ServeMe, OnMe, kind
  <2> QED
    BY <2>1, <2>2, PageFacts
<1>7. IInv => Rest \/ C1 \/ C2 \/ G1 \/ L \/ A \/ J \/ G2
  BY OneThing
<1> HIDE DEF C1, C2, G1, L, A, J, G2
<1>8. FairSpec /\ []GuardsEnable => []<>Rest
  <2> HIDE DEF Rest
  <2> QED
    BY <1>1, <1>2, <1>3, <1>4, <1>5, <1>6, <1>7, Invariance, PTL DEF Spec, GoesOn
<1> QED
  BY <1>8
=============================================================================
