------------------------- MODULE OpsSessionsProofs -------------------------
(***************************************************************************)
(* Proofs about OpsSessions for any number of requests and passwords, any  *)
(* lifetime of a session and any bound on the clock.                       *)
(***************************************************************************)
EXTENDS OpsSessions, TLAPS

Kinds(r, kinds) == form[r].kind \in kinds
Proven(r) == witnessed[r] \cap {"cookie", "key"} # {}

\* Which forms come by which steps.
FormInv ==
    \A r \in Requests :
        /\ pc[r] \notin {"new", "refused"} => form[r] \in Forms
        /\ pc[r] \in {"verify", "pinned", "pin"} => Kinds(r, {"login"})
        /\ pc[r] \in {"auth", "header"} => Kinds(r, {"view", "change"})
        /\ pc[r] \in {"current", "rotate"} => Kinds(r, {"change"})
        /\ pc[r] \in {"purge", "issue"} => Kinds(r, {"login", "change"})

\* What is good now has been remembered.
WitnessInv == \A r \in Requests : Good(r) \subseteq witnessed[r]

\* What each step of a request has behind it.
DueInv ==
    /\ \A r \in Requests :
          /\ pc[r] \in {"pinned", "pin", "rotate", "purge", "issue"} => "typed" \in witnessed[r]
          /\ pc[r] \in {"current", "rotate"} => Proven(r)
          /\ pc[r] \in {"purge", "issue"} /\ Kinds(r, {"change"}) => Proven(r)
    /\ AccessWasDue

\* A row is a granted request's, a revoked or selected one never becomes live.
RowsInv ==
    /\ \A t \in Requests : sessions[t] # None => pc[t] = "granted"
    /\ \A t \in revoked : pc[t] = "granted" /\ sessions[t] = None
    /\ \A r \in Requests : \A t \in dead[r] : pc[t] = "granted" /\ ~Live(t)

\* A barred request is one with a revoked cookie; past the header it had the key.
BarredInv ==
    \A r \in barred :
        /\ pc[r] # "new"
        /\ pc[r] # "refused" => form[r].cookie \in revoked
        /\ pc[r] \in {"current", "rotate", "purge", "issue", "granted"} => "key" \in witnessed[r]

IInv == TypeOK /\ FormInv /\ WitnessInv /\ DueInv /\ RowsInv /\ BarredInv

LEMMA InitInv == Init => IInv
<1>. SUFFICES ASSUME Init PROVE IInv OBVIOUS
<1>1. TypeOK BY TimeAssumption DEF Init, TypeOK, Steps
<1>2. WitnessInv BY DEF Init, WitnessInv, Good
<1>. QED
  BY <1>1, <1>2
  DEF Init, IInv, FormInv, DueInv, AccessWasDue, RowsInv, BarredInv

(***************************************************************************)
(* The memory of what was good grows until a request is refused.           *)
(***************************************************************************)
LEMMA MemoryGrows ==
    ASSUME Next
    PROVE  /\ WitnessInv'
           /\ \A r \in Requests : pc'[r] # "refused" => witnessed[r] \subseteq witnessed'[r]
<1>1. \A r \in Requests :
        witnessed'[r] = IF pc'[r] = "refused" THEN {} ELSE witnessed[r] \cup Good(r)'
  BY DEF Next
<1>2. \A r \in Requests : pc'[r] = "refused" => Good(r)' = {}
  BY DEF Good, Ended
<1>. QED BY <1>1, <1>2 DEF WitnessInv

LEMMA TypeKept == ASSUME TypeOK, FormInv, Next PROVE TypeOK'
<1>. USE DEF TypeOK
<1>1. witnessed' \in [Requests -> SUBSET {"cookie", "key", "typed"}]
  <2>. DEFINE W(r) == IF pc'[r] = "refused" THEN {} ELSE witnessed[r] \cup Good(r)'
  <2>1. \A r \in Requests : Good(r)' \subseteq {"cookie", "key", "typed"} BY DEF Good
  <2>2. \A r \in Requests : W(r) \in SUBSET {"cookie", "key", "typed"} BY <2>1
  <2>3. witnessed' = [r \in Requests |-> W(r)] BY DEF Next
  <2>. HIDE DEF W
  <2>. QED BY <2>2, <2>3
<1>2. now \in Nat /\ now + TTL \in Times BY TimeAssumption DEF Times
<1>3. ASSUME NEW r \in Requests, Begin(r) PROVE TypeOK'
  <2>1. PICK f \in Forms :
          /\ form' = [form EXCEPT ![r] = f]
          /\ barred' = IF f.cookie \in revoked THEN barred \cup {r} ELSE barred
    BY <1>3 DEF Begin
  <2>2. pc' \in [Requests -> Steps]
    <3>1. PICK s \in {"verify", "auth", "logout"} : pc' = [pc EXCEPT ![r] = s]
      BY <1>3 DEF Begin, Forms, Goto
    <3>. QED BY <3>1 DEF Steps
  <2>. QED BY <1>1, <1>3, <2>1, <2>2 DEF Begin, tableVars
<1>4. ASSUME NEW r \in Requests, Pin(r) PROVE TypeOK'
  <2>1. form[r].typed \in Passwords BY <1>4 DEF FormInv, Kinds, Pin, Forms
  <2>. QED BY <1>1, <1>4, <2>1 DEF Pin, Goto, Steps, Hashes
<1>5. ASSUME NEW r \in Requests, Rotate(r) PROVE TypeOK'
  <2>1. form[r].new \in Passwords BY <1>5 DEF FormInv, Kinds, Rotate, Forms
  <2>. QED BY <1>1, <1>5, <2>1 DEF Rotate, Goto, Steps, Hashes, Rows
<1>6. ASSUME NEW r \in Requests, AuthCookie(r) PROVE TypeOK'
  BY <1>1, <1>6 DEF AuthCookie, Goto, Authenticated, Steps
<1>7. ASSUME NEW r \in Requests, SelectExpired(r) PROVE TypeOK'
  BY <1>1, <1>7 DEF SelectExpired, Goto, Steps, Rows, tableVars
<1>8. ASSUME NEW r \in Requests, Issue(r) PROVE TypeOK'
  BY <1>1, <1>2, <1>8 DEF Issue, Goto, Steps
<1>9. ASSUME NEW r \in Requests,
             VerifyLogin(r) \/ ReadPinned(r) \/ AuthHeader(r) \/ CheckCurrent(r) \/ RefuseNew(r)
      PROVE  TypeOK'
  BY <1>1, <1>9
  DEF VerifyLogin, ReadPinned, AuthHeader, CheckCurrent, RefuseNew, Goto, Authenticated, Steps,
      tableVars
<1>10. ASSUME NEW r \in Requests, Logout(r) \/ Fail(r) PROVE TypeOK'
  BY <1>1, <1>10 DEF Logout, Fail, Goto, Steps, tableVars
<1>11. CASE Tick BY <1>1, <1>11, TimeAssumption DEF Tick
<1>. QED
  BY <1>3, <1>4, <1>5, <1>6, <1>7, <1>8, <1>9, <1>10, <1>11 DEF Next, Step

LEMMA FormKept == ASSUME TypeOK, FormInv, Next PROVE FormInv'
<1>. USE DEF TypeOK, FormInv, Kinds, Goto
<1>1. ASSUME NEW r \in Requests, Begin(r) PROVE FormInv'
  BY <1>1 DEF Begin, Forms
<1>2. ASSUME NEW r \in Requests, Fail(r) PROVE FormInv'
  BY <1>2 DEF Fail
<1>3. ASSUME NEW r \in Requests, AuthCookie(r) \/ AuthHeader(r) PROVE FormInv'
  BY <1>3 DEF AuthCookie, AuthHeader, Authenticated
<1>4. ASSUME NEW r \in Requests,
             \/ VerifyLogin(r) \/ ReadPinned(r) \/ Pin(r) \/ CheckCurrent(r) \/ RefuseNew(r)
             \/ Rotate(r) \/ SelectExpired(r) \/ Issue(r) \/ Logout(r)
      PROVE  FormInv'
  BY <1>4
  DEF VerifyLogin, ReadPinned, Pin, CheckCurrent, RefuseNew, Rotate, SelectExpired, Issue, Logout
<1>5. CASE Tick BY <1>5 DEF Tick
<1>. QED BY <1>1, <1>2, <1>3, <1>4, <1>5 DEF Next, Step

(***************************************************************************)
(* What a check accepts is good at that moment.                            *)
(***************************************************************************)
LEMMA ChecksAreGood ==
    ASSUME FormInv, NEW r \in Requests, pc[r] \notin Ended \cup {"new"}
    PROVE  /\ form[r].cookie # None /\ Live(form[r].cookie) => "cookie" \in Good(r)
           /\ form[r].key # None /\ Authoritative(form[r].key) => "key" \in Good(r)
           /\ pc[r] \in {"verify", "current"} /\ Authoritative(form[r].typed) =>
                 "typed" \in Good(r)
<1>1. form[r] \in Forms /\ (pc[r] \in {"verify", "current"} => form[r].typed # None)
  BY NoneAssumption DEF FormInv, Kinds, Forms, Ended
<1>2. form[r].cookie # None => form[r].cookie \in Requests
  BY <1>1 DEF Forms
<1>3. form[r].cookie # None /\ Live(form[r].cookie) => "cookie" \in Good(r)
  BY DEF Good, Live, Rows
<1>4. form[r].key # None /\ Authoritative(form[r].key) => "key" \in Good(r)
  BY DEF Good, Authoritative
<1>5. pc[r] \in {"verify", "current"} /\ Authoritative(form[r].typed) => "typed" \in Good(r)
  BY <1>1 DEF Good, Authoritative
<1>. QED BY <1>3, <1>4, <1>5

LEMMA DueKept == ASSUME IInv, Next PROVE DueInv'
<1>. USE DEF IInv, TypeOK, DueInv, AccessWasDue, Proven, Kinds, Goto, WitnessInv
<1>0. \A r \in Requests : pc'[r] # "refused" => witnessed[r] \subseteq witnessed'[r]
  BY MemoryGrows
<1>1. ASSUME NEW r \in Requests, Begin(r) PROVE DueInv'
  <2>1. PICK s \in {"verify", "auth", "logout"} : pc' = [pc EXCEPT ![r] = s]
    BY <1>1 DEF Begin, Forms
  <2>2. \A q \in Requests \ {r} : form'[q] = form[q]
    BY <1>1 DEF Begin
  <2>. QED BY <1>0, <2>1, <2>2
<1>2. ASSUME NEW r \in Requests, VerifyLogin(r) PROVE DueInv'
  <2>1. Authoritative(form[r].typed) => "typed" \in witnessed[r]
    BY <1>2, ChecksAreGood DEF VerifyLogin, Ended
  <2>. QED BY <1>0, <1>2, <2>1 DEF VerifyLogin, FormInv
<1>3. ASSUME NEW r \in Requests, AuthCookie(r) PROVE DueInv'
  <2>1. form[r].cookie # None /\ Live(form[r].cookie) => "cookie" \in witnessed[r]
    BY <1>3, ChecksAreGood DEF AuthCookie, Ended
  <2>. QED BY <1>0, <1>3, <2>1 DEF AuthCookie, Authenticated, FormInv
<1>4. ASSUME NEW r \in Requests, AuthHeader(r) PROVE DueInv'
  <2>1. form[r].key # None /\ Authoritative(form[r].key) => "key" \in witnessed[r]
    BY <1>4, ChecksAreGood DEF AuthHeader, Ended
  <2>. QED BY <1>0, <1>4, <2>1 DEF AuthHeader, Authenticated, FormInv
<1>5. ASSUME NEW r \in Requests, CheckCurrent(r) PROVE DueInv'
  <2>1. Authoritative(form[r].typed) => "typed" \in witnessed[r]
    BY <1>5, ChecksAreGood DEF CheckCurrent, Ended
  <2>. QED BY <1>0, <1>5, <2>1 DEF CheckCurrent
<1>6. ASSUME NEW r \in Requests, ReadPinned(r) \/ Pin(r) \/ RefuseNew(r) PROVE DueInv'
  BY <1>0, <1>6 DEF ReadPinned, Pin, RefuseNew, FormInv
<1>7. ASSUME NEW r \in Requests, Rotate(r) \/ SelectExpired(r) PROVE DueInv'
  BY <1>0, <1>7 DEF Rotate, SelectExpired, tableVars
<1>8. ASSUME NEW r \in Requests, Issue(r) PROVE DueInv'
  BY <1>0, <1>8 DEF Issue, FormInv
<1>9. ASSUME NEW r \in Requests, Logout(r) \/ Fail(r) PROVE DueInv'
  BY <1>0, <1>9 DEF Logout, Fail
<1>10. CASE Tick BY <1>0, <1>10 DEF Tick
<1>. QED
  BY <1>1, <1>2, <1>3, <1>4, <1>5, <1>6, <1>7, <1>8, <1>9, <1>10 DEF Next, Step

LEMMA RowsKept == ASSUME IInv, Next PROVE RowsInv'
<1>. USE DEF IInv, TypeOK, RowsInv, Live, Rows, Goto
<1>1. ASSUME NEW r \in Requests, Begin(r) PROVE RowsInv'
  BY <1>1 DEF Begin, tableVars
<1>2. ASSUME NEW r \in Requests,
             VerifyLogin(r) \/ ReadPinned(r) \/ CheckCurrent(r) \/ RefuseNew(r) \/ AuthHeader(r)
      PROVE  RowsInv'
  BY <1>2
  DEF VerifyLogin, ReadPinned, CheckCurrent, RefuseNew, AuthHeader, Authenticated, tableVars
<1>3. ASSUME NEW r \in Requests, Pin(r) PROVE RowsInv'
  BY <1>3 DEF Pin
<1>4. ASSUME NEW r \in Requests, AuthCookie(r) PROVE RowsInv'
  BY <1>4 DEF AuthCookie, Authenticated
<1>5. ASSUME NEW r \in Requests, Rotate(r) PROVE RowsInv'
  BY <1>5 DEF Rotate
<1>6. ASSUME NEW r \in Requests, SelectExpired(r) PROVE RowsInv'
  BY <1>6 DEF SelectExpired, tableVars
<1>7. ASSUME NEW r \in Requests, Issue(r) PROVE RowsInv'
  BY <1>7 DEF Issue
<1>8. ASSUME NEW r \in Requests, Logout(r) PROVE RowsInv'
  BY <1>8 DEF Logout
<1>9. ASSUME NEW r \in Requests, Fail(r) PROVE RowsInv'
  BY <1>9 DEF Fail, Ended, tableVars
<1>10. CASE Tick
  <2>1. \A t \in Requests : ~Live(t) => ~(Live(t)')
    BY <1>10, TimeAssumption DEF Tick, Times
  <2>. QED BY <1>10, <2>1 DEF Tick
<1>. QED
  BY <1>1, <1>2, <1>3, <1>4, <1>5, <1>6, <1>7, <1>8, <1>9, <1>10 DEF Next, Step

LEMMA BarredKept == ASSUME IInv, Next PROVE BarredInv'
<1>. USE DEF IInv, TypeOK, BarredInv, Goto
<1>0. \A r \in Requests : pc'[r] # "refused" => witnessed[r] \subseteq witnessed'[r]
  BY MemoryGrows
<1>1. ASSUME NEW r \in Requests, Begin(r) PROVE BarredInv'
  BY <1>0, <1>1, NoneAssumption DEF Begin, Forms
<1>2. ASSUME NEW r \in Requests, VerifyLogin(r) \/ ReadPinned(r) \/ Pin(r) PROVE BarredInv'
  <2>1. r \notin barred
    BY <1>2, NoneAssumption DEF VerifyLogin, ReadPinned, Pin, FormInv, Kinds, Forms
  <2>. QED BY <1>0, <1>2, <2>1 DEF VerifyLogin, ReadPinned, Pin
<1>3. ASSUME NEW r \in Requests, AuthCookie(r) PROVE BarredInv'
  <2>1. r \in barred => ~Live(form[r].cookie)
    BY <1>3 DEF AuthCookie, RowsInv, Live, Rows
  <2>. QED BY <1>0, <1>3, <2>1 DEF AuthCookie, Authenticated
<1>4. ASSUME NEW r \in Requests, AuthHeader(r) PROVE BarredInv'
  <2>1. form[r].key # None /\ Authoritative(form[r].key) => "key" \in witnessed[r]
    BY <1>4, ChecksAreGood DEF AuthHeader, Ended, WitnessInv
  <2>. QED BY <1>0, <1>4, <2>1 DEF AuthHeader, Authenticated
<1>5. ASSUME NEW r \in Requests, CheckCurrent(r) \/ RefuseNew(r) PROVE BarredInv'
  BY <1>0, <1>5 DEF CheckCurrent, RefuseNew
<1>6. ASSUME NEW r \in Requests, Rotate(r) PROVE BarredInv'
  BY <1>0, <1>6 DEF Rotate, Rows
<1>7. ASSUME NEW r \in Requests, SelectExpired(r) \/ Issue(r) PROVE BarredInv'
  BY <1>0, <1>7 DEF SelectExpired, Issue
<1>8. ASSUME NEW r \in Requests, Logout(r) \/ Fail(r) PROVE BarredInv'
  BY <1>0, <1>8 DEF Logout, Fail, Ended
<1>9. CASE Tick BY <1>0, <1>9 DEF Tick
<1>. QED
  BY <1>1, <1>2, <1>3, <1>4, <1>5, <1>6, <1>7, <1>8, <1>9 DEF Next, Step

LEMMA Inductive == IInv /\ [Next]_vars => IInv'
<1>1. ASSUME IInv, Next PROVE IInv'
  BY <1>1, TypeKept, FormKept, MemoryGrows, DueKept, RowsKept, BarredKept DEF IInv
<1>2. ASSUME IInv, UNCHANGED vars PROVE IInv'
  BY <1>2
  DEF vars, tableVars, IInv, TypeOK, FormInv, Kinds, WitnessInv, Good, DueInv, Proven,
      AccessWasDue, RowsInv, Live, Rows, BarredInv
<1>. QED BY <1>1, <1>2

LEMMA Invariant == Spec => []IInv
  BY InitInv, Inductive, PTL DEF Spec

(***************************************************************************)
(* Every variable stays in its range: a login or a change stores a hash of *)
(* the new format, and a session expires within a session's length of the  *)
(* last moment.                                                            *)
(***************************************************************************)
THEOREM Typed == Spec => []TypeOK
<1>1. IInv => TypeOK BY DEF IInv
<1>. QED BY <1>1, Invariant, PTL

(***************************************************************************)
(* Nothing is granted on what was never good during the request            *)
(* (is_authenticated, ops_login, ops_change_password).                     *)
(***************************************************************************)
THEOREM Due == Spec => []AccessWasDue
<1>1. IInv => AccessWasDue BY DEF IInv, DueInv
<1>. QED BY <1>1, Invariant, PTL

(***************************************************************************)
(* A session that a password change revoked gets a later request nothing   *)
(* (ops_change_password, session_token_valid).                             *)
(***************************************************************************)
THEOREM Revoked == Spec => []RevokedStaysOut
<1>1. IInv => RevokedStaysOut BY DEF IInv, BarredInv, RevokedStaysOut
<1>. QED BY <1>1, Invariant, PTL
(***************************************************************************)
(* Only a logout with its own token, or a password change, ends a session  *)
(* before its time (_delete_expired_sessions, session_token_valid).        *)
(***************************************************************************)
THEOREM Stay == Spec => LiveSessionsStay
<1>. DEFINE Ends(t) ==
       \E r \in Requests :
          \/ pc[r] = "rotate" /\ pc'[r] = "purge"
          \/ pc[r] = "logout" /\ pc'[r] = "out" /\ form[r].cookie = t
<1>1. ASSUME IInv, Next, NEW t \in Requests, Live(t), sessions'[t] = None
      PROVE  Ends(t)
  <2>. USE <1>1 DEF IInv, TypeOK, RowsInv, Live, Rows, Goto
  <2>1. sessions'[t] # sessions[t] OBVIOUS
  <2>2. ASSUME NEW r \in Requests, Rotate(r) \/ Logout(r) PROVE Ends(t)
    BY <2>2 DEF Rotate, Logout
  <2>3. ASSUME NEW r \in Requests, Issue(r) PROVE FALSE
    BY <2>3 DEF Issue
  <2>4. ASSUME NEW r \in Requests, AuthCookie(r) PROVE FALSE
    BY <2>4, NoneAssumption DEF AuthCookie
  <2>. QED
    BY <2>1, <2>2, <2>3, <2>4
    DEF Next, Step, Begin, VerifyLogin, ReadPinned, Pin, AuthHeader, CheckCurrent, RefuseNew,
        SelectExpired, Fail, Tick, tableVars
<1>2. IInv /\ [Next]_vars =>
        [\A t \in Requests : Live(t) /\ sessions'[t] = None => Ends(t)]_vars
  BY <1>1
<1>. QED BY <1>2, Invariant, PTL DEF Spec, LiveSessionsStay
=============================================================================
