------------------------ MODULE LoginCoordinatorProofs ------------------------
(***************************************************************************)
(* What holds of coalesced logins for any number of callers and tokens.    *)
(***************************************************************************)
EXTENDS LoginCoordinator, TLAPS

(* Nothing is newer than the last token minted, and a flight that has      *)
(* logged in carries a token: that last one, as long as no admin logs in.  *)
Carries(c) ==
  \/ pc[c] \in {"save", "post"}
  \/ pc[c] = "publish" /\ result[c] = "ok"

Ordered(c) ==
  /\ token[c] <= minted /\ brought[c] <= minted
  /\ Carries(c) => token[c] # 0 /\ (bypassed \/ token[c] = minted)
  /\ pc[c] \in {"out", "woken"} /\ result[c] = "ok"
       => token[c] # 0 /\ (bypassed \/ token[c] >= brought[c])

(* Between a login and its write the stored token is behind; otherwise it  *)
(* is the last one, or emptied by a refresh.                               *)
StoreOrdered ==
  /\ stored <= minted /\ admin <= minted
  /\ ~bypassed => admin = 0
  /\ ~bypassed /\ stored # 0 /\ (\A c \in Callers : pc[c] # "save") => stored = minted

LoginInv ==
  /\ TypeOK
  /\ OneLoginAtATime
  /\ \A c \in Callers : Ordered(c)
  /\ StoreOrdered

-----------------------------------------------------------------------------

LEMMA InitLoginInv == Init => LoginInv
<1> SUFFICES ASSUME Init PROVE LoginInv
  OBVIOUS
<1>1. TypeOK
  <2>1. /\ bypassed \in BOOLEAN
        /\ force \in [Callers -> BOOLEAN] /\ over \in [Callers -> BOOLEAN]
    BY Zenon DEF Init
  <2>2. /\ 0 \in Tokens /\ leader \in Callers \cup {None}
        /\ pc \in [Callers -> Places] /\ result \in [Callers -> Results]
    BY LoginAssumption DEF Init, Places, Tokens, Results
  <2>3. /\ stored \in Tokens /\ minted \in Tokens /\ admin \in Tokens
        /\ token \in [Callers -> Tokens] /\ brought \in [Callers -> Tokens]
    BY <2>2 DEF Init
  <2> QED BY <2>1, <2>2, <2>3 DEF TypeOK
<1>2. OneLoginAtATime
  BY LoginAssumption DEF Init, OneLoginAtATime, Leading
<1>3. ASSUME NEW c \in Callers PROVE Ordered(c)
  <2>1. /\ token[c] = 0 /\ brought[c] = 0 /\ minted = 0
        /\ pc[c] = "out" /\ result[c] = "none"
    BY DEF Init
  <2> QED BY <2>1 DEF Ordered, Carries
<1>4. StoreOrdered
  BY DEF Init, StoreOrdered
<1> QED BY <1>1, <1>2, <1>3, <1>4 DEF LoginInv

(* Whoever leads is alone, so that no flight overtakes another.            *)
LEMMA Alone ==
  ASSUME LoginInv, NEW c \in Callers, pc[c] \in Leading, NEW d \in Callers, d # c
  PROVE  pc[d] \notin Leading /\ leader = c
BY DEF LoginInv, OneLoginAtATime

LEMMA TypeStep == ASSUME TypeOK, [Next]_vars PROVE TypeOK'
<1> USE DEF TypeOK, Places, Tokens, Results
<1>1. ASSUME NEW c \in Callers, NEW f \in BOOLEAN, Call(c, f) PROVE TypeOK'
  BY <1>1 DEF Call, Go
<1>2. ASSUME NEW c \in Callers, ContextEnds(c) PROVE TypeOK'
  BY <1>2 DEF ContextEnds
<1>3. ASSUME NEW c \in Callers, Enter(c) PROVE TypeOK'
  BY <1>3 DEF Enter, Return, Go
<1>4. ASSUME NEW c \in Callers, GiveUp(c) PROVE TypeOK'
  BY <1>4 DEF GiveUp, Return, Go
<1>5. ASSUME NEW c \in Callers, Woken(c) PROVE TypeOK'
  BY <1>5 DEF Woken, Go
<1>6. ASSUME NEW c \in Callers, ClearStored(c) PROVE TypeOK'
  BY <1>6, LoginAssumption DEF ClearStored, Ends, Go
<1>7. ASSUME NEW c \in Callers, Login(c) PROVE TypeOK'
  BY <1>7, LoginAssumption DEF Login, Ends, Go
<1>8. ASSUME NEW c \in Callers, Save(c) PROVE TypeOK'
  BY <1>8 DEF Save, Ends, Go
<1>9. ASSUME NEW c \in Callers, PostLogin(c) PROVE TypeOK'
  BY <1>9 DEF PostLogin, Ends, Go
<1>10. ASSUME NEW c \in Callers, Publish(c) PROVE TypeOK'
  BY <1>10 DEF Publish, Told, SharedToken
<1>11. CASE AdminLogin
  BY <1>11, LoginAssumption DEF AdminLogin
<1>12. CASE AdminStores
  BY <1>12, LoginAssumption DEF AdminStores
<1>13. CASE UNCHANGED vars
  BY <1>13 DEF vars
<1> QED BY <1>1, <1>2, <1>3, <1>4, <1>5, <1>6, <1>7, <1>8, <1>9, <1>10, <1>11,
           <1>12, <1>13 DEF Next, Proceed, Fly

LEMMA OneLoginStep == ASSUME TypeOK, OneLoginAtATime, [Next]_vars PROVE OneLoginAtATime'
<1> USE DEF TypeOK, OneLoginAtATime, Leading, Go
<1>1. ASSUME NEW c \in Callers, NEW f \in BOOLEAN, Call(c, f) PROVE OneLoginAtATime'
  BY <1>1 DEF Call
<1>2. ASSUME NEW c \in Callers, ContextEnds(c) PROVE OneLoginAtATime'
  BY <1>2 DEF ContextEnds
<1>3. ASSUME NEW c \in Callers, Enter(c) PROVE OneLoginAtATime'
  BY <1>3, LoginAssumption DEF Enter, Return, Joins
<1>4. ASSUME NEW c \in Callers, GiveUp(c) \/ Woken(c) PROVE OneLoginAtATime'
  BY <1>4 DEF GiveUp, Woken, Return
<1>5. ASSUME NEW c \in Callers, ClearStored(c) \/ Login(c) \/ Save(c) \/ PostLogin(c)
      PROVE  OneLoginAtATime'
  BY <1>5 DEF ClearStored, Login, Save, PostLogin, Ends
<1>6. ASSUME NEW c \in Callers, Publish(c) PROVE OneLoginAtATime'
  BY <1>6, LoginAssumption DEF Publish, Told
<1>7. CASE AdminLogin \/ AdminStores \/ UNCHANGED vars
  BY <1>7 DEF AdminLogin, AdminStores, vars
<1> QED BY <1>1, <1>2, <1>3, <1>4, <1>5, <1>6, <1>7 DEF Next, Proceed, Fly

(* The order of tokens.                                                    *)
Numbered ==
  /\ stored \in Nat /\ minted \in Nat /\ admin \in Nat
  /\ token \in [Callers -> Nat] /\ brought \in [Callers -> Nat]

LEMMA TokensAreNumbers == TypeOK => Numbered
BY DEF TypeOK, Numbered, Tokens

LEMMA OrderStep ==
  ASSUME LoginInv, TypeOK', [Next]_vars
  PROVE  (\A c \in Callers : Ordered(c))' /\ StoreOrdered'
<1>1. Numbered /\ Numbered' /\ TypeOK
  BY TokensAreNumbers DEF LoginInv, TypeOK, Numbered, Tokens
<1>2. (\A c \in Callers : Ordered(c)) /\ StoreOrdered
  BY DEF LoginInv
<1> USE DEF Ordered, Carries, StoreOrdered, Numbered, TypeOK, Go
<1>3. ASSUME NEW c \in Callers, NEW f \in BOOLEAN, Call(c, f)
      PROVE  (\A d \in Callers : Ordered(d))' /\ StoreOrdered'
  BY <1>1, <1>2, <1>3 DEF Call
<1>4. ASSUME NEW c \in Callers, ContextEnds(c)
      PROVE  (\A d \in Callers : Ordered(d))' /\ StoreOrdered'
  BY <1>1, <1>2, <1>4 DEF ContextEnds
<1>5. ASSUME NEW c \in Callers, Enter(c)
      PROVE  (\A d \in Callers : Ordered(d))' /\ StoreOrdered'
  <2>1. CASE pc' = [pc EXCEPT ![c] = "out"] /\ result' = [result EXCEPT ![c] = "aborted"]
             /\ UNCHANGED token
    BY <1>1, <1>2, <1>5, <2>1 DEF Enter
  <2>2. CASE UNCHANGED <<token, result>> /\ \E p \in {"waiting", "clear", "login"} :
               pc' = [pc EXCEPT ![c] = p]
    BY <1>1, <1>2, <1>5, <2>2 DEF Enter
  <2>3. CASE /\ Reuses(c) /\ token' = [token EXCEPT ![c] = stored]
             /\ pc' = [pc EXCEPT ![c] = "out"] /\ result' = [result EXCEPT ![c] = "ok"]
    <3>1. leader = None /\ stored # 0 /\ \A d \in Callers : pc[d] # "save"
      BY <2>3, LoginAssumption DEF Reuses, Joins, LoginInv, OneLoginAtATime, Leading
    <3>2. bypassed \/ stored = minted
      BY <1>2, <3>1
    <3> QED BY <1>1, <1>2, <1>5, <2>3, <3>1, <3>2 DEF Enter
  <2> QED BY <1>5, <2>1, <2>2, <2>3 DEF Enter, Return
<1>6. ASSUME NEW c \in Callers, GiveUp(c)
      PROVE  (\A d \in Callers : Ordered(d))' /\ StoreOrdered'
  BY <1>1, <1>2, <1>6 DEF GiveUp, Return
<1>7. ASSUME NEW c \in Callers, Woken(c)
      PROVE  (\A d \in Callers : Ordered(d))' /\ StoreOrdered'
  BY <1>1, <1>2, <1>7 DEF Woken
<1>8. ASSUME NEW c \in Callers, ClearStored(c)
      PROVE  (\A d \in Callers : Ordered(d))' /\ StoreOrdered'
  BY <1>1, <1>2, <1>8 DEF ClearStored, Ends
<1>9. ASSUME NEW c \in Callers, Login(c)
      PROVE  (\A d \in Callers : Ordered(d))' /\ StoreOrdered'
  <2>1. \A d \in Callers : d # c => ~Carries(d)
    BY <1>9, Alone DEF Login, Leading
  <2>2. CASE minted' = minted + 1 /\ token' = [token EXCEPT ![c] = minted']
             /\ pc' = [pc EXCEPT ![c] = "save"] /\ UNCHANGED result
    BY <1>1, <1>2, <1>9, <2>1, <2>2 DEF Login
  <2>3. CASE UNCHANGED <<minted, token>> /\ \E r \in {"failed", "aborted"} : Ends(c, r)
    BY <1>1, <1>2, <1>9, <2>3 DEF Login, Ends
  <2> QED BY <1>9, <2>2, <2>3 DEF Login
<1>10. ASSUME NEW c \in Callers, Save(c)
       PROVE  (\A d \in Callers : Ordered(d))' /\ StoreOrdered'
  <2>1. token[c] # 0 /\ (bypassed \/ token[c] = minted)
    BY <1>2, <1>10 DEF Save
  <2> QED BY <1>1, <1>2, <1>10, <2>1 DEF Save, Ends
<1>11. ASSUME NEW c \in Callers, PostLogin(c)
       PROVE  (\A d \in Callers : Ordered(d))' /\ StoreOrdered'
  BY <1>1, <1>2, <1>11 DEF PostLogin, Ends
<1>12. ASSUME NEW c \in Callers, Publish(c)
       PROVE  (\A d \in Callers : Ordered(d))' /\ StoreOrdered'
  <2>1. \A d \in Callers : d # c => ~Carries(d) /\ pc[d] # "save"
    BY <1>12, Alone DEF Publish, Leading
  <2>2. result[c] = "ok" => token[c] # 0 /\ (bypassed \/ token[c] = minted)
    BY <1>2, <1>12 DEF Publish
  <2>3. ASSUME NEW d \in Callers PROVE Ordered(d)'
    <3>1. CASE d = c
      BY <1>1, <1>2, <1>12, <2>2, <3>1 DEF Publish, Told
    <3>2. CASE d # c /\ pc[d] = "waiting"
      BY <1>1, <1>2, <1>12, <2>2, <3>2 DEF Publish, Told, SharedToken
    <3>3. CASE d # c /\ pc[d] # "waiting"
      BY <1>1, <1>2, <1>12, <3>3 DEF Publish, Told
    <3> QED BY <3>1, <3>2, <3>3
  <2>4. StoreOrdered'
    BY <1>1, <1>2, <1>12, <2>1 DEF Publish, Told
  <2> QED BY <2>3, <2>4
<1>13. CASE AdminLogin
  BY <1>1, <1>2, <1>13 DEF AdminLogin
<1>14. CASE AdminStores
  BY <1>1, <1>2, <1>14 DEF AdminStores
<1>15. CASE UNCHANGED vars
  BY <1>2, <1>15 DEF vars
<1> QED BY <1>3, <1>4, <1>5, <1>6, <1>7, <1>8, <1>9, <1>10, <1>11, <1>12, <1>13,
           <1>14, <1>15 DEF Next, Proceed, Fly

LEMMA LoginInvStep == LoginInv /\ [Next]_vars => LoginInv'
<1> SUFFICES ASSUME LoginInv, [Next]_vars PROVE LoginInv'
  OBVIOUS
<1>1. TypeOK' /\ OneLoginAtATime'
  BY TypeStep, OneLoginStep DEF LoginInv
<1> QED BY <1>1, OrderStep DEF LoginInv

LEMMA LoginInvHolds == Spec => []LoginInv
BY InitLoginInv, LoginInvStep, PTL DEF Spec

(* Requests that need a token, refresh it, fail and are cancelled at any   *)
(* moment never log in to an account twice at once.                        *)
THEOREM OneLoginHolds == Spec => []OneLoginAtATime
<1>1. LoginInv => OneLoginAtATime
  BY DEF LoginInv
<1> QED BY <1>1, LoginInvHolds, PTL

(* A call that succeeds never leaves with an older token than it came      *)
(* with, and with one at all even if an admin logs in past it.             *)
THEOREM NeverOlderHolds == Spec => []NeverOlder
<1>1. LoginInv => NeverOlder
  BY DEF LoginInv, Ordered, NeverOlder
<1> QED BY <1>1, LoginInvHolds, PTL

-----------------------------------------------------------------------------
(***************************************************************************)
(* Whose cancellation a waiter is told of.                                 *)
(***************************************************************************)

(* A flight has ended in some way before anybody is told.                  *)
Concluded == \A c \in Callers : pc[c] \in {"publish", "woken"} => result[c] # "none"

LEMMA ConcludedStep == ASSUME TypeOK, Concluded, [Next]_vars PROVE Concluded'
<1> USE DEF TypeOK, Concluded, Go
<1>1. ASSUME NEW c \in Callers, NEW f \in BOOLEAN, Call(c, f) PROVE Concluded'
  BY <1>1 DEF Call
<1>2. ASSUME NEW c \in Callers, ContextEnds(c) PROVE Concluded'
  BY <1>2 DEF ContextEnds
<1>3. ASSUME NEW c \in Callers, Enter(c) PROVE Concluded'
  BY <1>3 DEF Enter, Return
<1>4. ASSUME NEW c \in Callers, GiveUp(c) \/ Woken(c) PROVE Concluded'
  BY <1>4 DEF GiveUp, Woken, Return
<1>5. ASSUME NEW c \in Callers, ClearStored(c) \/ Login(c) \/ Save(c) \/ PostLogin(c)
      PROVE  Concluded'
  BY <1>5 DEF ClearStored, Login, Save, PostLogin, Ends
<1>6. ASSUME NEW c \in Callers, Publish(c) PROVE Concluded'
  BY <1>6 DEF Publish, Told
<1>7. CASE AdminLogin \/ AdminStores \/ UNCHANGED vars
  BY <1>7 DEF AdminLogin, AdminStores, vars
<1> QED BY <1>1, <1>2, <1>3, <1>4, <1>5, <1>6, <1>7 DEF Next, Proceed, Fly

(* Who steps out of the line on a step.                                    *)
StepsOut(w) == pc[w] \in {"waiting", "woken"} /\ pc'[w] = "out" /\ ~over[w]

LEMMA OutWithAnswer ==
  ASSUME TypeOK, Concluded, [Next]_vars, NEW w \in Callers, StepsOut(w)
  PROVE  result'[w] \in {"ok", "failed"}
<1> USE DEF TypeOK, StepsOut, Go
<1>1. ASSUME NEW c \in Callers, NEW f \in BOOLEAN, Call(c, f) PROVE FALSE
  BY <1>1 DEF Call
<1>2. ASSUME NEW c \in Callers, ContextEnds(c) PROVE FALSE
  BY <1>2 DEF ContextEnds
<1>3. ASSUME NEW c \in Callers, Enter(c) \/ GiveUp(c) PROVE FALSE
  BY <1>3 DEF Enter, GiveUp, Return
<1>4. ASSUME NEW c \in Callers, Woken(c) PROVE result'[w] \in {"ok", "failed"}
  <2>1. c = w /\ pc[w] = "woken" /\ result[w] # "aborted" /\ result' = result
    BY <1>4 DEF Woken, Retries
  <2> QED BY <2>1 DEF Concluded, Results
<1>5. ASSUME NEW c \in Callers, Fly(c) PROVE FALSE
  BY <1>5 DEF Fly, ClearStored, Login, Save, PostLogin, Publish, Ends, Told
<1>6. CASE AdminLogin \/ AdminStores \/ UNCHANGED vars
  BY <1>6 DEF AdminLogin, AdminStores, vars
<1> QED BY <1>1, <1>2, <1>3, <1>4, <1>5, <1>6 DEF Next, Proceed

(* Whoever leads and is cancelled, no step takes a waiter whose own        *)
(* context lives out of the line without an answer about the account.      *)
THEOREM NoInheritedCancellationHolds == Spec => NoInheritedCancellation
<1>1. Init => Concluded
  BY DEF Init, Concluded
<1>2. TypeOK /\ Concluded /\ [Next]_vars => Concluded'
  BY ConcludedStep
<1>3. TypeOK /\ Concluded /\ [Next]_vars
        => [\A c \in Callers :
              pc[c] \in {"waiting", "woken"} /\ pc'[c] = "out" /\ ~over[c]
                => result'[c] \in {"ok", "failed"}]_vars
  BY OutWithAnswer DEF StepsOut
<1>4. LoginInv => TypeOK
  BY DEF LoginInv
<1> QED BY <1>1, <1>2, <1>3, <1>4, LoginInvHolds, PTL DEF Spec, NoInheritedCancellation
=============================================================================
