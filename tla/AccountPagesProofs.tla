-------------------------- MODULE AccountPagesProofs --------------------------
(***************************************************************************)
(* Theorems about a tab of the Angular application, for any users, any      *)
(* number of submissions, of calls at once and of pages opened.            *)
(***************************************************************************)
EXTENDS AccountPages, TLAPS

\* A call of the page that is shown: a query, or a credit or debit.
Querying(i) == call[i] # Idle /\ call[i].kind \in {"list", "balance"} /\ Alive(i)
Operating(i) == call[i] # Idle /\ call[i].kind \in Operations /\ Alive(i)

\* A submission made from the page that is shown, which the bank works on.
Open(s) == asked[s] # NotAsked /\ asked[s].visit = visit /\ fate[s] = "open"

\* Components are numbered in their order.
Past ==
    /\ \A i \in Slots : call[i] # Idle => call[i].visit <= visit
    /\ \A s \in Submissions : asked[s] # NotAsked => asked[s].visit <= visit

\* The button is disabled while an operation of the page is open or called for,
\* and a call of the page is for the submission that is open, if any is.
Button ==
    /\ \A i \in Slots : Querying(i) => page = "search"
    /\ \A i \in Slots : Operating(i) => page \in Operations /\ launchAction
    /\ \A i, j \in Slots : Operating(i) /\ Operating(j) => i = j
    /\ \A s \in Submissions :
         asked[s] # NotAsked /\ asked[s].visit = visit => page \in Operations
    /\ \A s \in Submissions : Open(s) => launchAction
    /\ \A i \in Slots, s \in Submissions : Operating(i) /\ Open(s) => s = call[i].sub

\* What the bank applied was asked for, and what the user was told was applied;
\* the answers on their way to the page hold what he was told before.
Own ==
    /\ \A s \in Submissions : fate[s] = "applied" => asked[s] # NotAsked
    /\ \A s \in told : fate[s] = "applied"
    /\ \A i \in Slots :
         Querying(i) /\ call[i].answered =>
           {s \in since : asked[s].user = call[i].user} \subseteq call[i].rows

\* One balance at a time is on its way, and it is that of the table.
Beside ==
    ~failed /\ ~crossed =>
      /\ \A i \in BalanceCalls : call[i].user = listed.of
      /\ \A i, j \in BalanceCalls : i = j
      /\ BalanceCalls = {} => shown.of = listed.of

Inv ==
    /\ TypeOK
    /\ Past
    /\ Button
    /\ OneOpenPerVisit
    /\ Own
    /\ OwnOperationsShown
    /\ Beside

-----------------------------------------------------------------------------

LEMMA NothingTyped == Nothing \in View /\ Nothing.of = NoUser /\ Nothing.rows = {}
  BY DEF Nothing, View

LEMMA InitInv == Init => Inv
  <1>. SUFFICES ASSUME Init PROVE Inv
    OBVIOUS
  <1>1. TypeOK
    <2>1. /\ page \in Pages /\ visit \in Nat /\ {initUser, user} \subseteq Users \cup {NoUser}
          /\ {launchAction, failed, crossed} \subseteq BOOLEAN
      BY DEF Init, Pages
    <2>2. {listed, shown} \subseteq View
      BY NothingTyped DEF Init
    <2>3. /\ call \in [Slots -> Calls \cup {Idle}]
          /\ asked \in [Submissions -> {NotAsked} \cup
                           [kind : Operations, user : Users, visit : Nat]]
      BY DEF Init
    <2>4. /\ since \subseteq told /\ told \subseteq Submissions
          /\ balance \in [Users -> Nat]
          /\ fate \in [Submissions -> {"open", "applied", "closed"}]
      BY PagesAssumption DEF Init, Bank!Init
    <2>. QED
      BY <2>1, <2>2, <2>3, <2>4 DEF TypeOK
  <1>2. Past /\ Button /\ OneOpenPerVisit /\ Own
    BY DEF Init, Bank!Init, Past, Button, Querying, Operating, Open, OneOpenPerVisit, Own
  <1>3. OwnOperationsShown /\ Beside
    BY DEF Init, OwnOperationsShown, Beside, BalanceCalls, Nothing
  <1>. QED
    BY <1>1, <1>2, <1>3 DEF Inv

\* A call in flight is a query or an operation, of a user.
LEMMA CallTypes ==
    ASSUME TypeOK, NEW i \in Slots, call[i] # Idle
    PROVE  /\ call[i].user \in Users /\ call[i].visit \in Nat
           /\ \/ /\ call[i].kind \in {"list", "balance"}
                 /\ call[i].answered \in BOOLEAN
                 /\ call[i].rows \subseteq Submissions
                 /\ [of |-> call[i].user, rows |-> call[i].rows] \in View
              \/ call[i].kind \in Operations /\ call[i].sub \in Submissions
  BY DEF TypeOK, Calls, View

\* A submission that was asked for is of a user.
LEMMA AskedTypes ==
    ASSUME TypeOK, NEW s \in Submissions, asked[s] # NotAsked
    PROVE  /\ asked[s].user \in Users /\ asked[s].user # NoUser
           /\ asked[s].visit \in Nat /\ asked[s].kind \in Operations
  BY PagesAssumption DEF TypeOK

\* A new component: no call but its own search is of the page, and nothing was
\* submitted from it.
LEMMA CreateInv ==
    ASSUME Inv, NEW p \in Pages, NEW u \in Users \cup {NoUser}, NEW i \in Slots,
           Create(p, u, i), UNCHANGED <<asked, bank>>,
           told \subseteq told', told' \subseteq Submissions,
           \A s \in told' : fate[s] = "applied"
    PROVE  Inv'
  <1>. USE DEF Inv
  <1>1. /\ page' = p /\ visit' = visit + 1 /\ visit \in Nat
        /\ initUser' = u /\ user' = u
        /\ listed' = Nothing /\ shown' = Nothing /\ since' = told'
        /\ failed' = FALSE /\ crossed' = FALSE
        /\ UNCHANGED <<asked, balance, fate>>
        /\ launchAction' \in BOOLEAN
    BY DEF Create, bank, TypeOK
  <1>2. PICK c \in Calls \cup {Idle} :
          /\ call' = [call EXCEPT ![i] = c]
          /\ c # Idle => /\ p = "search" /\ c.kind = "list" /\ c.visit = visit + 1
                         /\ c.answered = FALSE
    <2>1. CASE p = "search" /\ u # NoUser
      <3>1. visit + 1 \in Nat /\ u \in Users /\ "list" \in {"list", "balance"}
        BY <1>1, <2>1
      <3>2. /\ Query("list", u, visit + 1) \in Calls
            /\ Query("list", u, visit + 1).kind = "list"
            /\ Query("list", u, visit + 1).visit = visit + 1
            /\ Query("list", u, visit + 1).answered = FALSE
        BY <3>1 DEF Query, Calls
      <3>3. call' = [call EXCEPT ![i] = Query("list", u, visit + 1)]
        BY <2>1 DEF Create, Send
      <3>. QED
        BY <2>1, <3>2, <3>3
    <2>2. CASE ~(p = "search" /\ u # NoUser)
      BY <2>2 DEF Create, Send, Finish
    <2>. QED
      BY <2>1, <2>2
  <1>3. TypeOK'
    <2>1. page' \in Pages /\ visit' \in Nat /\ {initUser', user'} \subseteq Users \cup {NoUser}
      BY <1>1
    <2>5. {launchAction', failed', crossed'} \subseteq BOOLEAN
      <3>1. launchAction' \in BOOLEAN /\ failed' \in BOOLEAN /\ crossed' \in BOOLEAN
        BY <1>1
      <3>. QED
        BY <3>1, Zenon
    <2>2. listed' \in View /\ shown' \in View
      BY <1>1, NothingTyped
    <2>3. call' \in [Slots -> Calls \cup {Idle}]
      BY <1>2 DEF TypeOK
    <2>4. /\ since' \subseteq told' /\ told' \subseteq Submissions
          /\ asked' = asked /\ balance' = balance /\ fate' = fate
      BY <1>1
    <2>. QED
      BY <2>1, <2>2, <2>3, <2>4, <2>5 DEF TypeOK
  <1>4. ASSUME NEW j \in Slots, call'[j] # Idle
        PROVE  IF j = i THEN /\ call'[j] = c /\ c.visit = visit' /\ c.kind = "list"
                             /\ c.answered = FALSE /\ p = "search"
                        ELSE /\ call'[j] = call[j] /\ call'[j].visit <= visit
                             /\ call'[j].visit < visit' /\ call'[j].visit # visit'
    <2>1. call'[j] = IF j = i THEN c ELSE call[j]
      BY <1>2 DEF TypeOK
    <2>2. j # i => call[j].visit \in Nat /\ call[j].visit <= visit
      BY <1>4, <2>1, CallTypes DEF Past
    <2>. QED
      BY <1>1, <1>2, <1>4, <2>1, <2>2
  <1>5. ASSUME NEW s \in Submissions, asked'[s] # NotAsked
        PROVE  /\ asked'[s].visit <= visit /\ asked'[s].visit < visit'
               /\ asked'[s].visit # visit'
    <2>1. asked[s] # NotAsked /\ asked'[s] = asked[s]
      BY <1>1, <1>5
    <2>2. asked[s].visit \in Nat /\ asked[s].visit <= visit
      BY <2>1, AskedTypes DEF Past
    <2>. QED
      BY <1>1, <2>1, <2>2
  <1>6. Past'
    <2>1. visit <= visit' /\ visit' \in Nat /\ visit' <= visit'
      BY <1>1
    <2>2. ASSUME NEW j \in Slots, call'[j] # Idle
          PROVE  call'[j].visit <= visit'
      <3>1. CASE j = i
        BY <1>4, <2>1, <2>2, <3>1
      <3>2. CASE j # i
        <4>1. call[j] # Idle /\ call'[j] = call[j]
          BY <1>4, <2>2, <3>2
        <4>2. call[j].visit \in Nat /\ call[j].visit <= visit
          BY <4>1, CallTypes DEF Past
        <4>. QED
          BY <1>1, <4>1, <4>2
      <3>. QED
        BY <3>1, <3>2
    <2>3. ASSUME NEW s \in Submissions, asked'[s] # NotAsked
          PROVE  asked'[s].visit <= visit'
      <3>1. asked[s].visit \in Nat /\ asked[s].visit <= visit /\ asked'[s] = asked[s]
        BY <1>1, <2>3, AskedTypes DEF Past
      <3>. QED
        BY <1>1, <3>1
    <2>. QED
      BY <2>2, <2>3 DEF Past
  <1>7. \A j \in Slots : ~Operating(j)' /\ (Querying(j)' => j = i /\ p = "search" /\ ~c.answered)
    BY <1>4 DEF Operating, Querying, Alive, Operations
  <1>8. Button'
    BY <1>1, <1>5, <1>7 DEF Button, Open
  <1>9. OneOpenPerVisit'
    BY <1>1 DEF OneOpenPerVisit
  <1>10. Own'
    BY <1>1, <1>2, <1>7 DEF Own, TypeOK
  <1>11. OwnOperationsShown'
    <2>1. \A s \in told' : asked[s].user # NoUser
      BY AskedTypes DEF Own
    <2>. QED
      BY <1>1, <2>1 DEF OwnOperationsShown, Nothing
  <1>12. Beside'
    <2>1. BalanceCalls' = {}
      BY <1>4 DEF BalanceCalls, Alive
    <2>. QED
      BY <1>1, <2>1 DEF Beside
  <1>. QED
    BY <1>3, <1>6, <1>8, <1>9, <1>10, <1>11, <1>12

\* A step in which a call, at most, is over that was not a balance of the page:
\* what is left of the invariant is about fewer calls.
LEMMA FewerCallsInv ==
    ASSUME Inv, NEW i \in Slots, i \notin BalanceCalls,
           call' = call \/ call' = [call EXCEPT ![i] = Idle],
           UNCHANGED <<page, visit, launchAction, listed, shown, since, failed, crossed,
                       asked, bank>>,
           {initUser', user'} \subseteq Users \cup {NoUser},
           told \subseteq told', told' \subseteq Submissions,
           \A s \in told' : fate[s] = "applied"
    PROVE  Inv'
  <1>. USE DEF Inv
  <1>1. UNCHANGED <<balance, fate>>
    BY DEF bank
  <1>2. \A j \in Slots : call'[j] = call[j] \/ (j = i /\ call'[j] = Idle)
    BY DEF TypeOK
  <1>3. TypeOK'
    BY <1>1 DEF TypeOK
  <1>4. \A j \in Slots : /\ call'[j] # Idle => call'[j] = call[j]
                         /\ Operating(j)' => Operating(j)
                         /\ Querying(j)' => Querying(j)
    BY <1>2 DEF Operating, Querying, Alive
  <1>5. \A s \in Submissions : Open(s)' = Open(s)
    BY <1>1 DEF Open
  <1>6. Past'
    BY <1>4 DEF Past
  <1>7. Button'
    BY <1>4, <1>5 DEF Button, Operating
  <1>8. OneOpenPerVisit'
    BY <1>1 DEF OneOpenPerVisit
  <1>9. Own' /\ OwnOperationsShown'
    BY <1>1, <1>4 DEF Own, OwnOperationsShown, Querying
  <1>10. BalanceCalls' = BalanceCalls
    BY <1>2 DEF BalanceCalls, Alive
  <1>11. Beside'
    BY <1>4, <1>10 DEF Beside, BalanceCalls
  <1>. QED
    BY <1>3, <1>6, <1>7, <1>8, <1>9, <1>11

LEMMA ReuseInv ==
    ASSUME Inv, NEW u \in Users \cup {NoUser}, NEW i \in Slots, Reuse(u, i),
           call[i] = Idle \/ call[i].kind \in Operations,
           UNCHANGED <<asked, bank>>,
           told \subseteq told', told' \subseteq Submissions,
           \A s \in told' : fate[s] = "applied"
    PROVE  Inv'
  <1>1. i \notin BalanceCalls
    BY DEF BalanceCalls, Operations
  <1>2. {initUser', user'} \subseteq Users \cup {NoUser}
    BY DEF Reuse, Inv, TypeOK
  <1>. QED
    BY <1>1, <1>2, FewerCallsInv DEF Reuse, Send, Finish

LEMMA NavigateInv ==
    ASSUME Inv, NEW p \in Pages, NEW u \in Users \cup {NoUser}, NEW i \in Slots,
           Navigate(p, u, i), call[i] = Idle \/ call[i].kind \in Operations,
           UNCHANGED <<asked, bank>>,
           told \subseteq told', told' \subseteq Submissions,
           \A s \in told' : fate[s] = "applied"
    PROVE  Inv'
  BY CreateInv, ReuseInv DEF Navigate

\* The operation is submitted from a page whose button is enabled: no other
\* submission of the page is open, nor called for.
LEMMA SubmitInv ==
    ASSUME Inv, NEW i \in Slots, NEW s \in Submissions, Submit(s, i)
    PROVE  Inv'
  <1>. USE DEF Inv
  <1>. DEFINE c == [kind |-> page, user |-> user, visit |-> visit, sub |-> s]
              a == [kind |-> page, user |-> user, visit |-> visit]
  <1>1. /\ page \in Operations /\ user \in Users /\ visit \in Nat /\ ~launchAction
        /\ launchAction' = TRUE /\ call[i] = Idle /\ asked[s] = NotAsked
        /\ call' = [call EXCEPT ![i] = c] /\ asked' = [asked EXCEPT ![s] = a]
        /\ UNCHANGED <<page, visit, initUser, user, listed, shown, since, failed, crossed,
                       told, balance, fate>>
    BY DEF Submit, CanSubmit, IsFree, IsNext, Send, bank, TypeOK
  <1>2. /\ c \in Calls /\ c # Idle /\ c.kind \in Operations /\ c.visit = visit /\ c.sub = s
        /\ a # NotAsked /\ a.visit = visit /\ a \in [kind : Operations, user : Users, visit : Nat]
    BY <1>1 DEF Calls, Idle, NotAsked, Operations
  <1>3. TypeOK'
    BY <1>1, <1>2 DEF TypeOK
  <1>4. \A j \in Slots : call'[j] = IF j = i THEN c ELSE call[j]
    BY <1>1 DEF TypeOK
  <1>5. \A t \in Submissions : asked'[t] = IF t = s THEN a ELSE asked[t]
    BY <1>1 DEF TypeOK
  <1>. HIDE DEF c, a
  <1>6. Past'
    BY <1>1, <1>2, <1>4, <1>5 DEF Past
  <1>7. \A j \in Slots : /\ ~Operating(j) /\ (Operating(j)' => j = i)
                         /\ (Querying(j)' => Querying(j) /\ call'[j] = call[j])
    <2>1. c.kind \notin {"list", "balance"}
      BY <1>2 DEF Operations
    <2>. QED
      BY <1>1, <1>2, <1>4, <2>1 DEF Operating, Querying, Alive, Button
  <1>8. \A t \in Submissions : ~Open(t) /\ (Open(t)' => t = s)
    BY <1>1, <1>5 DEF Open, Button
  <1>9. Button'
    BY <1>1, <1>2, <1>4, <1>5, <1>7, <1>8 DEF Button
  <1>10. OneOpenPerVisit'
    <2>. SUFFICES ASSUME NEW t \in Submissions, t # s,
                         asked[t] # NotAsked, fate[t] = "open", asked[t].visit = visit
                  PROVE  FALSE
      BY <1>1, <1>2, <1>5 DEF OneOpenPerVisit
    <2>. QED
      BY <1>8 DEF Open
  <1>11. s \notin told /\ s \notin since
    BY <1>1 DEF Own, TypeOK
  <1>12. Own'
    BY <1>1, <1>2, <1>5, <1>7, <1>11 DEF Own, TypeOK
  <1>13. OwnOperationsShown'
    BY <1>1, <1>5, <1>11 DEF OwnOperationsShown, TypeOK
  <1>14. BalanceCalls' = BalanceCalls
    BY <1>1, <1>2, <1>4 DEF BalanceCalls, Alive, Operations
  <1>15. Beside'
    BY <1>1, <1>4, <1>14 DEF Beside, BalanceCalls
  <1>. QED
    BY <1>3, <1>6, <1>9, <1>10, <1>12, <1>13, <1>15

LEMMA SearchInv ==
    ASSUME Inv, NEW i \in Slots, Search(i)
    PROVE  Inv'
  <1>. USE DEF Inv
  <1>1. /\ page = "search" /\ user \in Users /\ visit \in Nat
        /\ launchAction' = TRUE /\ call[i] = Idle
        /\ call' = [call EXCEPT ![i] = Query("list", user, visit)]
        /\ UNCHANGED <<page, visit, initUser, user, listed, shown, since, failed, crossed,
                       asked, told, balance, fate>>
    BY DEF Search, CanSubmit, IsFree, Send, bank, TypeOK
  <1>2. PICK c \in Calls : /\ call' = [call EXCEPT ![i] = c] /\ c # Idle
                           /\ c.kind = "list" /\ c.visit = visit /\ c.answered = FALSE
    <2>1. /\ Query("list", user, visit) \in Calls /\ Query("list", user, visit) # Idle
          /\ Query("list", user, visit).kind = "list"
          /\ Query("list", user, visit).visit = visit
          /\ Query("list", user, visit).answered = FALSE
      BY <1>1 DEF Query, Calls, Idle
    <2>. QED
      BY <1>1, <2>1
  <1>3. TypeOK'
    BY <1>1, <1>2 DEF TypeOK
  <1>4. \A j \in Slots : call'[j] = IF j = i THEN c ELSE call[j]
    BY <1>2 DEF TypeOK
  <1>5. Past'
    BY <1>1, <1>2, <1>4 DEF Past
  <1>6. \A j \in Slots : /\ Operating(j)' => Operating(j) /\ call'[j] = call[j]
                         /\ Querying(j)' /\ call'[j].answered => Querying(j) /\ call'[j] = call[j]
    BY <1>1, <1>2, <1>4 DEF Operating, Querying, Alive, Operations
  <1>7. Button'
    BY <1>1, <1>6 DEF Button, Open
  <1>8. OneOpenPerVisit' /\ Own' /\ OwnOperationsShown'
    BY <1>1, <1>6 DEF OneOpenPerVisit, Own, OwnOperationsShown
  <1>9. BalanceCalls' = BalanceCalls
    BY <1>1, <1>2, <1>4 DEF BalanceCalls, Alive
  <1>10. Beside'
    BY <1>1, <1>4, <1>9 DEF Beside, BalanceCalls
  <1>. QED
    BY <1>3, <1>5, <1>7, <1>8, <1>10

\* The bank reads after what the user was told was applied.
LEMMA ReadInv ==
    ASSUME Inv, NEW i \in Slots, Read(i)
    PROVE  Inv'
  <1>. USE DEF Inv
  <1>1. /\ call[i] # Idle /\ call[i].kind \in {"list", "balance"}
        /\ UNCHANGED <<page, visit, initUser, user, launchAction, listed, shown, since,
                       failed, crossed, asked, told, balance, fate>>
    BY DEF Read, pageVars, bank
  <1>2. PICK c \in Calls :
          /\ call' = [call EXCEPT ![i] = c] /\ c # Idle
          /\ c.kind = call[i].kind /\ c.visit = call[i].visit /\ c.user = call[i].user
          /\ c.rows = AppliedTo(call[i].user)
    <2>. DEFINE d == [call[i] EXCEPT !.answered = TRUE, !.rows = AppliedTo(call[i].user)]
    <2>1. call[i] \in [kind : {"list", "balance"}, user : Users, visit : Nat,
                       answered : BOOLEAN, rows : SUBSET Submissions]
      BY <1>1 DEF TypeOK, Calls, Operations
    <2>2. AppliedTo(call[i].user) \subseteq Submissions
      BY DEF AppliedTo
    <2>3. /\ d \in Calls /\ d.kind = call[i].kind /\ d.visit = call[i].visit
          /\ d.user = call[i].user /\ d.rows = AppliedTo(call[i].user)
      BY <2>1, <2>2 DEF Calls
    <2>4. d # Idle
      BY <1>1, <2>3 DEF Idle
    <2>5. call' = [call EXCEPT ![i] = d]
      BY <1>1 DEF Read, TypeOK
    <2>. QED
      BY <2>3, <2>4, <2>5
  <1>3. TypeOK'
    BY <1>1, <1>2 DEF TypeOK
  <1>4. \A j \in Slots : call'[j] = IF j = i THEN c ELSE call[j]
    BY <1>2 DEF TypeOK
  <1>5. Past'
    BY <1>1, <1>2, <1>4 DEF Past
  <1>6. \A j \in Slots : /\ Operating(j)' => Operating(j) /\ call'[j] = call[j]
                         /\ Querying(j)' => Querying(j)
    BY <1>1, <1>2, <1>4 DEF Operating, Querying, Alive, Operations
  <1>7. Button'
    BY <1>1, <1>6 DEF Button, Open
  <1>8. Own'
    <2>1. {s \in since : asked[s].user = c.user} \subseteq c.rows
      BY <1>2 DEF AppliedTo, Own, TypeOK
    <2>. QED
      BY <1>1, <1>4, <1>6, <2>1 DEF Own
  <1>9. OneOpenPerVisit' /\ OwnOperationsShown'
    BY <1>1 DEF OneOpenPerVisit, OwnOperationsShown
  <1>10. BalanceCalls' = BalanceCalls
    BY <1>1, <1>2, <1>4 DEF BalanceCalls, Alive
  <1>11. Beside'
    BY <1>1, <1>2, <1>4, <1>10 DEF Beside, BalanceCalls
  <1>. QED
    BY <1>3, <1>5, <1>7, <1>8, <1>9, <1>11

LEMMA SettleInv ==
    ASSUME Inv, NEW s \in Submissions, Settle(s)
    PROVE  Inv'
  <1>. USE DEF Inv
  <1>1. /\ asked[s] # NotAsked
        /\ UNCHANGED <<page, visit, initUser, user, launchAction, listed, shown, since,
                       failed, crossed, call, asked, told>>
    BY DEF Settle, pageVars
  <1>2. /\ fate[s] = "open"
        /\ \E f \in {"applied", "closed"} : fate' = [fate EXCEPT ![s] = f]
    BY DEF Settle, Bank!Credit, Bank!Debit, Bank!Close, Bank!Settle
  <1>3. balance' \in [Users -> Nat]
    <2>1. asked[s].user \in Users /\ Limit \in Nat /\ balance \in [Users -> Nat]
      BY <1>1, AskedTypes, PagesAssumption DEF TypeOK
    <2>2. CASE Bank!Credit(s, asked[s].user)
      BY <2>1, <2>2 DEF Bank!Credit
    <2>3. CASE Bank!Debit(s, asked[s].user)
      BY <2>1, <2>3 DEF Bank!Debit
    <2>4. CASE Bank!Close(s)
      BY <2>1, <2>4 DEF Bank!Close
    <2>. QED
      BY <2>2, <2>3, <2>4 DEF Settle
  <1>4. TypeOK'
    BY <1>1, <1>2, <1>3 DEF TypeOK
  <1>5. \A t \in Submissions : fate'[t] = fate[t] \/ (t = s /\ fate'[t] # "open")
    BY <1>2 DEF TypeOK
  <1>6. \A t \in Submissions : Open(t)' => Open(t)
    BY <1>1, <1>5 DEF Open
  <1>7. Past' /\ OneOpenPerVisit' /\ OwnOperationsShown'
    BY <1>1, <1>5 DEF Past, OneOpenPerVisit, OwnOperationsShown
  <1>8. Button'
    BY <1>1, <1>6 DEF Button, Operating, Querying, Alive
  <1>9. Own'
    BY <1>1, <1>2, <1>5 DEF Own, Querying, Alive, TypeOK
  <1>10. Beside'
    BY <1>1 DEF Beside, BalanceCalls, Alive
  <1>. QED
    BY <1>4, <1>7, <1>8, <1>9, <1>10

\* The table of the page, or of one that was left, and the balance that is asked
\* for next.
LEMMA ListArrivesInv ==
    ASSUME Inv, NEW i \in Slots, ListArrives(i)
    PROVE  Inv'
  <1>. USE DEF Inv
  <1>1. /\ call[i] # Idle /\ call[i].kind = "list" /\ call[i].answered
        /\ UNCHANGED <<page, visit, initUser, user, shown, since, failed, asked, told,
                       balance, fate>>
        /\ call[i].user \in Users /\ call[i].visit \in Nat
        /\ [of |-> call[i].user, rows |-> call[i].rows] \in View
    BY CallTypes DEF ListArrives, Answered, bank, Operations
  <1>2. PICK c \in Calls :
          /\ call' = [call EXCEPT ![i] = c] /\ c # Idle /\ c.kind = "balance"
          /\ c.visit = call[i].visit /\ c.user = call[i].user /\ c.answered = FALSE
    <2>. DEFINE d == Query("balance", call[i].user, call[i].visit)
    <2>1. /\ d \in Calls /\ d # Idle /\ d.kind = "balance" /\ d.visit = call[i].visit
          /\ d.user = call[i].user /\ d.answered = FALSE
      BY <1>1 DEF Query, Calls, Idle
    <2>2. call' = [call EXCEPT ![i] = d]
      BY DEF ListArrives, Send
    <2>. HIDE DEF d
    <2>. QED
      BY <2>1, <2>2
  <1>3. \A j \in Slots : call'[j] = IF j = i THEN c ELSE call[j]
    BY <1>2 DEF TypeOK
  <1>4. \/ /\ Alive(i) /\ listed' = [of |-> call[i].user, rows |-> call[i].rows]
           /\ launchAction' = FALSE /\ crossed' = (crossed \/ BalanceCalls # {})
        \/ ~Alive(i) /\ UNCHANGED <<listed, launchAction, crossed>>
    BY DEF ListArrives
  <1>5. TypeOK'
    BY <1>1, <1>2, <1>4 DEF TypeOK
  <1>6. Past'
    BY <1>1, <1>2, <1>3 DEF Past
  <1>7. \A j \in Slots : /\ Operating(j)' => Operating(j) /\ call'[j] = call[j]
                         /\ Querying(j)' => Querying(j)
                         /\ Querying(j)' /\ call'[j].answered => call'[j] = call[j]
    BY <1>1, <1>2, <1>3 DEF Operating, Querying, Alive, Operations
  <1>8. Alive(i) => page = "search"
    BY <1>1 DEF Button, Querying
  <1>9. Button'
    BY <1>1, <1>4, <1>7, <1>8 DEF Button, Open, Operations
  <1>10. OneOpenPerVisit' /\ Own'
    BY <1>1, <1>7 DEF OneOpenPerVisit, Own
  <1>11. OwnOperationsShown'
    <2>1. Alive(i) => {s \in since : asked[s].user = call[i].user} \subseteq call[i].rows
      BY <1>1 DEF Own, Querying
    <2>. QED
      BY <1>1, <1>4, <2>1 DEF OwnOperationsShown
  <1>12. Beside'
    <2>1. CASE Alive(i)
      <3>1. BalanceCalls' = BalanceCalls \cup {i}
        BY <1>1, <1>2, <1>3, <2>1 DEF BalanceCalls, Alive
      <3>. QED
        <4>. SUFFICES ASSUME ~failed, ~crossed, BalanceCalls = {}
                      PROVE  /\ \A j \in BalanceCalls' : call'[j].user = listed'.of
                             /\ \A j, k \in BalanceCalls' : j = k
                             /\ BalanceCalls' # {}
          BY <1>1, <1>4, <2>1 DEF Beside
        <4>1. BalanceCalls' = {i}
          BY <3>1
        <4>2. call'[i].user = call[i].user /\ listed'.of = call[i].user
          BY <1>2, <1>3, <1>4, <2>1
        <4>. QED
          BY <4>1, <4>2
    <2>2. CASE ~Alive(i)
      <3>1. BalanceCalls' = BalanceCalls
        BY <1>1, <1>2, <1>3, <2>2 DEF BalanceCalls, Alive
      <3>2. i \notin BalanceCalls
        BY <2>2 DEF BalanceCalls
      <3>. QED
        BY <1>1, <1>3, <1>4, <2>2, <3>1, <3>2 DEF Beside, BalanceCalls
    <2>. QED
      BY <2>1, <2>2
  <1>. QED
    BY <1>5, <1>6, <1>9, <1>10, <1>11, <1>12

\* The button comes back when no submission of the page is open any more.
LEMMA RefusedInv ==
    ASSUME Inv, NEW i \in Slots, Refused(i)
    PROVE  Inv'
  <1>. USE DEF Inv
  <1>1. /\ call[i] # Idle /\ call[i].kind \in Operations /\ call[i].sub \in Submissions
        /\ fate[call[i].sub] = "closed"
        /\ call' = [call EXCEPT ![i] = Idle]
        /\ launchAction' = (launchAction /\ ~Alive(i))
        /\ UNCHANGED <<page, visit, initUser, user, listed, shown, since, failed, crossed,
                       asked, told, balance, fate>>
    BY CallTypes DEF Refused, Finish, Send, bank, Operations
  <1>2. \A j \in Slots : call'[j] = IF j = i THEN Idle ELSE call[j]
    BY <1>1 DEF TypeOK
  <1>3. TypeOK'
    BY <1>1 DEF TypeOK
  <1>4. \A j \in Slots : /\ Operating(j)' => Operating(j) /\ call'[j] = call[j] /\ j # i
                         /\ Querying(j)' => Querying(j) /\ call'[j] = call[j]
    BY <1>1, <1>2 DEF Operating, Querying, Alive
  <1>5. Past'
    BY <1>1, <1>2 DEF Past
  <1>6. Alive(i) => /\ \A j \in Slots : ~Operating(j)'
                    /\ \A s \in Submissions : ~Open(s)
    BY <1>1, <1>4 DEF Button, Operating, Open
  <1>7. Button'
    BY <1>1, <1>4, <1>6 DEF Button, Open, TypeOK
  <1>8. OneOpenPerVisit' /\ Own' /\ OwnOperationsShown'
    BY <1>1, <1>4 DEF OneOpenPerVisit, Own, OwnOperationsShown
  <1>9. BalanceCalls' = BalanceCalls
    BY <1>1, <1>2 DEF BalanceCalls, Alive, Operations
  <1>10. Beside'
    BY <1>1, <1>2, <1>9 DEF Beside, BalanceCalls
  <1>. QED
    BY <1>3, <1>5, <1>7, <1>8, <1>10

LEMMA BalanceArrivesInv ==
    ASSUME Inv, NEW i \in Slots, BalanceArrives(i)
    PROVE  Inv'
  <1>. USE DEF Inv
  <1>1. /\ call[i] # Idle /\ call[i].kind = "balance" /\ call[i].answered
        /\ call' = [call EXCEPT ![i] = Idle]
        /\ [of |-> call[i].user, rows |-> call[i].rows] \in View
        /\ UNCHANGED <<page, visit, initUser, user, launchAction, listed, since, failed,
                       crossed, asked, told, balance, fate>>
        /\ shown' = IF Alive(i) THEN [of |-> call[i].user, rows |-> call[i].rows] ELSE shown
    BY CallTypes DEF BalanceArrives, Answered, Finish, Send, bank, Operations
  <1>2. \A j \in Slots : call'[j] = IF j = i THEN Idle ELSE call[j]
    BY <1>1 DEF TypeOK
  <1>3. TypeOK'
    BY <1>1 DEF TypeOK
  <1>4. \A j \in Slots : /\ Operating(j)' => Operating(j) /\ call'[j] = call[j]
                         /\ Querying(j)' => Querying(j) /\ call'[j] = call[j]
    BY <1>1, <1>2 DEF Operating, Querying, Alive
  <1>5. Past' /\ OneOpenPerVisit'
    BY <1>1, <1>2 DEF Past, OneOpenPerVisit
  <1>6. Button'
    BY <1>1, <1>4 DEF Button, Open
  <1>7. Own'
    BY <1>1, <1>4 DEF Own
  <1>8. OwnOperationsShown'
    <2>1. Alive(i) => {s \in since : asked[s].user = call[i].user} \subseteq call[i].rows
      BY <1>1 DEF Own, Querying
    <2>. QED
      BY <1>1, <2>1 DEF OwnOperationsShown
  <1>9. Beside'
    <2>1. BalanceCalls' = BalanceCalls \ {i}
      BY <1>1, <1>2 DEF BalanceCalls, Alive
    <2>2. Alive(i) <=> i \in BalanceCalls
      BY <1>1 DEF BalanceCalls
    <2>. QED
      BY <1>1, <1>2, <2>1, <2>2 DEF Beside
  <1>. QED
    BY <1>3, <1>5, <1>6, <1>7, <1>8, <1>9

LEMMA CallFailsInv ==
    ASSUME Inv, NEW i \in Slots, CallFails(i)
    PROVE  Inv'
  <1>. USE DEF Inv
  <1>1. /\ call' = [call EXCEPT ![i] = Idle]
        /\ UNCHANGED <<page, visit, initUser, user, launchAction, listed, shown, since,
                       crossed, asked, told, balance, fate>>
        /\ failed' = (failed \/ Alive(i)) /\ failed' \in BOOLEAN
    BY DEF CallFails, Finish, Send, bank, TypeOK
  <1>2. \A j \in Slots : call'[j] = IF j = i THEN Idle ELSE call[j]
    BY <1>1 DEF TypeOK
  <1>3. TypeOK'
    BY <1>1 DEF TypeOK
  <1>4. \A j \in Slots : /\ Operating(j)' => Operating(j) /\ call'[j] = call[j]
                         /\ Querying(j)' => Querying(j) /\ call'[j] = call[j]
    BY <1>1, <1>2 DEF Operating, Querying, Alive
  <1>5. Past' /\ OneOpenPerVisit' /\ OwnOperationsShown'
    BY <1>1, <1>2 DEF Past, OneOpenPerVisit, OwnOperationsShown
  <1>6. Button'
    BY <1>1, <1>4 DEF Button, Open
  <1>7. Own'
    BY <1>1, <1>4 DEF Own
  <1>8. Beside'
    <2>1. CASE Alive(i)
      BY <1>1, <2>1 DEF Beside
    <2>2. CASE ~Alive(i)
      <3>1. BalanceCalls' = BalanceCalls /\ i \notin BalanceCalls
        BY <1>1, <1>2, <2>2 DEF BalanceCalls, Alive
      <3>. QED
        BY <1>1, <1>2, <2>2, <3>1 DEF Beside, BalanceCalls
    <2>. QED
      BY <2>1, <2>2
  <1>. QED
    BY <1>3, <1>5, <1>6, <1>7, <1>8

LEMMA NextInv == Inv /\ [Next]_vars => Inv'
  <1>. SUFFICES ASSUME Inv, [Next]_vars PROVE Inv'
    OBVIOUS
  <1>1. \A s \in told : fate[s] = "applied"
    BY DEF Inv, Own
  <1>2. told \subseteq Submissions /\ user \in Users \cup {NoUser}
    BY DEF Inv, TypeOK
  <1>3. ASSUME NEW i \in Slots, NEW p \in Operations, OpenOperation(p, i)
        PROVE  Inv'
    BY <1>1, <1>2, <1>3, NavigateInv DEF OpenOperation, IsFree, Operations, Pages
  <1>4. ASSUME NEW i \in Slots, NEW u \in Users \cup {NoUser}, Back(u, i)
        PROVE  Inv'
    BY <1>1, <1>2, <1>4, NavigateInv DEF Back, IsFree, Pages
  <1>5. ASSUME NEW i \in Slots, Succeeds(i)
        PROVE  Inv'
    <2>1. /\ call[i].user \in Users /\ call[i].sub \in Submissions
          /\ call[i].kind \in Operations /\ fate[call[i].sub] = "applied"
      BY <1>5, CallTypes DEF Succeeds, Inv, Operations
    <2>2. /\ told \subseteq told' /\ told' \subseteq Submissions
          /\ \A s \in told' : fate[s] = "applied"
      BY <1>1, <1>2, <1>5, <2>1 DEF Succeeds
    <2>. QED
      BY <1>5, <2>1, <2>2, NavigateInv DEF Succeeds, Pages
  <1>6. ASSUME NEW u \in Users, Choose(u)
        PROVE  Inv'
    BY <1>6 DEF Choose, bank, Inv, TypeOK, Past, Button, Querying, Operating, Open, Alive,
                OneOpenPerVisit, Own, OwnOperationsShown, Beside, BalanceCalls
  <1>7. CASE UNCHANGED vars
    BY <1>7 DEF vars, pageVars, bank, Inv, TypeOK, Past, Button, Querying, Operating, Open,
                Alive, OneOpenPerVisit, Own, OwnOperationsShown, Beside, BalanceCalls
  <1>. QED
    BY <1>3, <1>4, <1>5, <1>6, <1>7, SubmitInv, SearchInv, ReadInv, ListArrivesInv,
       BalanceArrivesInv, RefusedInv, CallFailsInv, SettleInv DEF Next, Callback

LEMMA SpecInv == Spec => []Inv
  BY InitInv, NextInv, PTL DEF Spec

-----------------------------------------------------------------------------
\* Theorems.

\* The page, its calls and the bank have the values the code gives them.
THEOREM TypeCorrect == Spec => []TypeOK
  <1>1. Inv => TypeOK
    BY DEF Inv
  <1>. QED
    BY <1>1, SpecInv, PTL

\* Whatever answers are lost, and however many pages the user opens, the bank
\* never works on two submissions of one opened page.
THEOREM OneOpenSubmission == Spec => []OneOpenPerVisit
  <1>1. Inv => OneOpenPerVisit
    BY DEF Inv
  <1>. QED
    BY <1>1, SpecInv, PTL

\* What the user was told before a page was opened is in the table and in the
\* balance that it shows.
THEOREM ToldIsShown == Spec => []OwnOperationsShown
  <1>1. Inv => OwnOperationsShown
    BY DEF Inv
  <1>. QED
    BY <1>1, SpecInv, PTL

\* The balance is that of the user of the table beside it, once it has arrived.
THEOREM BalanceBesideTable == Spec => []BalanceOfListed
  <1>1. Inv => BalanceOfListed
    BY DEF Inv, Beside, BalanceOfListed
  <1>. QED
    BY <1>1, SpecInv, PTL

===============================================================================
