---- MODULE FirstRunProofs ----
(***************************************************************************)
(* The first run is made once, and nobody is sent to the login page of an  *)
(* installation without an administrator, for any windows and accounts.    *)
(***************************************************************************)
EXTENDS FirstRun, TLAPS

\* The lock on the row of bootstrap_state: one transaction holds it, and only
\* while there is no administrator.
LockHeld ==
    /\ \A i, j \in Attempts : Claimed(i) /\ Claimed(j) => i = j
    /\ \A i \in Attempts : Claimed(i) => ~Initialized

\* What a window shows, asks or has been answered once there must be an
\* administrator.
Past(w) ==
    \/ page[w] \in {"login", "panel"}
    \/ call[w].to \in {"refresh", "recover", "login", "session", "logout"}
    \/ call[w].answer = "already"
    \/ call[w].to \in {"status", "setup"} /\ call[w].answer = "yes"

\* TypeOK alone does not say that a login page is preceded by an administrator,
\* nor that a claim excludes one.
FirstRunInv ==
    /\ TypeOK
    /\ LockHeld
    /\ \A w \in Windows : Past(w) => Initialized

-----------------------------------------------------------------------------
(* Initial states *)

\* The invariant holds at the start.
LEMMA InitLemma ==
    ASSUME Init
    PROVE  FirstRunInv
<1>1. TypeOK
  BY FirstRunAssumption DEF Init, TypeOK, Pages, Calls, Answers
<1>2. LockHeld
  BY DEF Init, LockHeld, Claimed, Running
<1>3. \A w \in Windows : ~Past(w)
  BY DEF Init, Past
<1> QED BY <1>1, <1>2, <1>3 DEF FirstRunInv

-----------------------------------------------------------------------------
(* Steps *)

\* What a bound leaves is a natural number.
LEMMA SpendLemma ==
    ASSUME TypeOK, NEW event \in Bounded, Spend(event)
    PROVE  left' \in [Bounded -> Nat]
<1>1. left[event] \in Nat /\ left[event] > 0
  BY DEF TypeOK, Spend
<1>2. left[event] - 1 \in Nat
  BY <1>1
<1> QED BY <1>2 DEF TypeOK, Spend

\* An administrator, once there is one, is there for every window.
LEMMA KnownLemma ==
    ASSUME FirstRunInv, UNCHANGED administrator, TypeOK', LockHeld',
           \A w \in Windows : Past(w)' => Past(w) \/ Initialized
    PROVE  FirstRunInv'
BY DEF FirstRunInv, Initialized

\* Windows that are told, or ask, nothing of the row leave the lock as it is.
LEMMA LockLemma ==
    ASSUME LockHeld, UNCHANGED administrator,
           \A i \in Attempts : Claimed(i)' => Claimed(i)
    PROVE  LockHeld'
BY DEF LockHeld, Initialized

\* The end of a transaction is typed, and frees the row.
LEMMA EndsLemma ==
    ASSUME TypeOK, NEW i \in Attempts, Running(i), NEW answer \in Answers, Ends(i, answer)
    PROVE  /\ setup' \in [Attempts -> Attempt \cup {None}]
           /\ call' \in [Windows -> [to : Calls \cup {"nobody"}, answer : Answers]]
           /\ ~Claimed(i)'
           /\ \A j \in Attempts : j # i => Claimed(j)' = Claimed(j)
           /\ \A w \in Windows :
                  /\ call'[w].to = call[w].to
                  /\ call'[w].answer \in {call[w].answer, answer}
<1>1. setup[i] \in Attempt /\ setup[i].window \in Windows
  BY DEF TypeOK, Running, Attempt
<1>2. setup' = [setup EXCEPT ![i] = None]
  BY DEF Ends
<1>3. setup' \in [Attempts -> Attempt \cup {None}]
  BY <1>2 DEF TypeOK
<1>4. ~Claimed(i)' /\ \A j \in Attempts : j # i => Claimed(j)' = Claimed(j)
  BY <1>2 DEF TypeOK, Claimed, Running
<1>5. CASE setup[i].heard
  BY <1>1, <1>3, <1>4, <1>5 DEF Ends, TypeOK
<1>6. CASE ~setup[i].heard
  BY <1>3, <1>4, <1>6 DEF Ends, TypeOK
<1> QED BY <1>5, <1>6

\* A transaction takes the lock, or learns that there is an administrator.
LEMMA ClaimLemma ==
    ASSUME FirstRunInv, NEW i \in Attempts, Claim(i)
    PROVE  FirstRunInv'
<1>1. CASE Initialized
  <2>1. Ends(i, "already") /\ UNCHANGED <<administrator, page, stored, left>> /\ Running(i)
    BY <1>1 DEF Claim
  <2>2. "already" \in Answers /\ TypeOK
    BY DEF Answers, FirstRunInv
  <2>3. TypeOK'
    BY <2>1, <2>2, EndsLemma DEF TypeOK
  <2>4. LockHeld'
    BY <2>1, <2>2, EndsLemma, LockLemma DEF FirstRunInv
  <2> QED BY <1>1, <2>1, <2>3, <2>4, KnownLemma
<1>2. CASE ~Initialized
  <2>1. /\ setup' = [setup EXCEPT ![i].claimed = TRUE]
        /\ UNCHANGED <<administrator, call, page, stored, left>>
        /\ Running(i) /\ ~RowLocked
    BY <1>2 DEF Claim
  <2>2. setup[i] \in Attempt
    BY <2>1 DEF FirstRunInv, TypeOK, Running
  <2>3. TypeOK'
    BY <2>1, <2>2 DEF FirstRunInv, TypeOK, Attempt
  <2>4. \A j \in Attempts : Claimed(j)' => j = i
    BY <2>1 DEF FirstRunInv, TypeOK, RowLocked, Claimed, Running
  <2>5. LockHeld'
    BY <1>2, <2>1, <2>4 DEF LockHeld, Initialized
  <2>6. \A w \in Windows : Past(w)' = Past(w)
    BY <2>1 DEF Past
  <2> QED BY <2>1, <2>3, <2>5, <2>6, KnownLemma
<1> QED BY <1>1, <1>2

\* The transaction that holds the lock makes the administrator.
LEMMA CommitLemma ==
    ASSUME FirstRunInv, NEW i \in Attempts, Commit(i)
    PROVE  FirstRunInv'
<1>1. Running(i) /\ Claimed(i) /\ Ends(i, "yes") /\ UNCHANGED <<page, stored, left>>
  BY DEF Commit, Claimed
<1>2. "yes" \in Answers /\ TypeOK
  BY DEF Answers, FirstRunInv
<1>3. administrator' \in Accounts
  BY <1>1 DEF Commit, FirstRunInv, TypeOK, Running, Attempt, Accounts
<1>4. Initialized'
  BY <1>3, FirstRunAssumption DEF Initialized
<1>5. TypeOK'
  BY <1>1, <1>2, <1>3, EndsLemma DEF TypeOK
<1>6. \A j \in Attempts : ~Claimed(j)'
  BY <1>1, <1>2, EndsLemma DEF FirstRunInv, LockHeld
<1>7. LockHeld'
  BY <1>6 DEF LockHeld
<1> QED BY <1>4, <1>5, <1>7 DEF FirstRunInv

\* One that fails gives the lock back.
LEMMA RollbackLemma ==
    ASSUME FirstRunInv, NEW i \in Attempts, Rollback(i)
    PROVE  FirstRunInv'
<1>1. Running(i) /\ Ends(i, "no") /\ UNCHANGED <<administrator, page, stored>>
  BY DEF Rollback
<1>2. "no" \in Answers /\ TypeOK /\ "fault" \in Bounded
  BY DEF Answers, FirstRunInv, Bounded
<1>3. left' \in [Bounded -> Nat]
  BY <1>2, SpendLemma DEF Rollback
<1>4. TypeOK'
  BY <1>1, <1>2, <1>3, EndsLemma DEF TypeOK
<1>5. LockHeld'
  BY <1>1, <1>2, EndsLemma, LockLemma DEF FirstRunInv
<1>6. \A w \in Windows : Past(w)' => Past(w)
  BY <1>1, <1>2, EndsLemma DEF Past
<1> QED BY <1>1, <1>4, <1>5, <1>6, KnownLemma

\* A request of one window: the others stay, the row is not touched.
LEMMA WindowLemma ==
    ASSUME FirstRunInv, NEW w \in Windows, UNCHANGED administrator,
           setup' \in [Attempts -> Attempt \cup {None}],
           \A i \in Attempts : Claimed(i)' => Claimed(i),
           NEW p \in Pages, page' = [page EXCEPT ![w] = p],
           NEW c \in [to : Calls \cup {"nobody"}, answer : Answers],
           call' = [call EXCEPT ![w] = c],
           stored' \in [Windows -> {"none", "valid", "revoked"}],
           left' \in [Bounded -> Nat],
           Past(w)' => Past(w) \/ Initialized
    PROVE  FirstRunInv'
<1>1. TypeOK'
  BY DEF FirstRunInv, TypeOK
<1>2. LockHeld'
  BY LockLemma DEF FirstRunInv
<1>3. \A v \in Windows : Past(v)' => Past(v) \/ Initialized
  BY DEF FirstRunInv, TypeOK, Past
<1> QED BY <1>1, <1>2, <1>3, KnownLemma

\* What a window shows and asks is typed, whether or not it changes.
LEMMA ShapeLemma ==
    ASSUME FirstRunInv, NEW w \in Windows
    PROVE  /\ page[w] \in Pages /\ page = [page EXCEPT ![w] = page[w]]
           /\ call[w] \in [to : Calls \cup {"nobody"}, answer : Answers]
           /\ call = [call EXCEPT ![w] = call[w]]
           /\ setup \in [Attempts -> Attempt \cup {None}]
           /\ stored \in [Windows -> {"none", "valid", "revoked"}]
           /\ left \in [Bounded -> Nat]
           /\ Past(w) => Initialized
BY DEF FirstRunInv, TypeOK

\* A request that its window no longer waits for takes no lock.
LEMMA UnheardLemma ==
    ASSUME TypeOK, NEW w \in Windows, Unheard(w)
    PROVE  /\ setup' \in [Attempts -> Attempt \cup {None}]
           /\ \A i \in Attempts : Claimed(i)' => Claimed(i)
<1>1. ASSUME NEW i \in Attempts
      PROVE  /\ setup'[i] \in Attempt \cup {None}
             /\ Claimed(i)' => Claimed(i)
  <2>1. setup[i] \in Attempt \cup {None}
    BY DEF TypeOK
  <2>2. CASE Running(i) /\ setup[i].window = w
    <3>1. setup'[i] = [setup[i] EXCEPT !.heard = FALSE] /\ setup[i] \in Attempt
      BY <2>1, <2>2 DEF Unheard, Running
    <3> QED BY <2>2, <3>1 DEF Attempt, Claimed
  <2>3. CASE ~(Running(i) /\ setup[i].window = w)
    <3>1. setup'[i] = setup[i]
      BY <2>3 DEF Unheard
    <3> QED BY <2>1, <3>1 DEF Claimed, Running
  <2> QED BY <2>2, <2>3
<1>2. setup' = [i \in Attempts |-> setup'[i]]
  BY DEF Unheard
<1> QED BY <1>1, <1>2

\* The server answers a window from what is in its database.
LEMMA ServeLemma ==
    ASSUME FirstRunInv, NEW w \in Windows, Serve(w)
    PROVE  FirstRunInv'
<1>1. PICK answer \in AnswersTo(w) : call' = [call EXCEPT ![w].answer = answer]
  BY DEF Serve
<1>2. answer \in {"yes", "no"} /\ (call[w].to = "status" /\ answer = "yes" => Initialized)
  BY DEF AnswersTo
<1> DEFINE c == [call[w] EXCEPT !.answer = answer]
<1>3. c \in [to : Calls \cup {"nobody"}, answer : Answers] /\ call' = [call EXCEPT ![w] = c]
  BY <1>1, <1>2, ShapeLemma DEF Answers
<1>4. stored' \in [Windows -> {"none", "valid", "revoked"}]
  BY ShapeLemma DEF Serve
<1>5. call'[w].to = call[w].to /\ call'[w].answer = answer /\ call[w].to # "setup"
  BY <1>1, ShapeLemma DEF Serve, FirstRunInv, TypeOK
<1>6. UNCHANGED <<administrator, setup, page, left>>
  BY DEF Serve
<1>7. Past(w)' => Past(w) \/ Initialized
  BY <1>2, <1>5, <1>6 DEF Past
<1>8. \A i \in Attempts : Claimed(i)' => Claimed(i)
  BY <1>6 DEF Claimed, Running
<1> HIDE DEF c
<1> QED BY <1>3, <1>4, <1>6, <1>7, <1>8, ShapeLemma, WindowLemma

\* A window that shows a page and awaits nothing.
LEMMA ShowLemma ==
    ASSUME FirstRunInv, NEW w \in Windows, NEW p \in Pages, Show(w, p),
           UNCHANGED administrator,
           setup' \in [Attempts -> Attempt \cup {None}],
           \A i \in Attempts : Claimed(i)' => Claimed(i),
           stored' \in [Windows -> {"none", "valid", "revoked"}],
           left' \in [Bounded -> Nat],
           p \in {"login", "panel"} => Initialized
    PROVE  FirstRunInv'
<1>1. NoCall \in [to : Calls \cup {"nobody"}, answer : Answers]
  BY DEF NoCall, Answers
<1>2. page' = [page EXCEPT ![w] = p] /\ call' = [call EXCEPT ![w] = NoCall]
  BY DEF Show
<1>3. page'[w] = p /\ call'[w] = NoCall
  BY <1>2 DEF FirstRunInv, TypeOK
<1>4. Past(w)' => Initialized
  BY <1>3 DEF Past, NoCall
<1> QED BY <1>1, <1>2, <1>4, WindowLemma

\* A window that makes a request, on the page it shows or another.
LEMMA CallLemma ==
    ASSUME FirstRunInv, NEW w \in Windows, NEW to \in Calls, Call(w, to),
           NEW p \in Pages, page' = [page EXCEPT ![w] = p],
           UNCHANGED administrator,
           setup' \in [Attempts -> Attempt \cup {None}],
           \A i \in Attempts : Claimed(i)' => Claimed(i),
           stored' \in [Windows -> {"none", "valid", "revoked"}],
           left' \in [Bounded -> Nat],
           Initialized \/ (p \notin {"login", "panel"} /\ to \in {"status", "setup"})
    PROVE  FirstRunInv'
<1> DEFINE c == [to |-> to, answer |-> "awaited"]
<1>1. c \in [to : Calls \cup {"nobody"}, answer : Answers] /\ call' = [call EXCEPT ![w] = c]
  BY DEF Call, Answers
<1>2. page'[w] = p /\ call'[w] = c
  BY <1>1 DEF FirstRunInv, TypeOK
<1>3. Past(w)' => Initialized
  BY <1>2 DEF Past
<1> HIDE DEF c
<1> QED BY <1>1, <1>3, WindowLemma

\* A window reads its answer, and goes where the answer leads.
LEMMA HearLemma ==
    ASSUME FirstRunInv, NEW w \in Windows, Hear(w)
    PROVE  FirstRunInv'
<1>1. UNCHANGED <<administrator, setup, left>> /\ setup' \in [Attempts -> Attempt \cup {None}]
      /\ left' \in [Bounded -> Nat] /\ \A i \in Attempts : Claimed(i)' => Claimed(i)
  BY ShapeLemma DEF Hear, Claimed, Running
<1>2. {"loading", "unavailable", "assistant", "login", "panel"} \subseteq Pages
  BY DEF Pages
<1>3. {"refresh", "recover", "session"} \subseteq Calls
  BY DEF Calls
<1>4. (UNCHANGED stored \/ Forget(w) \/ stored' = [stored EXCEPT ![w] = "valid"])
          => stored' \in [Windows -> {"none", "valid", "revoked"}]
  BY ShapeLemma DEF Forget
<1>5. \A to, answer : Answered(w, to, answer) => call[w].to = to /\ call[w].answer = answer
  BY DEF Answered
<1>6. CASE StatusHeard(w)
  <2>1. CASE Answered(w, "status", "no") /\ Show(w, "assistant") /\ UNCHANGED stored
    BY <1>1, <1>2, <1>4, <2>1, ShowLemma
  <2>2. CASE /\ Answered(w, "status", "yes") /\ UNCHANGED stored
             /\ Show(w, "login") \/ (Call(w, "refresh") /\ UNCHANGED page)
    <3>1. Initialized
      BY <1>5, <2>2, ShapeLemma DEF Past
    <3>2. CASE Show(w, "login")
      BY <1>1, <1>2, <1>4, <2>2, <3>1, <3>2, ShowLemma
    <3>3. CASE Call(w, "refresh") /\ UNCHANGED page
      BY <1>1, <1>3, <1>4, <2>2, <3>1, <3>3, ShapeLemma, CallLemma
    <3> QED BY <2>2, <3>2, <3>3
  <2> QED BY <1>6, <2>1, <2>2 DEF StatusHeard
<1>7. CASE SessionHeard(w)
  <2>1. Initialized
    BY <1>5, <1>7, ShapeLemma DEF SessionHeard, Past
  <2> QED BY <1>1, <1>2, <1>4, <1>7, <2>1, ShowLemma DEF SessionHeard
<1>8. CASE Refused(w)
  <2>1. CASE Answered(w, "setup", "no") /\ Show(w, "assistant") /\ UNCHANGED stored
    BY <1>1, <1>2, <1>4, <2>1, ShowLemma
  <2>2. CASE /\ Answered(w, "setup", "already") \/ Answered(w, "login", "no")
             /\ UNCHANGED <<page, stored>>
             /\ Call(w, "recover") \/ Call(w, "session")
    <3>1. Initialized
      BY <1>5, <2>2, ShapeLemma DEF Past
    <3> QED BY <1>1, <1>3, <1>4, <2>2, <3>1, ShapeLemma, CallLemma
  <2>3. CASE /\ \E to \in {"refresh", "recover", "session"} : Answered(w, to, "no")
             /\ Show(w, "login") /\ (Forget(w) \/ UNCHANGED stored)
    <3>1. Initialized
      BY <1>5, <2>3, ShapeLemma DEF Past
    <3> QED BY <1>1, <1>2, <1>4, <2>3, <3>1, ShowLemma
  <2> QED BY <1>8, <2>1, <2>2, <2>3 DEF Refused
<1>9. CASE LogoutHeard(w)
  <2>1. Initialized
    BY <1>5, <1>9, ShapeLemma DEF LogoutHeard, Past
  <2> QED BY <1>1, <1>2, <1>4, <1>9, <2>1, ShowLemma DEF LogoutHeard
<1> QED BY <1>6, <1>7, <1>8, <1>9 DEF Hear

\* An answer that is lost leads to no login page.
LEMMA LostLemma ==
    ASSUME FirstRunInv, NEW w \in Windows, Lost(w)
    PROVE  FirstRunInv'
<1>1. TypeOK /\ "loss" \in Bounded
  BY DEF FirstRunInv, Bounded
<1>2. left' \in [Bounded -> Nat]
  BY <1>1, SpendLemma DEF Lost
<1>3. /\ UNCHANGED administrator
      /\ setup' \in [Attempts -> Attempt \cup {None}]
      /\ \A i \in Attempts : Claimed(i)' => Claimed(i)
  BY <1>1, UnheardLemma DEF Lost
<1>4. stored' \in [Windows -> {"none", "valid", "revoked"}]
  BY ShapeLemma DEF Lost
<1>5. {"unavailable", "assistant", "login"} \subseteq Pages
  BY DEF Pages
<1>6. CASE call[w].to = "status"
  BY <1>2, <1>3, <1>4, <1>5, <1>6, ShowLemma DEF Lost
<1>7. CASE call[w].to = "setup"
  BY <1>2, <1>3, <1>4, <1>5, <1>7, ShowLemma DEF Lost
<1>8. CASE call[w].to \notin {"status", "setup"}
  <2>1. Initialized
    BY <1>8, ShapeLemma DEF Lost, Calls, Past
  <2>2. Show(w, "login")
    BY <1>8 DEF Lost
  <2> QED BY <1>2, <1>3, <1>4, <1>5, <2>1, <2>2, ShowLemma
<1> QED BY <1>6, <1>7, <1>8

\* A page that loads has been told nothing.
LEMMA LoadLemma ==
    ASSUME FirstRunInv, NEW w \in Windows, Load(w),
           stored' \in [Windows -> {"none", "valid", "revoked"}],
           left' \in [Bounded -> Nat]
    PROVE  FirstRunInv'
<1>1. /\ UNCHANGED administrator
      /\ setup' \in [Attempts -> Attempt \cup {None}]
      /\ \A i \in Attempts : Claimed(i)' => Claimed(i)
  BY UnheardLemma DEF Load, FirstRunInv
<1>2. "loading" \in Pages /\ "status" \in Calls
  BY DEF Pages, Calls
<1>3. page' = [page EXCEPT ![w] = "loading"] /\ Call(w, "status")
  BY DEF Load
<1> QED BY <1>1, <1>2, <1>3, CallLemma

\* So has a page that is loaded again.
LEMMA ReloadLemma ==
    ASSUME FirstRunInv, NEW w \in Windows, Reload(w)
    PROVE  FirstRunInv'
<1>1. TypeOK /\ "reload" \in Bounded
  BY DEF FirstRunInv, Bounded
<1>2. left' \in [Bounded -> Nat]
  BY <1>1, SpendLemma DEF Reload
<1>3. stored' \in [Windows -> {"none", "valid", "revoked"}]
  BY ShapeLemma DEF Reload
<1> QED BY <1>2, <1>3, LoadLemma DEF Reload

\* A form that is sent begins a transaction without the lock.
LEMMA SubmitLemma ==
    ASSUME FirstRunInv, NEW w \in Windows, Submit(w)
    PROVE  FirstRunInv'
<1>1. PICK i \in Unused : setup' = [setup EXCEPT ![i] =
                              [window |-> w, heard |-> TRUE, claimed |-> FALSE]]
  BY DEF Submit
<1>2. i \in Attempts
  BY DEF Unused
<1>3. setup' \in [Attempts -> Attempt \cup {None}]
  BY <1>1, <1>2, ShapeLemma DEF Attempt
<1>4. \A j \in Attempts : Claimed(j)' => Claimed(j)
  BY <1>1, <1>2, ShapeLemma DEF Claimed, Running
<1>5. /\ UNCHANGED <<administrator, page, stored, left>>
      /\ Call(w, "setup") /\ "setup" \in Calls
      /\ page[w] = "assistant"
  BY DEF Submit, Calls
<1> QED BY <1>3, <1>4, <1>5, ShapeLemma, CallLemma

\* LogIn and LogOut ask from a page that only an administrator's being there
\* has brought.
LEMMA AskLemma ==
    ASSUME FirstRunInv, NEW w \in Windows, LogIn(w) \/ LogOut(w)
    PROVE  FirstRunInv'
<1>1. PICK to \in {"login", "logout"} : Call(w, to)
  BY DEF LogIn, LogOut
<1>2. to \in Calls
  BY DEF Calls
<1>3. UNCHANGED <<administrator, setup, page, stored>> /\ Initialized
  BY ShapeLemma DEF LogIn, LogOut, Past
<1>4. left' \in [Bounded -> Nat]
  <2>1. "logout" \in Bounded /\ TypeOK
    BY DEF Bounded, FirstRunInv
  <2>2. CASE LogIn(w)
    BY <2>2, ShapeLemma DEF LogIn
  <2>3. CASE LogOut(w)
    BY <2>1, <2>3, SpendLemma DEF LogOut
  <2> QED BY <2>2, <2>3
<1>5. \A i \in Attempts : Claimed(i)' => Claimed(i)
  BY <1>3 DEF Claimed, Running
<1> QED BY <1>1, <1>2, <1>3, <1>4, <1>5, ShapeLemma, CallLemma

\* Every step keeps the invariant.
LEMMA StepLemma ==
    ASSUME FirstRunInv, [Next]_vars
    PROVE  FirstRunInv'
<1>1. CASE UNCHANGED vars
  BY <1>1 DEF vars, FirstRunInv, TypeOK, LockHeld, Claimed, Running, RowLocked,
              Past, Initialized
<1>2. ASSUME NEW w \in Windows, Window(w)
      PROVE  FirstRunInv'
  <2>1. CASE TryAgain(w)
    BY <2>1, ShapeLemma, LoadLemma DEF TryAgain
  <2> QED BY <1>2, <2>1, ServeLemma, HearLemma, LostLemma, ReloadLemma, SubmitLemma,
             AskLemma DEF Window
<1>3. ASSUME NEW i \in Attempts, Transaction(i)
      PROVE  FirstRunInv'
  BY <1>3, ClaimLemma, CommitLemma, RollbackLemma DEF Transaction
<1> QED BY <1>1, <1>2, <1>3 DEF Next

-----------------------------------------------------------------------------
(* Theorems *)

\* The invariant of the first run: who has created the administrator, and
\* what each page has been told of it.
THEOREM Invariance == Spec => []FirstRunInv
<1>1. Init => FirstRunInv
  BY InitLemma
<1>2. FirstRunInv /\ [Next]_vars => FirstRunInv'
  BY StepLemma
<1> QED BY <1>1, <1>2, PTL DEF Spec

\* The type invariant of the panel and of the transactions of setup.
THEOREM FirstRunTyped == Spec => []TypeOK
BY Invariance, PTL DEF FirstRunInv

\* Only an installation with an administrator shows its login page, however
\* many assistants compete, fail, lose their answers or are loaded again.
THEOREM LoginIsPreceded == Spec => []LoginHasAccount
<1>1. FirstRunInv => LoginHasAccount
  BY DEF FirstRunInv, LoginHasAccount, Past
<1> QED BY <1>1, Invariance, PTL

\* The administrator that a setup has created is never replaced by another's.
THEOREM CreatedOnce == Spec => SetUpOnce
<1>1. ASSUME FirstRunInv, [Next]_vars
      PROVE  [administrator # None => administrator' = administrator]_vars
  <2>1. ASSUME NEW w \in Windows, Window(w)
        PROVE  UNCHANGED administrator
    BY <2>1 DEF Window, Serve, Hear, Lost, Reload, Load, TryAgain, Submit, LogIn, LogOut
  <2>2. ASSUME NEW i \in Attempts, Transaction(i), administrator # None
        PROVE  UNCHANGED administrator
    <3>1. ~Claimed(i)
      BY <1>1, <2>2 DEF FirstRunInv, LockHeld, Initialized
    <3> QED BY <2>2, <3>1 DEF Transaction, Claim, Commit, Rollback
  <2> QED BY <1>1, <2>1, <2>2 DEF Next
<1> QED BY <1>1, Invariance, PTL DEF Spec, SetUpOnce
====
