---- MODULE FirstRun ----
(***************************************************************************)
(* The first run of an installation: the administration panel in several   *)
(* browsers, each in front of somebody who fills in the assistant, and the *)
(* transactions of BootstrapService that try to make one of them the       *)
(* administrator.                                                          *)
(*                                                                         *)
(* A window has one request under way at most.  A window that is loaded    *)
(* again, or whose connection fails, abandons its request: a transaction   *)
(* that has begun goes on and nobody hears of its end.                     *)
(***************************************************************************)
EXTENDS Naturals

CONSTANTS
    Windows,    \* windows of the panel, each in a browser of its own
    Account,    \* the e-mail address and password entered in each window
    Attempts,   \* names of the transactions
    None,       \* SQL's NULL, JavaScript's null
    Limits      \* bounds on the events of the outside world

\* Failures of a transaction (an error, a timeout, a crash), answers that are
\* lost, windows loaded again, and logouts.
Bounded == {"fault", "loss", "reload", "logout"}

Accounts == {Account[w] : w \in Windows}

ASSUME FirstRunAssumption ==
    /\ None \notin Accounts
    /\ Limits \subseteq [Bounded -> Nat]

VARIABLES
    administrator, \* of bootstrap_state, as committed, with its initializedAt
    setup,         \* the transactions of setup that have not ended
    page,          \* what each window shows
    call,          \* the request each window awaits
    stored,        \* the refresh token in each browser's localStorage
    left           \* what is left of the bounds

vars == <<administrator, setup, page, call, stored, left>>

Spend(event) == left[event] > 0 /\ left' = [left EXCEPT ![event] = @ - 1]

Pages == {"loading", "unavailable", "assistant", "login", "panel"}
Calls == {"status", "refresh", "setup", "recover", "login", "session", "logout"}
Answers == {"awaited", "yes", "no", "already"}
NoCall == [to |-> "nobody", answer |-> "awaited"]

Call(w, to) == call' = [call EXCEPT ![w] = [to |-> to, answer |-> "awaited"]]
Idle(w) == call[w] = NoCall

Initialized == administrator # None

\* recoverSession, and login when it finds the organization.
IsAdministrator(w) == administrator = Account[w]

-----------------------------------------------------------------------------
(* The transaction of setup *)

Running(i) == setup[i] # None
Claimed(i) == Running(i) /\ setup[i].claimed

\* A claim that only reads the row.
RowLockedNever == FALSE

\* updateMany on the one row of bootstrap_state: a second transaction waits
\* until the first has ended, and sees what it has committed.
RowLocked == \E j \in Attempts : Claimed(j)

\* The transaction has ended; its window hears of it if it still listens.
Ends(i, answer) ==
    /\ setup' = [setup EXCEPT ![i] = None]
    /\ call' = IF setup[i].heard
               THEN [call EXCEPT ![setup[i].window].answer = answer]
               ELSE call

\* A claim that does not wait for the end of another.
ClaimAtOnce(i) ==
    /\ Running(i) /\ ~Claimed(i)
    /\ IF Initialized \/ RowLocked
       THEN Ends(i, "already")
       ELSE setup' = [setup EXCEPT ![i].claimed = TRUE] /\ UNCHANGED call
    /\ UNCHANGED <<administrator, page, stored, left>>

Claim(i) ==
    /\ Running(i) /\ ~Claimed(i) /\ ~RowLocked
    /\ IF Initialized
       THEN Ends(i, "already")
       ELSE setup' = [setup EXCEPT ![i].claimed = TRUE] /\ UNCHANGED call
    /\ UNCHANGED <<administrator, page, stored, left>>

\* The organization, its settings, the administrator and the session are
\* written by the one commit.
Commit(i) ==
    /\ Claimed(i)
    /\ administrator' = Account[setup[i].window]
    /\ Ends(i, "yes")
    /\ UNCHANGED <<page, stored, left>>

\* Nothing that the transaction wrote is kept, the claim included.
Rollback(i) ==
    /\ Running(i)
    /\ Spend("fault")
    /\ Ends(i, "no")
    /\ UNCHANGED <<administrator, page, stored>>

-----------------------------------------------------------------------------
(* The other requests *)

\* login answers 401 too when the slug is not the organization's.
AnswersTo(w) ==
    CASE call[w].to = "status" -> {IF Initialized THEN "yes" ELSE "no"}
      [] call[w].to = "refresh" -> {IF stored[w] = "valid" THEN "yes" ELSE "no"}
      [] call[w].to \in {"recover", "session"} ->
             {IF IsAdministrator(w) THEN "yes" ELSE "no"}
      [] call[w].to = "login" -> {"no"} \cup (IF IsAdministrator(w) THEN {"yes"} ELSE {})
      [] OTHER -> {"yes"}

\* A refresh and a logout revoke the token that the browser has stored.
Serve(w) ==
    /\ call[w].to \in Calls \ {"setup"} /\ call[w].answer = "awaited"
    /\ \E answer \in AnswersTo(w) : call' = [call EXCEPT ![w].answer = answer]
    /\ stored' = [stored EXCEPT ![w] =
           IF call[w].to \in {"refresh", "logout"} /\ @ = "valid" THEN "revoked" ELSE @]
    /\ UNCHANGED <<administrator, setup, page, left>>

-----------------------------------------------------------------------------
(* A window hears the answer *)

Answered(w, to, answer) == call[w] = [to |-> to, answer |-> answer]

Show(w, p) == page' = [page EXCEPT ![w] = p] /\ call' = [call EXCEPT ![w] = NoCall]

Forget(w) == stored' = [stored EXCEPT ![w] = "none"]

\* restore() follows the status.
StatusHeard(w) ==
    \/ Answered(w, "status", "no") /\ Show(w, "assistant") /\ UNCHANGED stored
    \/ /\ Answered(w, "status", "yes")
       /\ IF stored[w] = "none"
          THEN Show(w, "login")
          ELSE Call(w, "refresh") /\ UNCHANGED page
       /\ UNCHANGED stored

\* acceptSession.
SessionHeard(w) ==
    /\ \E to \in {"refresh", "setup", "recover", "login", "session"} : Answered(w, to, "yes")
    /\ Show(w, "panel")
    /\ stored' = [stored EXCEPT ![w] = "valid"]

\* A login whose refusal is final.
RefusedForGood(w) ==
    \/ Answered(w, "refresh", "no") /\ Show(w, "login") /\ Forget(w)
    \/ Answered(w, "setup", "no") /\ Show(w, "assistant") /\ UNCHANGED stored
    \/ /\ Answered(w, "setup", "already")
       /\ Call(w, "recover") /\ UNCHANGED <<page, stored>>
    \/ \E to \in {"recover", "login", "session"} :
           Answered(w, to, "no") /\ Show(w, "login") /\ UNCHANGED stored

\* A refused login is tried again as the initial administrator's.
Refused(w) ==
    \/ Answered(w, "refresh", "no") /\ Show(w, "login") /\ Forget(w)
    \/ Answered(w, "setup", "no") /\ Show(w, "assistant") /\ UNCHANGED stored
    \/ /\ Answered(w, "setup", "already")
       /\ Call(w, "recover") /\ UNCHANGED <<page, stored>>
    \/ Answered(w, "recover", "no") /\ Show(w, "login") /\ UNCHANGED stored
    \/ Answered(w, "login", "no") /\ Call(w, "session") /\ UNCHANGED <<page, stored>>
    \/ Answered(w, "session", "no") /\ Show(w, "login") /\ UNCHANGED stored

LogoutHeard(w) ==
    Answered(w, "logout", "yes") /\ Show(w, "login") /\ Forget(w)

Hear(w) ==
    /\ StatusHeard(w) \/ SessionHeard(w) \/ Refused(w) \/ LogoutHeard(w)
    /\ UNCHANGED <<administrator, setup, left>>

-----------------------------------------------------------------------------
(* A request is lost, or its answer *)

\* The transactions of the window go on unheard.
Unheard(w) ==
    setup' = [i \in Attempts |->
        IF Running(i) /\ setup[i].window = w THEN [setup[i] EXCEPT !.heard = FALSE]
                                             ELSE setup[i]]

\* What each request's catch and finally leave.
Lost(w) ==
    /\ call[w].to \in Calls
    /\ Spend("loss")
    /\ Show(w, CASE call[w].to = "status" -> "unavailable"
                 [] call[w].to = "setup" -> "assistant"
                 [] OTHER -> "login")
    /\ stored' = [stored EXCEPT ![w] =
           IF call[w].to \in {"refresh", "logout"} THEN "none" ELSE @]
    /\ Unheard(w)
    /\ UNCHANGED administrator

Load(w) ==
    /\ page' = [page EXCEPT ![w] = "loading"]
    /\ Call(w, "status")
    /\ Unheard(w)
    /\ UNCHANGED administrator

\* A refresh or a logout that is abandoned has been served, or never is.
Reload(w) ==
    /\ Spend("reload")
    /\ Load(w)
    /\ \/ UNCHANGED stored
       \/ /\ call[w].to \in {"refresh", "logout"}
          /\ stored' = [stored EXCEPT ![w] = "revoked"]

-----------------------------------------------------------------------------
(* Somebody presses a button *)

TryAgain(w) == page[w] = "unavailable" /\ Load(w) /\ UNCHANGED <<stored, left>>

\* Transactions are told apart, but not by anything in the code.
Unused == {i \in Attempts : ~Running(i)}

Submit(w) ==
    /\ page[w] = "assistant" /\ Idle(w)
    /\ Unused # {}
    /\ setup' = [setup EXCEPT ![CHOOSE i \in Unused : TRUE] =
                     [window |-> w, heard |-> TRUE, claimed |-> FALSE]]
    /\ Call(w, "setup")
    /\ UNCHANGED <<administrator, page, stored, left>>

LogIn(w) ==
    /\ page[w] = "login" /\ Idle(w)
    /\ Call(w, "login")
    /\ UNCHANGED <<administrator, setup, page, stored, left>>

LogOut(w) ==
    /\ page[w] = "panel" /\ Idle(w)
    /\ Spend("logout")
    /\ Call(w, "logout")
    /\ UNCHANGED <<administrator, setup, page, stored>>

-----------------------------------------------------------------------------

\* An empty database and windows that are being opened.
Init ==
    /\ administrator = None
    /\ setup = [i \in Attempts |-> None]
    /\ page = [w \in Windows |-> "loading"]
    /\ call = [w \in Windows |-> [to |-> "status", answer |-> "awaited"]]
    /\ stored = [w \in Windows |-> "none"]
    /\ left \in Limits

Window(w) ==
    \/ Serve(w) \/ Hear(w) \/ Lost(w) \/ Reload(w)
    \/ TryAgain(w) \/ Submit(w) \/ LogIn(w) \/ LogOut(w)

Transaction(i) == Claim(i) \/ Commit(i) \/ Rollback(i)

Next == (\E w \in Windows : Window(w)) \/ (\E i \in Attempts : Transaction(i))

Spec == Init /\ [][Next]_vars

\* Requests are served and answers heard, transactions end, and whoever is in
\* front of a window presses the button it shows.
FairSpec ==
    /\ Spec
    /\ \A w \in Windows : WF_vars(Serve(w)) /\ WF_vars(Hear(w))
    /\ \A w \in Windows : WF_vars(TryAgain(w) \/ Submit(w) \/ LogIn(w))
    /\ \A i \in Attempts : WF_vars(Claim(i)) /\ WF_vars(Commit(i))

-----------------------------------------------------------------------------
(* Properties *)

Attempt == [window : Windows, heard : BOOLEAN, claimed : BOOLEAN]

TypeOK ==
    /\ administrator \in Accounts \cup {None}
    /\ setup \in [Attempts -> Attempt \cup {None}]
    /\ page \in [Windows -> Pages]
    /\ call \in [Windows -> [to : Calls \cup {"nobody"}, answer : Answers]]
    /\ stored \in [Windows -> {"none", "valid", "revoked"}]
    /\ left \in [Bounded -> Nat]

\* An installation is set up once: whatever two assistants submit at the same
\* time, or submit again because an answer was lost, the administrator that
\* was created stays the administrator.
SetUpOnce == [][administrator # None => administrator' = administrator]_vars

\* Nobody is sent to the login page of an installation that has no
\* administrator: "already set up" is only answered, and the assistant only
\* given up, when another setup was kept.
LoginHasAccount == (\E w \in Windows : page[w] = "login") => Initialized

\* Everybody gets where they belong: the installation is set up, its
\* administrator arrives at the panel in every window, even when the answer to
\* the setup was lost, and everybody else is left at the login page.
EveryoneArrives ==
    <>[](/\ Initialized
         /\ \A w \in Windows : page[w] = IF IsAdministrator(w) THEN "panel" ELSE "login")
====
