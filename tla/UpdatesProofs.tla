---- MODULE UpdatesProofs ----
(***************************************************************************)
(* Whatever happens to state.json on the way, and whether the feed goes on *)
(* or back, a rollback installs a version that has been healthy; and       *)
(* closing the application in an attendance installs nothing.              *)
(*                                                                         *)
(* The jobs overwrite each other's updates of state.json.  What survives   *)
(* is a fact about each single state, whoever wrote it and when (Good): it *)
(* is true of the file, of the states under way and of a temporary file    *)
(* that somebody is about to rename.                                       *)
(***************************************************************************)
EXTENDS Updates, TLAPS

Maybe == Versions \cup {None}

States ==
    [current : Maybe, candidate : Maybe, pending : Maybe, attempts : 0 .. 3]

JobRecords ==
    [stage : {"reading", "writing", "renaming", "renamed"},
     version : Maybe, state : States]

Memories ==
    [phase : {"idle", "checking", "available", "up-to-date", "error",
              "downloading", "downloaded", "deferred"},
     version : Maybe, attending : BOOLEAN, waiting : BOOLEAN, due : BOOLEAN,
     auto : BOOLEAN, checking : BOOLEAN, fetch : Maybe, fetched : Maybe,
     watch : {"off", "armed", "fired"}, rescue : BOOLEAN,
     job : [Jobs -> JobRecords \cup {None}]]

Typed ==
    /\ feed \in Versions /\ installed \in Versions /\ up \in BOOLEAN
    /\ disk \in States /\ temp \in States \cup {None}
    /\ settings \in Settings /\ app \in Memories
    /\ healthy \subseteq Versions /\ left \in [Bounded -> Nat]

\* The version to go back to has been healthy.
Good(state) == state.current # None => state.current \in healthy

\* A job: what it wants to write is good, and so is the file it would rename.
Careful(j) ==
    app.job[j] # None =>
        /\ app.job[j].stage = "writing" => Good(app.job[j].state)
        /\ app.job[j].stage = "renaming" => temp = None \/ Good(temp)
        /\ IF j = "heal"
           THEN app.job[j].version = installed /\ installed \in healthy
           ELSE app.fetched # None

\* The memory of the program: nothing without a process, and an installer for
\* what is ready.
Sensible ==
    /\ ~up => app = Fresh("off", FALSE)
    /\ Ready => app.fetched # None

UpdatesInv ==
    /\ Typed
    /\ Good(disk)
    /\ \A j \in Jobs : Careful(j)
    /\ Sensible
    /\ QuitSparesAttendance

-----------------------------------------------------------------------------
(* Types *)

\* A new process knows nothing.
LEMMA FreshLemma ==
    ASSUME NEW watch \in {"off", "armed"}, NEW auto \in BOOLEAN
    PROVE  Fresh(watch, auto) \in Memories
BY DEF Fresh, Memories, Maybe

\* The record of a memory is changed field by field.
LEMMA FieldLemma ==
    ASSUME NEW a \in Memories
    PROVE  /\ \A x \in {"idle", "checking", "available", "up-to-date", "error",
                        "downloading", "downloaded", "deferred"} :
                 [a EXCEPT !.phase = x] \in Memories
           /\ \A x \in BOOLEAN :
                 /\ [a EXCEPT !.attending = x] \in Memories
                 /\ [a EXCEPT !.waiting = x] \in Memories
                 /\ [a EXCEPT !.due = x] \in Memories
                 /\ [a EXCEPT !.auto = x] \in Memories
                 /\ [a EXCEPT !.checking = x] \in Memories
                 /\ [a EXCEPT !.rescue = x] \in Memories
           /\ \A x \in Maybe :
                 /\ [a EXCEPT !.version = x] \in Memories
                 /\ [a EXCEPT !.fetch = x] \in Memories
                 /\ [a EXCEPT !.fetched = x] \in Memories
           /\ \A x \in {"off", "armed", "fired"} : [a EXCEPT !.watch = x] \in Memories
           /\ \A j \in Jobs, x \in JobRecords \cup {None} :
                 [a EXCEPT !.job[j] = x] \in Memories
BY DEF Memories

\* What a bound leaves is a natural number.
LEMMA SpendLemma ==
    ASSUME Typed, NEW event \in Bounded, Spend(event)
    PROVE  left' \in [Bounded -> Nat]
<1>1. left[event] \in Nat /\ left[event] > 0
  BY DEF Typed, Spend
<1>2. left[event] - 1 \in Nat
  BY <1>1
<1> QED BY <1>2 DEF Typed, Spend

\* The invariant holds at the start.
LEMMA InitLemma ==
    ASSUME Init
    PROVE  UpdatesInv
<1>1. Fresh("off", FALSE) \in Memories
  BY FreshLemma
<1>2. Typed
  <2>1. NoRollback \in States
    BY DEF NoRollback, States, Maybe
  <2>2. left \in [Bounded -> Nat]
    BY UpdatesAssumption DEF Init
  <2> QED BY <1>1, <2>1, <2>2 DEF Init, Typed
<1>3. Good(disk) /\ \A j \in Jobs : Careful(j)
  BY DEF Init, Good, Careful, NoRollback, Fresh
<1> QED BY <1>2, <1>3 DEF Init, UpdatesInv, Sensible, Ready, Fresh, QuitSparesAttendance

-----------------------------------------------------------------------------
(* Steps of the program that leave its jobs and state.json alone *)

\* The program goes on without touching jobs, installers or what is installed.
LEMMA SteadyLemma ==
    ASSUME UpdatesInv, Stays, app' \in Memories, settings' \in Settings,
           left' \in [Bounded -> Nat], up,
           app'.job = app.job, app'.fetched = app.fetched,
           Ready' => Ready,
           app'.attending => ~app'.auto
    PROVE  UpdatesInv'
<1>1. Typed'
  BY DEF UpdatesInv, Typed, Stays
<1>2. Good(disk)' /\ \A j \in Jobs : Careful(j)'
  BY DEF UpdatesInv, Stays, Good, Careful
<1>3. Sensible'
  BY DEF UpdatesInv, Stays, Sensible
<1> QED BY <1>1, <1>2, <1>3 DEF UpdatesInv, QuitSparesAttendance

\* The settings and the attendances change what may be done, not what is known.
LEMMA SettingsLemma ==
    ASSUME UpdatesInv, SaveSettings \/ BeginAttendance \/ EndAttendance
    PROVE  UpdatesInv'
<1>0. app \in Memories /\ Typed /\ up /\ Stays /\ settings \in Settings
  BY DEF UpdatesInv, Typed, SaveSettings, BeginAttendance, EndAttendance
<1>1. CASE SaveSettings
  <2>1. left' \in [Bounded -> Nat]
    BY <1>0, <1>1, SpendLemma DEF SaveSettings, Bounded
  <2>2. settings'.onQuit \in BOOLEAN /\ app.attending \in BOOLEAN
    BY <1>0, <1>1 DEF SaveSettings, Settings, Memories
  <2>3. app' \in Memories
    BY <1>0, <1>1, <2>2, FieldLemma DEF SaveSettings
  <2>4. /\ app'.job = app.job /\ app'.fetched = app.fetched
        /\ app'.version = app.version /\ app'.fetch = app.fetch
        /\ app'.phase = app.phase
        /\ app'.attending = app.attending
        /\ app'.auto = (settings'.onQuit /\ ~app.attending)
    BY <1>0, <1>1 DEF SaveSettings, Memories
  <2> QED BY <1>0, <1>1, <2>1, <2>3, <2>4, SteadyLemma
          DEF SaveSettings, UpdatesInv, Sensible, Ready, Stays
<1>2. CASE BeginAttendance
  <2>1. left' \in [Bounded -> Nat]
    BY <1>0, <1>2, SpendLemma DEF BeginAttendance, Bounded
  <2> DEFINE a == [app EXCEPT !.attending = TRUE, !.auto = FALSE]
  <2>2. a \in Memories
    <3>1. [app EXCEPT !.attending = TRUE] \in Memories
      BY <1>0, FieldLemma
    <3> QED BY <3>1, FieldLemma
  <2>3. app' \in {a, [a EXCEPT !.waiting = TRUE, !.phase = "deferred"]}
    BY <1>2 DEF BeginAttendance
  <2>4. app' \in Memories
    <3> HIDE DEF a
    <3>1. [a EXCEPT !.waiting = TRUE] \in Memories
      BY <2>2, FieldLemma
    <3> QED BY <2>2, <2>3, <3>1, FieldLemma
  <2>5. /\ app'.job = app.job /\ app'.fetched = app.fetched
        /\ app'.version = app.version /\ app'.fetch = app.fetch
        /\ ~app'.auto
        /\ app'.phase = app.phase \/ app.phase = "downloaded"
    BY <1>0, <1>2 DEF BeginAttendance, Memories
  <2> QED BY <1>0, <1>2, <2>1, <2>4, <2>5, SteadyLemma
          DEF BeginAttendance, UpdatesInv, Sensible, Ready, Stays
<1>3. CASE EndAttendance
  <2>1. left' \in [Bounded -> Nat] /\ settings.onQuit \in BOOLEAN
    BY <1>0, <1>3 DEF EndAttendance, Typed, Settings
  <2> DEFINE a == [app EXCEPT !.attending = FALSE, !.auto = settings.onQuit]
  <2>2. a \in Memories
    BY <1>0, <2>1 DEF Memories
  <2>3. app' \in {a, [a EXCEPT !.waiting = FALSE, !.due = TRUE]}
    BY <1>3 DEF EndAttendance
  <2>4. app' \in Memories
    BY <2>2, <2>3 DEF Memories
  <2>5. /\ app'.job = app.job /\ app'.fetched = app.fetched
        /\ app'.version = app.version /\ app'.fetch = app.fetch
        /\ ~app'.attending
        /\ app'.phase = app.phase
    BY <1>0, <1>3 DEF EndAttendance, Memories
  <2> QED BY <1>0, <1>3, <2>1, <2>4, <2>5, SteadyLemma
          DEF EndAttendance, UpdatesInv, Sensible, Ready, Stays
<1> QED BY <1>1, <1>2, <1>3

\* What happens before there is an installer: checks and downloads.
Browsing == Check \/ CheckAnswered \/ ClickDownload \/ Progress

\* A download begins, or fails; it changes the phase and what is fetched.
LEMMA DownloadingLemma ==
    ASSUME NEW a \in Memories
    PROVE  /\ Downloading(a) \in Memories
           /\ Downloading(a).job = a.job /\ Downloading(a).fetched = a.fetched
           /\ Downloading(a).attending = a.attending /\ Downloading(a).auto = a.auto
           /\ Downloading(a).phase \in {a.phase, "downloading", "error"}
<1>1. a.version \in Maybe /\ a.fetch \in Maybe
  BY DEF Memories
<1>2. PICK v \in Maybe : Downloading(a) \in {a, [a EXCEPT !.phase = "error"],
                                        [a EXCEPT !.phase = "downloading", !.fetch = v]}
  <2>1. CASE ~(a.fetch = None /\ a.version = None) /\ a.phase \in {"available", "error"}
    <3> DEFINE v == IF a.fetch = None THEN a.version ELSE a.fetch
    <3>1. Downloading(a) = [a EXCEPT !.phase = "downloading", !.fetch = v]
      BY <2>1 DEF Downloading, Memories
    <3> QED BY <1>1, <3>1
  <2> QED BY <1>1, <2>1 DEF Downloading
<1>3. CASE Downloading(a) = [a EXCEPT !.phase = "downloading", !.fetch = v]
  <2>1. [a EXCEPT !.phase = "downloading"] \in Memories
    BY FieldLemma
  <2>2. Downloading(a) \in Memories
    BY <1>3, <2>1, FieldLemma
  <2> QED BY <1>3, <2>2 DEF Memories
<1>4. CASE Downloading(a) = [a EXCEPT !.phase = "error"]
  <2>1. Downloading(a) \in Memories
    BY <1>4, FieldLemma
  <2> QED BY <1>4, <2>1 DEF Memories
<1> QED BY <1>2, <1>3, <1>4

\* None of them touches an installer.
LEMMA BrowsingLemma ==
    ASSUME UpdatesInv, Browsing
    PROVE  UpdatesInv'
<1>0. app \in Memories /\ Typed /\ Stays /\ settings' \in Settings
  BY DEF UpdatesInv, Typed, Browsing, Check, CheckAnswered, ClickDownload, Progress
<1>1. up
  BY DEF UpdatesInv, Sensible, Fresh, Browsing, Check, CheckAnswered, ClickDownload, Progress
<1>2. left' \in [Bounded -> Nat]
  <2>1. \/ UNCHANGED left \/ Spend("check") \/ Spend("fault")
    BY DEF Browsing, Check, CheckAnswered, ClickDownload, Progress
  <2> QED BY <1>0, <2>1, SpendLemma DEF Bounded, Typed
<1> DEFINE Mild(a) ==
             /\ a \in Memories
             /\ a.job = app.job /\ a.fetched = app.fetched
             /\ a.phase \in {"downloaded", "deferred"} => a.phase = app.phase
             /\ a.attending = app.attending /\ a.auto = app.auto
<1>3. Mild(app') => UpdatesInv'
  <2> SUFFICES ASSUME Mild(app') PROVE UpdatesInv'
    OBVIOUS
  <2>1. Ready' => Ready
    BY DEF Ready
  <2>2. app'.attending => ~app'.auto
    BY DEF UpdatesInv, QuitSparesAttendance
  <2> QED BY <1>0, <1>1, <1>2, <2>1, <2>2, SteadyLemma
<1>4. ASSUME NEW a, Mild(a) PROVE Mild(Downloading(a))
  BY <1>4, DownloadingLemma
<1>5. CASE Check
  <2>1. app' \in Memories
    BY <1>0, <1>5 DEF Check, Memories
  <2> QED BY <1>0, <1>3, <1>5, <2>1 DEF Check, Memories
<1>6. CASE CheckAnswered
  <2> DEFINE a     == [app EXCEPT !.checking = FALSE]
             found == [a EXCEPT !.phase = "available", !.version = feed]
  <2>1. Mild(found)
    <3>1. feed \in Maybe
      BY <1>0 DEF Typed, Maybe
    <3>2. found \in Memories
      BY <1>0, <3>1 DEF Memories
    <3> QED BY <1>0, <3>2 DEF Memories
  <2>2. CASE app' \in {found, Downloading(found)}
    <3> HIDE DEF found
    <3> QED BY <1>3, <1>4, <2>1, <2>2
  <2>3. CASE app' \in {[a EXCEPT !.phase = "up-to-date"], [a EXCEPT !.phase = "error"]}
    <3>1. app' \in Memories
      BY <1>0, <2>3 DEF Memories
    <3> QED BY <1>0, <1>3, <2>3, <3>1 DEF Memories
  <2> QED BY <1>6, <2>2, <2>3 DEF CheckAnswered
<1>7. CASE ClickDownload
  <2>1. Mild(app)
    BY <1>0
  <2> QED BY <1>3, <1>4, <1>7, <2>1 DEF ClickDownload
<1>8. CASE Progress
  <2>1. app' \in Memories
    BY <1>0, <1>8 DEF Progress, Memories
  <2> QED BY <1>0, <1>3, <1>8, <2>1 DEF Progress, Memories
<1> QED BY <1>5, <1>6, <1>7, <1>8 DEF Browsing

-----------------------------------------------------------------------------
(* The process begins and ends *)

\* Without a process there are no jobs, and state.json is what it was.
LEMMA EndsLemma ==
    ASSUME UpdatesInv, NEW versions, Ends(versions), versions \subseteq Versions
    PROVE  UpdatesInv'
<1>1. installed' \in Versions
  BY DEF Ends
<1>2. Typed'
  BY <1>1, FreshLemma DEF UpdatesInv, Typed, Ends
<1>3. Good(disk)'
  BY <1>1 DEF UpdatesInv, Good, Ends
<1>4. \A j \in Jobs : app'.job[j] = None
  BY DEF Ends, Fresh
<1> QED BY <1>2, <1>3, <1>4
        DEF UpdatesInv, Careful, Sensible, Ends, Fresh, Ready, QuitSparesAttendance

\* What is installed, has been fetched or is preserved is a version.
LEMMA InstallersLemma ==
    ASSUME UpdatesInv
    PROVE  /\ installed \in Versions
           /\ disk.current # None => disk.current \in Versions
           /\ app.fetched # None => app.fetched \in Versions
<1>1. installed \in Versions /\ disk.current \in Maybe /\ app.fetched \in Maybe
  BY DEF UpdatesInv, Typed, States, Memories
<1> QED BY <1>1 DEF Maybe

\* Closing the application, or installing, ends the process and its jobs.
LEMMA QuitLemma ==
    ASSUME UpdatesInv, Quit \/ InstallNow \/ Rescue
    PROVE  UpdatesInv'
<1>1. CASE Quit
  <2>1. OnQuit \subseteq {installed, app.fetched} /\ (app.fetched = None => OnQuit = {installed})
    BY DEF OnQuit
  <2> QED BY <1>1, <2>1, InstallersLemma, EndsLemma DEF Quit
<1>2. CASE InstallNow
  <2>1. app.fetched # None
    BY <1>2 DEF InstallNow, At, UpdatesInv, Careful, Jobs
  <2> QED BY <1>2, <2>1, InstallersLemma, EndsLemma DEF InstallNow
<1>3. CASE Rescue
  <2>1. CASE disk.current # None /\ Ends({disk.current} \cup (OnQuit \ {installed}))
    <3>1. OnQuit \ {installed} \subseteq {app.fetched}
          /\ (app.fetched = None => OnQuit \ {installed} = {})
      BY DEF OnQuit
    <3> DEFINE versions == {disk.current} \cup (OnQuit \ {installed})
    <3>2. versions \subseteq Versions
      BY <2>1, <3>1, InstallersLemma
    <3>3. Ends(versions)
      BY <2>1
    <3> HIDE DEF versions
    <3> QED BY <3>2, <3>3, EndsLemma
  <2>2. CASE /\ app' = [app EXCEPT !.rescue = FALSE]
             /\ Stays /\ UNCHANGED <<settings, left>>
    <3>1. app \in Memories /\ Typed
      BY DEF UpdatesInv, Typed
    <3>2. app' \in Memories
      BY <2>2, <3>1, FieldLemma
    <3>3. up
      BY <1>3 DEF Rescue, UpdatesInv, Sensible, Fresh
    <3> QED BY <2>2, <3>1, <3>2, <3>3, SteadyLemma
            DEF Memories, UpdatesInv, Typed, Sensible, Ready, QuitSparesAttendance, Stays
  <2> QED BY <1>3, <2>1, <2>2 DEF Rescue
<1> QED BY <1>1, <1>2, <1>3

\* A start counts itself in state.json, and may go back.
LEMMA LaunchLemma ==
    ASSUME UpdatesInv, Launch
    PROVE  UpdatesInv'
<1> DEFINE watched == disk.pending = installed
           tries   == IF disk.attempts < 3 THEN disk.attempts + 1 ELSE 3
<1>1. /\ disk \in States /\ installed \in Versions /\ settings.onQuit \in BOOLEAN
      /\ Good(disk) /\ ~up
  BY DEF UpdatesInv, Typed, Launch, Settings
<1>2. tries \in 0 .. 3
  <2>1. disk.attempts \in 0 .. 3
    BY <1>1 DEF States
  <2> QED BY <2>1
<1>3. /\ disk' \in States /\ disk'.current = disk.current /\ disk'.pending = disk.pending
  <2>1. disk' \in {disk, [disk EXCEPT !.attempts = tries]}
    BY DEF Launch
  <2> HIDE DEF tries
  <2> QED BY <1>1, <1>2, <2>1 DEF States
<1>4. UNCHANGED <<feed, temp, settings, healthy, left>>
  BY DEF Launch
<1>5. CASE installed' = disk.current /\ disk.current # None /\ UNCHANGED <<up, app>>
  <2>1. installed' \in Versions
    BY <1>1, <1>5 DEF States, Maybe
  <2>2. app = Fresh("off", FALSE)
    BY <1>1 DEF UpdatesInv, Sensible
  <2>3. Typed'
    BY <1>3, <1>4, <1>5, <2>1 DEF UpdatesInv, Typed
  <2>4. Good(disk)'
    BY <1>1, <1>3, <1>4, <1>5, <2>1 DEF Good
  <2> QED BY <1>5, <2>2, <2>3, <2>4
          DEF UpdatesInv, Careful, Sensible, Fresh, Ready, QuitSparesAttendance
<1>6. CASE /\ up' = TRUE /\ installed' = installed
           /\ app' = Fresh(IF watched THEN "armed" ELSE "off", settings.onQuit)
  <2>1. app' \in Memories
    BY <1>1, <1>6, FreshLemma
  <2>2. Typed'
    BY <1>3, <1>4, <1>6, <2>1 DEF UpdatesInv, Typed
  <2>3. Good(disk)'
    BY <1>1, <1>3, <1>4, <1>6 DEF Good
  <2> QED BY <1>6, <2>2, <2>3
          DEF UpdatesInv, Careful, Sensible, Fresh, Ready, QuitSparesAttendance
<1> QED BY <1>5, <1>6 DEF Launch

\* What the feed offers changes nothing here.
LEMMA PublishLemma ==
    ASSUME UpdatesInv, Publish
    PROVE  UpdatesInv'
<1>1. feed' \in Versions /\ left' \in [Bounded -> Nat]
  <2>1. Typed
    BY DEF UpdatesInv
  <2> QED BY <2>1, SpendLemma DEF Publish, Bounded
<1>2. Typed'
  BY <1>1 DEF UpdatesInv, Typed, Publish
<1>3. Good(disk)' /\ \A j \in Jobs : Careful(j)'
  BY DEF UpdatesInv, Good, Careful, Publish
<1> QED BY <1>2, <1>3
        DEF UpdatesInv, Sensible, Ready, QuitSparesAttendance, Publish

-----------------------------------------------------------------------------
(* Jobs begin *)

\* A new job: it has read nothing yet.
LEMMA JobLemma ==
    ASSUME NEW version \in Maybe
    PROVE  Job(version) \in JobRecords /\ Job(version).stage = "reading"
           /\ Job(version).version = version
BY DEF Job, JobRecords, NoRollback, States, Maybe

\* A job of another kind begins: the jobs under way are as careful as before.
LEMMA BeginLemma ==
    ASSUME UpdatesInv, NEW j \in Jobs, NEW job \in JobRecords, job.stage = "reading",
           UNCHANGED <<feed, installed, up, disk, temp, settings>>, up,
           healthy' \in SUBSET Versions, healthy \subseteq healthy',
           app' \in Memories, left' \in [Bounded -> Nat],
           app'.job = [app.job EXCEPT ![j] = job],
           app.fetched # None => app'.fetched # None,
           IF j = "heal" THEN job.version = installed /\ installed \in healthy'
           ELSE app'.fetched # None,
           Ready' => app'.fetched # None,
           app'.attending => ~app'.auto
    PROVE  UpdatesInv'
<1>1. Typed'
  BY DEF UpdatesInv, Typed
<1>2. Good(disk)'
  BY DEF UpdatesInv, Good
<1>3. ASSUME NEW k \in Jobs PROVE Careful(k)'
  <2>1. app.job \in [Jobs -> JobRecords \cup {None}]
    BY DEF UpdatesInv, Typed, Memories
  <2>2. CASE k = j
    <3>1. app'.job[k] = job
      BY <2>1, <2>2
    <3> QED BY <2>2, <3>1 DEF Careful
  <2>3. CASE k # j
    <3>1. app'.job[k] = app.job[k] /\ Careful(k)
      BY <2>1, <2>3 DEF UpdatesInv
    <3> QED BY <3>1 DEF Careful, Good
  <2> QED BY <2>2, <2>3
<1>4. Sensible'
  BY DEF Sensible
<1> QED BY <1>1, <1>2, <1>3, <1>4 DEF UpdatesInv, QuitSparesAttendance

\* An installation that is asked for or due waits for the end of the attendance,
\* or begins with its mark.
LEMMA InstallingLemma ==
    ASSUME UpdatesInv, ClickInstall \/ DueInstall
    PROVE  UpdatesInv'
<1>0. app \in Memories /\ Typed /\ Stays /\ UNCHANGED <<settings, left>>
  BY DEF UpdatesInv, Typed, ClickInstall, DueInstall
<1>1. up
  BY DEF UpdatesInv, Sensible, Fresh, ClickInstall, DueInstall
<1>2. PICK a \in {app, [app EXCEPT !.due = FALSE]} : app' = Installing(a)
  BY DEF ClickInstall, DueInstall
<1>3. /\ a \in Memories
      /\ a.job = app.job /\ a.fetched = app.fetched /\ a.fetch = app.fetch
      /\ a.version = app.version /\ a.phase = app.phase
      /\ a.attending = app.attending /\ a.auto = app.auto
  BY <1>0, <1>2 DEF Memories
<1>4. (Ready => app.fetched # None) /\ (app.attending => ~app.auto)
  BY DEF UpdatesInv, Sensible, QuitSparesAttendance
<1>5. CASE app' = a
  BY <1>0, <1>1, <1>3, <1>4, <1>5, SteadyLemma DEF Ready, Typed
<1>6. CASE Ready /\ app' = [a EXCEPT !.waiting = TRUE, !.phase = "deferred"]
  <2>1. [a EXCEPT !.waiting = TRUE] \in Memories
    BY <1>3, FieldLemma
  <2>2. app' \in Memories
    BY <1>6, <2>1, FieldLemma
  <2>3. /\ app'.job = a.job /\ app'.fetched = a.fetched /\ app'.fetch = a.fetch
        /\ app'.version = a.version /\ app'.attending = a.attending /\ app'.auto = a.auto
    BY <1>3, <1>6 DEF Memories
  <2> QED BY <1>0, <1>1, <1>3, <1>4, <1>6, <2>2, <2>3, SteadyLemma DEF Typed
<1>7. CASE Ready /\ app.job["mark"] = None /\ app' = [a EXCEPT !.job["mark"] = Job(a.version)]
  <2>1. a.version \in Maybe
    BY <1>3 DEF Memories
  <2>2. Job(a.version) \in JobRecords /\ Job(a.version).stage = "reading"
        /\ Job(a.version).version = a.version
    BY <2>1, JobLemma
  <2>3. app' \in Memories
    BY <1>3, <1>7, <2>2, FieldLemma DEF Jobs
  <2>4. /\ app'.job = [app.job EXCEPT !["mark"] = Job(a.version)]
        /\ app'.fetched = app.fetched /\ app'.fetch = app.fetch
        /\ app'.version = app.version /\ app'.phase = app.phase
        /\ app'.attending = app.attending /\ app'.auto = app.auto
    BY <1>3, <1>7 DEF Memories
  <2>5. /\ "mark" \in Jobs /\ "mark" # "heal"
        /\ healthy' \in SUBSET Versions /\ healthy \subseteq healthy'
        /\ left' \in [Bounded -> Nat]
    BY <1>0 DEF Jobs, Typed, Stays
  <2>6. app'.fetched # None /\ (app'.attending => ~app'.auto)
    BY <1>3, <1>4, <1>7, <2>4
  <2> QED BY <1>0, <1>1, <2>2, <2>3, <2>4, <2>5, <2>6, BeginLemma DEF Stays
<1> QED
  <2>1. CASE ~Ready
    BY <1>2, <1>5, <2>1 DEF Installing
  <2>2. CASE Ready /\ a.attending
    BY <1>2, <1>6, <2>2 DEF Installing
  <2>3. CASE Ready /\ ~a.attending /\ a.job["mark"] = None
    <3>1. app' = [a EXCEPT !.job["mark"] = Job(a.version)]
      BY <1>2, <1>3, <2>3 DEF Installing, Memories, Jobs
    <3> QED BY <1>3, <1>7, <2>3, <3>1
  <2>4. CASE Ready /\ ~a.attending /\ a.job["mark"] # None
    <3>1. app' = a
      BY <1>2, <1>3, <2>4 DEF Installing, Memories, Jobs
    <3> QED BY <1>5, <3>1
  <2> QED BY <2>1, <2>2, <2>3, <2>4

\* What a download brings is the version it was begun for.
LEMMA FetchEndsLemma ==
    ASSUME UpdatesInv, FetchEnds
    PROVE  UpdatesInv'
<1>0. app \in Memories /\ Typed /\ Stays /\ UNCHANGED settings
  BY DEF UpdatesInv, Typed, FetchEnds
<1>1. up /\ app.fetch # None
  BY DEF UpdatesInv, Sensible, Fresh, FetchEnds
<1>2. (Ready => app.fetched # None) /\ (app.attending => ~app.auto)
  BY DEF UpdatesInv, Sensible, QuitSparesAttendance
<1>3. app.fetch \in Maybe
  BY <1>0 DEF Memories
<1>4. CASE /\ app' = [app EXCEPT !.fetch = None, !.fetched = app.fetch,
                                  !.job["prepare"] = Job(app.fetch)]
           /\ UNCHANGED left
  <2>1. Job(app.fetch) \in JobRecords /\ Job(app.fetch).stage = "reading"
        /\ Job(app.fetch).version = app.fetch
    BY <1>3, JobLemma
  <2>2. app' \in Memories
    <3>1. [app EXCEPT !.fetch = None] \in Memories
      BY <1>0, FieldLemma DEF Maybe
    <3>2. [app EXCEPT !.fetch = None, !.fetched = app.fetch] \in Memories
      BY <1>3, <3>1, FieldLemma
    <3> QED BY <1>4, <2>1, <3>2, FieldLemma DEF Jobs
  <2>3. /\ app'.job = [app.job EXCEPT !["prepare"] = Job(app.fetch)]
        /\ app'.fetched = app.fetch /\ app'.fetch = None
        /\ app'.version = app.version
        /\ app'.attending = app.attending /\ app'.auto = app.auto
    BY <1>0, <1>4 DEF Memories
  <2>4. /\ "prepare" \in Jobs /\ "prepare" # "heal"
        /\ healthy' \in SUBSET Versions /\ healthy \subseteq healthy'
        /\ left' \in [Bounded -> Nat]
    BY <1>0, <1>4 DEF Jobs, Typed, Stays
  <2>5. app'.fetched # None /\ (app'.attending => ~app'.auto)
    BY <1>1, <1>2, <1>3, <2>3
  <2> QED BY <1>0, <1>1, <1>2, <2>1, <2>2, <2>3, <2>4, <2>5, BeginLemma DEF Stays
<1>5. CASE Spend("fault") /\ app' = [app EXCEPT !.fetch = None, !.phase = "error"]
  <2>1. [app EXCEPT !.fetch = None] \in Memories
    BY <1>0, FieldLemma DEF Maybe
  <2>2. app' \in Memories
    BY <1>5, <2>1, FieldLemma
  <2>3. /\ app'.job = app.job /\ app'.fetched = app.fetched /\ app'.fetch = None
        /\ app'.version = app.version /\ app'.phase = "error"
        /\ app'.attending = app.attending /\ app'.auto = app.auto
    BY <1>0, <1>5 DEF Memories
  <2>4. left' \in [Bounded -> Nat]
    BY <1>0, <1>5, SpendLemma DEF Bounded
  <2> QED BY <1>0, <1>1, <1>2, <2>2, <2>3, <2>4, SteadyLemma DEF Ready, Typed
<1> QED BY <1>4, <1>5 DEF FetchEnds

\* The health check is of the version that runs.
LEMMA HealthTimerLemma ==
    ASSUME UpdatesInv, HealthTimer
    PROVE  UpdatesInv'
<1>0. app \in Memories /\ Typed
  BY DEF UpdatesInv, Typed
<1>1. up /\ installed \in Versions
  BY DEF UpdatesInv, Sensible, Fresh, HealthTimer, Typed
<1>2. (Ready => app.fetched # None) /\ (app.attending => ~app.auto)
  BY DEF UpdatesInv, Sensible, QuitSparesAttendance
<1>3. Job(installed) \in JobRecords /\ Job(installed).stage = "reading"
      /\ Job(installed).version = installed
  BY <1>1, JobLemma DEF Maybe
<1>4. app' \in Memories
  <2>1. [app EXCEPT !.watch = "fired"] \in Memories
    BY <1>0, FieldLemma
  <2> QED BY <1>3, <2>1, FieldLemma DEF HealthTimer, Jobs
<1>5. /\ app'.job = [app.job EXCEPT !["heal"] = Job(installed)]
      /\ app'.fetched = app.fetched /\ app'.fetch = app.fetch
      /\ app'.version = app.version /\ app'.phase = app.phase
      /\ app'.attending = app.attending /\ app'.auto = app.auto
  BY <1>0 DEF HealthTimer, Memories
<1>6. /\ "heal" \in Jobs
      /\ healthy' \in SUBSET Versions /\ healthy \subseteq healthy' /\ installed \in healthy'
      /\ left' \in [Bounded -> Nat]
      /\ UNCHANGED <<feed, installed, up, disk, temp, settings>>
  BY <1>0, <1>1 DEF Jobs, Typed, HealthTimer
<1>7. (Ready' => app'.fetched # None) /\ (app'.attending => ~app'.auto)
  BY <1>2, <1>5 DEF Ready
<1> QED BY <1>1, <1>3, <1>4, <1>5, <1>6, <1>7, BeginLemma

\* A window that is gone changes nothing of the updates.
LEMMA RendererGoneLemma ==
    ASSUME UpdatesInv, RendererGone
    PROVE  UpdatesInv'
<1>1. app \in Memories /\ Typed
  BY DEF UpdatesInv, Typed
<1>2. app' \in Memories
  BY <1>1, FieldLemma DEF RendererGone
<1> QED BY <1>1, <1>2, SteadyLemma
        DEF RendererGone, Memories, Typed, UpdatesInv, Sensible, Ready, Stays,
            QuitSparesAttendance

-----------------------------------------------------------------------------
(* Jobs go on *)

\* One job goes on, and what it leaves of state.json and its temporary file is
\* good: the others are as careful as before.
LEMMA GoesOnLemma ==
    ASSUME UpdatesInv, NEW j \in Jobs,
           UNCHANGED <<feed, installed, up, settings, healthy>>, up,
           left' \in [Bounded -> Nat], app' \in Memories,
           disk' \in States, Good(disk'),
           temp' = temp \/ temp' = None \/ (temp' \in States /\ Good(temp')),
           \A k \in Jobs \ {j} : app'.job[k] = app.job[k],
           \/ app'.job[j] = None
           \/ /\ app.job[j] # None
              /\ app'.job[j].version = app.job[j].version
              /\ app'.job[j].stage = "writing" => Good(app'.job[j].state)
              /\ app'.job[j].stage = "renaming" => temp' = None \/ Good(temp'),
           app'.fetched = app.fetched, app'.fetch = app.fetch,
           Ready' => app'.fetched # None,
           app'.attending = app.attending, app'.auto = app.auto
    PROVE  UpdatesInv'
<1>1. Typed'
  BY DEF UpdatesInv, Typed
<1>2. Good(disk)'
  BY DEF Good
<1>3. ASSUME NEW k \in Jobs PROVE Careful(k)'
  <2>1. Careful(k) /\ Careful(j)
    BY DEF UpdatesInv
  <2>2. CASE k = j
    BY <2>1, <2>2 DEF Careful, Good
  <2>3. CASE k # j
    <3>1. app'.job[k] = app.job[k]
      BY <2>3
    <3> QED BY <2>1, <3>1 DEF Careful, Good
  <2> QED BY <2>2, <2>3
<1>4. Sensible' /\ QuitSparesAttendance'
  BY DEF UpdatesInv, Sensible, QuitSparesAttendance
<1> QED BY <1>1, <1>2, <1>3, <1>4 DEF UpdatesInv

\* A job that is over, done or failed, changes little else.
LEMMA OverLemma ==
    ASSUME UpdatesInv, NEW j \in Jobs, app.job[j] # None
    PROVE  /\ app \in Memories /\ app.job[j] \in JobRecords
           /\ \A a \in {Done(j), Failed(j)} :
                 /\ a \in Memories
                 /\ \A k \in Jobs \ {j} : a.job[k] = app.job[k]
                 /\ \/ a.job[j] = None
                    \/ a.job[j] = [app.job[j] EXCEPT !.stage = "renamed"]
                 /\ a.fetched = app.fetched /\ a.fetch = app.fetch
                 /\ a.phase \in {"downloaded", "deferred"} => app.fetched # None
                 /\ a.attending = app.attending /\ a.auto = app.auto
<1>1. app \in Memories /\ app.job \in [Jobs -> JobRecords \cup {None}]
  BY DEF UpdatesInv, Typed, Memories
<1>2. app.job[j] \in JobRecords
  BY <1>1
<1>3. (Ready => app.fetched # None) /\ Careful(j)
  BY DEF UpdatesInv, Sensible
<1> DEFINE freed == [app EXCEPT !.job[j] = None]
<1>4. /\ freed \in Memories
      /\ \A k \in Jobs \ {j} : freed.job[k] = app.job[k]
      /\ freed.job[j] = None
      /\ freed.fetched = app.fetched /\ freed.fetch = app.fetch
      /\ freed.version = app.version /\ freed.phase = app.phase
      /\ freed.attending = app.attending /\ freed.auto = app.auto
  <2>1. freed \in Memories
    BY <1>1, FieldLemma
  <2> QED BY <1>1, <2>1 DEF Memories
<1> DEFINE Fine(a) ==
             /\ a \in Memories
             /\ \A k \in Jobs \ {j} : a.job[k] = app.job[k]
             /\ \/ a.job[j] = None
                \/ a.job[j] = [app.job[j] EXCEPT !.stage = "renamed"]
             /\ a.fetched = app.fetched /\ a.fetch = app.fetch
             /\ a.phase \in {"downloaded", "deferred"} => app.fetched # None
             /\ a.attending = app.attending /\ a.auto = app.auto
<1>5. Fine(freed)
  BY <1>3, <1>4 DEF Ready
<1>6. CASE j = "prepare"
  <2>1. /\ app.job[j].version \in Maybe /\ freed.attending \in BOOLEAN
        /\ app.fetched # None
    BY <1>2, <1>3, <1>4, <1>6 DEF JobRecords, Careful, Memories
  <2> DEFINE phase == IF freed.attending THEN "deferred" ELSE "downloaded"
             done  == [freed EXCEPT !.waiting = freed.attending,
                                    !.version = app.job[j].version, !.phase = phase]
             error == [freed EXCEPT !.phase = "error"]
  <2>2. Done(j) = done /\ Failed(j) = error
    BY <1>6 DEF Done, Failed
  <2>3. phase \in {"deferred", "downloaded"}
    OBVIOUS
  <2> HIDE DEF phase, freed
  <2>4. done \in Memories
    <3>1. [freed EXCEPT !.waiting = freed.attending] \in Memories
      BY <1>4, <2>1, FieldLemma
    <3>2. [freed EXCEPT !.waiting = freed.attending,
                        !.version = app.job[j].version] \in Memories
      BY <2>1, <3>1, FieldLemma
    <3> QED BY <2>3, <3>2, FieldLemma
  <2>5. error \in Memories
    BY <1>4, FieldLemma
  <2>6. Fine(done)
    BY <1>4, <2>1, <2>4 DEF Memories
  <2>7. Fine(error)
    BY <1>4, <1>5, <2>5 DEF Memories
  <2> QED BY <1>1, <1>2, <2>2, <2>6, <2>7
<1>7. CASE j = "mark"
  <2> DEFINE done == [app EXCEPT !.job[j].stage = "renamed"]
  <2>1. Done(j) = done /\ Failed(j) = freed
    BY <1>7 DEF Done, Failed
  <2>2. [app.job[j] EXCEPT !.stage = "renamed"] \in JobRecords
    BY <1>2 DEF JobRecords
  <2>3. done \in Memories
    <3>1. done = [app EXCEPT !.job[j] = [app.job[j] EXCEPT !.stage = "renamed"]]
      BY <1>1, <1>2
    <3> QED BY <1>1, <2>2, <3>1, FieldLemma
  <2>4. Fine(done)
    BY <1>1, <1>3, <2>3 DEF Memories, Ready
  <2> QED BY <1>1, <1>2, <1>5, <2>1, <2>4
<1>8. CASE j = "heal"
  <2> DEFINE done == [freed EXCEPT !.watch = "off"]
  <2>1. Done(j) = done /\ Failed(j) = freed
    BY <1>8 DEF Done, Failed
  <2> HIDE DEF freed
  <2>2. done \in Memories
    BY <1>4, FieldLemma
  <2>3. Fine(done)
    BY <1>4, <1>5, <2>2 DEF Memories
  <2> QED BY <1>1, <1>2, <1>5, <2>1, <2>3
<1> QED BY <1>6, <1>7, <1>8 DEF Jobs

\* What a job makes of a good state.json is good: only a health check names another
\* version to go back to, and it is of the installed one.
LEMMA UpdatedLemma ==
    ASSUME UpdatesInv, NEW j \in Jobs, app.job[j] # None
    PROVE  Updated(j, disk) \in States /\ Good(Updated(j, disk))
<1>1. disk \in States /\ Good(disk) /\ Careful(j) /\ installed \in Versions
  BY DEF UpdatesInv, Typed
<1>2. app.job[j].version \in Maybe /\ NoRollback \in States
  <2>1. app.job[j] \in JobRecords
    BY OverLemma
  <2> QED BY <2>1 DEF JobRecords, NoRollback, States, Maybe
<1>3. CASE j = "prepare"
  <2>1. Updated(j, disk) = [disk EXCEPT !.candidate = app.job[j].version]
    BY <1>3 DEF Updated
  <2> QED BY <1>1, <1>2, <2>1 DEF States, Good
<1>4. CASE j = "mark"
  <2>1. Updated(j, disk) = [disk EXCEPT !.pending = app.job[j].version, !.attempts = 0]
    BY <1>4 DEF Updated
  <2>3. Updated(j, disk) \in States
    <3>1. [disk EXCEPT !.pending = app.job[j].version] \in States
      BY <1>1, <1>2 DEF States
    <3>2. \A state \in States : [state EXCEPT !.attempts = 0] \in States
      BY DEF States
    <3> QED BY <2>1, <3>1, <3>2
  <2>4. /\ Updated(j, disk).current = disk.current
        /\ Updated(j, disk).pending = app.job[j].version
    BY <1>1, <2>1 DEF States
  <2> QED BY <1>1, <2>3, <2>4 DEF Good
<1>5. CASE j = "heal"
  <2>1. PICK c \in {installed, disk.current} :
           Updated(j, disk) = [NoRollback EXCEPT !.current = c]
    BY <1>1, <1>5 DEF Updated, Careful
  <2>2. c \in Maybe
    BY <1>1 DEF States, Maybe
  <2>3. Updated(j, disk) \in States /\ Updated(j, disk).current = c
        /\ Updated(j, disk).pending = None
    BY <1>2, <2>1, <2>2 DEF States, NoRollback
  <2>4. installed \in healthy
    BY <1>1, <1>5 DEF Careful
  <2> QED BY <1>1, <2>1, <2>3, <2>4 DEF Good
<1> QED BY <1>3, <1>4, <1>5 DEF Jobs

\* A job reads a good state.json.
LEMMA ReadStateLemma ==
    ASSUME UpdatesInv, NEW j \in Jobs, ReadState(j)
    PROVE  UpdatesInv'
<1>1. /\ app.job[j] # None /\ Typed /\ Good(disk)
      /\ app \in Memories /\ app.job[j] \in JobRecords
  BY OverLemma DEF ReadState, At, UpdatesInv
<1>2. up
  BY <1>1 DEF UpdatesInv, Sensible, Fresh
<1>3. left' \in [Bounded -> Nat]
  BY <1>1, SpendLemma DEF ReadState, Bounded, Typed
<1>4. Ready => app.fetched # None
  BY DEF UpdatesInv, Sensible
<1>5. CASE app' \in {Done(j), Failed(j)}
  <2>1. /\ app'.job[j] # None => /\ app'.job[j].version = app.job[j].version
                                 /\ app'.job[j].stage = "renamed"
    <3>1. app'.job[j] = None \/ app'.job[j] = [app.job[j] EXCEPT !.stage = "renamed"]
      BY <1>1, <1>5, OverLemma
    <3> QED BY <1>1, <3>1 DEF JobRecords
  <2> QED BY <1>1, <1>2, <1>3, <1>5, <2>1, OverLemma, GoesOnLemma
          DEF ReadState, Stays, Typed, Ready
<1>6. CASE app' = [app EXCEPT !.job[j].stage = "writing", !.job[j].state = Updated(j, disk)]
  <2> DEFINE read == [app.job[j] EXCEPT !.stage = "writing", !.state = Updated(j, disk)]
  <2>1. Updated(j, disk) \in States /\ Good(Updated(j, disk))
    BY <1>1, UpdatedLemma
  <2>2. read \in JobRecords /\ read.stage = "writing" /\ read.state = Updated(j, disk)
        /\ read.version = app.job[j].version
    BY <1>1, <2>1 DEF JobRecords
  <2>3. app' = [app EXCEPT !.job[j] = read]
    BY <1>1, <1>6 DEF Memories
  <2> HIDE DEF read
  <2>4. app' \in Memories
    BY <1>1, <2>2, <2>3, FieldLemma
  <2>5. /\ app'.job[j] = read
        /\ \A k \in Jobs \ {j} : app'.job[k] = app.job[k]
        /\ app'.fetched = app.fetched /\ app'.fetch = app.fetch
        /\ app'.version = app.version /\ app'.phase = app.phase
        /\ app'.attending = app.attending /\ app'.auto = app.auto
    BY <1>1, <2>3 DEF Memories
  <2> QED BY <1>1, <1>2, <1>3, <1>4, <2>1, <2>2, <2>4, <2>5, GoesOnLemma
          DEF ReadState, Stays, Typed, Ready
<1> QED BY <1>5, <1>6 DEF ReadState

\* What a job writes is good, if what it read was.
LEMMA WriteTemporaryLemma ==
    ASSUME UpdatesInv, NEW j \in Jobs, WriteTemporary(j)
    PROVE  UpdatesInv'
<1>1. /\ app.job[j] # None /\ app.job[j].stage = "writing" /\ Typed /\ Good(disk)
      /\ app \in Memories /\ app.job[j] \in JobRecords
  BY OverLemma DEF WriteTemporary, At, UpdatesInv
<1>2. up
  BY <1>1 DEF UpdatesInv, Sensible, Fresh
<1>3. Ready => app.fetched # None
  BY DEF UpdatesInv, Sensible
<1>4. temp' \in States /\ Good(temp')
  BY <1>1 DEF WriteTemporary, JobRecords, UpdatesInv, Careful
<1> DEFINE written == [app.job[j] EXCEPT !.stage = "renaming"]
<1>5. written \in JobRecords /\ written.stage = "renaming"
      /\ written.version = app.job[j].version
  BY <1>1 DEF JobRecords
<1>6. app' = [app EXCEPT !.job[j] = written]
  BY <1>1 DEF WriteTemporary, Memories
<1> HIDE DEF written
<1>7. app' \in Memories
  BY <1>1, <1>5, <1>6, FieldLemma
<1>8. /\ app'.job[j] = written
      /\ \A k \in Jobs \ {j} : app'.job[k] = app.job[k]
      /\ app'.fetched = app.fetched /\ app'.fetch = app.fetch
      /\ app'.version = app.version /\ app'.phase = app.phase
      /\ app'.attending = app.attending /\ app'.auto = app.auto
  BY <1>1, <1>6 DEF Memories
<1> QED BY <1>1, <1>2, <1>3, <1>4, <1>5, <1>7, <1>8, GoesOnLemma
        DEF WriteTemporary, Typed, Ready

\* What a job renames is what some job has written, or nothing.
LEMMA RenameLemma ==
    ASSUME UpdatesInv, NEW j \in Jobs, Rename(j)
    PROVE  UpdatesInv'
<1>1. /\ app.job[j] # None /\ app.job[j].stage = "renaming" /\ Typed /\ Good(disk)
      /\ app \in Memories /\ app.job[j] \in JobRecords
  BY OverLemma DEF Rename, At, UpdatesInv
<1>2. up
  BY <1>1 DEF UpdatesInv, Sensible, Fresh
<1>3. temp # None => temp \in States /\ Good(temp)
  BY <1>1 DEF UpdatesInv, Careful, Typed
<1>4. disk' \in States /\ Good(disk') /\ (temp' = temp \/ temp' = None)
  BY <1>1, <1>3 DEF Rename, Typed
<1>5. app' \in {Done(j), Failed(j)}
  BY DEF Rename
<1>6. app'.job[j] # None => /\ app'.job[j].version = app.job[j].version
                            /\ app'.job[j].stage = "renamed"
  <2>1. app'.job[j] = None \/ app'.job[j] = [app.job[j] EXCEPT !.stage = "renamed"]
    BY <1>1, <1>5, OverLemma
  <2> QED BY <1>1, <2>1 DEF JobRecords
<1> QED BY <1>1, <1>2, <1>4, <1>5, <1>6, OverLemma, GoesOnLemma DEF Rename, Typed, Ready

-----------------------------------------------------------------------------

\* Every step keeps the invariant.
LEMMA StepLemma ==
    ASSUME UpdatesInv, [Next]_vars
    PROVE  UpdatesInv'
<1>1. CASE UNCHANGED vars
  BY <1>1 DEF vars, UpdatesInv, Typed, Good, Careful, Sensible, Ready,
              QuitSparesAttendance
<1>2. CASE Launch
  BY <1>2, LaunchLemma
<1>3. CASE Quit \/ InstallNow \/ Rescue
  BY <1>3, QuitLemma
<1>4. CASE SaveSettings \/ BeginAttendance \/ EndAttendance
  BY <1>4, SettingsLemma
<1>5. CASE Browsing
  BY <1>5, BrowsingLemma
<1>6. CASE FetchEnds
  BY <1>6, FetchEndsLemma
<1>7. CASE ClickInstall \/ DueInstall
  BY <1>7, InstallingLemma
<1>8. CASE HealthTimer
  BY <1>8, HealthTimerLemma
<1>9. CASE RendererGone
  BY <1>9, RendererGoneLemma
<1>10. CASE \E j \in Jobs : ReadState(j) \/ WriteTemporary(j) \/ Rename(j)
  BY <1>10, ReadStateLemma, WriteTemporaryLemma, RenameLemma
<1>11. CASE Publish
  BY <1>11, PublishLemma
<1> QED BY <1>1, <1>2, <1>3, <1>4, <1>5, <1>6, <1>7, <1>8, <1>9, <1>10, <1>11
        DEF Next, Browsing

\* The invariant holds whatever is published, however often the program is
\* started, closed or crashes, and in whatever order its jobs go on.
THEOREM UpdatesInvariance == Spec => []UpdatesInv
<1>1. Init => UpdatesInv
  BY InitLemma
<1>2. UpdatesInv /\ [Next]_vars => UpdatesInv'
  BY StepLemma
<1> QED BY <1>1, <1>2, PTL DEF Spec

\* Closing the application in an attendance installs nothing.
THEOREM QuitSparesIt == Spec => []QuitSparesAttendance
<1>1. UpdatesInv => QuitSparesAttendance
  BY DEF UpdatesInv
<1> QED BY <1>1, UpdatesInvariance, PTL

\* A rollback installs a version that has passed its health check, whatever the
\* unsynchronized updates of state.json have lost and whatever the feed has offered;
\* a fatal failure may let the updater install what closing would.
THEOREM RollbacksAreHealthy == Spec => RollbackIsHealthy
<1>1. UpdatesInv /\ [Next]_vars
        => [(Launch \/ Rescue) /\ ~up'
              => installed' \in healthy \cup (OnQuit \ {installed})]_vars
  <2> SUFFICES ASSUME UpdatesInv, Launch \/ Rescue, ~up'
               PROVE  installed' \in healthy \cup (OnQuit \ {installed})
    OBVIOUS
  <2>1. Good(disk) /\ (~up => app = Fresh("off", FALSE))
    BY DEF UpdatesInv, Sensible
  <2>2. CASE Launch
    <3>1. disk.current # None /\ installed' = disk.current
      BY <2>2 DEF Launch
    <3> QED BY <2>1, <3>1 DEF Good
  <2>3. CASE Rescue
    <3>1. up
      BY <2>1, <2>3 DEF Rescue, Fresh
    <3>2. disk.current # None /\ installed' \in {disk.current} \cup (OnQuit \ {installed})
      BY <2>3, <3>1 DEF Rescue, Ends, Stays
    <3> QED BY <2>1, <3>2 DEF Good
  <2> QED BY <2>2, <2>3
<1> QED BY <1>1, UpdatesInvariance, PTL DEF Spec, RollbackIsHealthy
====
