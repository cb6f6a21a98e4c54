---- MODULE Updates ----
(***************************************************************************)
(* One installed application with its UpdateManager: checks, downloads,    *)
(* the installation that waits for the end of an attendance, and the       *)
(* RollbackManager that returns to an earlier installer when a new version *)
(* does not start well.  Between the runs of the program there is only its *)
(* installed version and RollbackManager's state.json.                     *)
(*                                                                         *)
(* Of a version only its identity matters: a channel, once set, makes the  *)
(* updater accept older versions as well, and the manager takes whatever   *)
(* it is offered.                                                          *)
(*                                                                         *)
(* state.json is read, awaited, written to state.json.tmp, awaited and     *)
(* renamed by three functions that nothing keeps apart: each is a job, and *)
(* every await is a step.  At most one job of each kind runs at a time.    *)
(***************************************************************************)
EXTENDS Integers

CONSTANTS
    Versions, \* of the program
    None,     \* JavaScript's undefined
    Limits    \* bounds on the events of the outside world

\* Changes of what the feed offers, checks, failures of a check, a download or a
\* file, attendances, and changes of the settings.
Bounded == {"publish", "check", "fault", "attendance", "save"}

ASSUME UpdatesAssumption ==
    /\ None \notin Versions
    /\ Limits \subseteq [Bounded -> Nat]

VARIABLES
    feed,      \* the version that the updater's feed offers
    installed, \* the version of the program on the computer
    up,        \* whether it runs
    disk,      \* state.json
    temp,      \* state.json.tmp, when there is one
    settings,  \* automaticDownload and installOnAppQuit
    app,       \* the memory of the running program
    healthy,   \* versions whose health check has been reached (history)
    left       \* what is left of the bounds

vars == <<feed, installed, up, disk, temp, settings, app, healthy, left>>

Spend(event) == left[event] > 0 /\ left' = [left EXCEPT ![event] = @ - 1]

Settings == [automatic : BOOLEAN, onQuit : BOOLEAN]

\* state.json.  launchAttempts is counted to three: only whether it is below is
\* ever asked.
NoRollback == [current |-> None, candidate |-> None, pending |-> None, attempts |-> 0]

\* prepareCandidate, markInstallationPending (with the install that awaits it)
\* and markHealthy.
Jobs == {"prepare", "mark", "heal"}

Job(version) == [stage |-> "reading", version |-> version, state |-> NoRollback]

\* A new process: nothing is known and nothing is under way.
Fresh(watch, auto) ==
    [phase      |-> "idle",
     version    |-> None,  \* newVersion
     attending  |-> FALSE, \* attendanceActive
     waiting    |-> FALSE, \* installPendingAfterAttendance
     due        |-> FALSE, \* the timer that installs after an attendance
     auto       |-> auto,  \* the updater's autoInstallOnAppQuit
     checking   |-> FALSE, \* UpdateChecker.checking
     fetch      |-> None,  \* DownloadManager.downloading: the version
     fetched    |-> None,  \* the version the updater would install
     watch      |-> watch, \* healthPending: "off", "armed" or "fired", as its timer
     rescue     |-> FALSE, \* reportFatalStartupFailure awaits state.json
     job        |-> [j \in Jobs |-> None]]

Ready == app.phase \in {"downloaded", "deferred"}

-----------------------------------------------------------------------------
(* The process *)

\* The program ends and leaves one of `versions` installed.
Ends(versions) ==
    /\ up' = FALSE
    /\ installed' \in versions
    /\ app' = Fresh("off", FALSE)
    /\ UNCHANGED <<feed, disk, temp, settings, healthy, left>>

\* What a quit may install; the updater's installer may fail, and a crash does not
\* run it.
OnQuit == IF app.auto /\ app.fetched # None THEN {installed, app.fetched} ELSE {installed}

\* start, with RollbackManager.handleStartup: at the third launch of a version
\* without a health check the preserved installer is started instead.
Launch ==
    /\ ~up
    /\ LET watched == disk.pending = installed
           tries   == IF disk.attempts < 3 THEN disk.attempts + 1 ELSE 3
       IN  /\ disk' = IF watched THEN [disk EXCEPT !.attempts = tries] ELSE disk
           /\ IF watched /\ tries = 3 /\ disk.current # None
              THEN installed' = disk.current /\ UNCHANGED <<up, app>>
              ELSE /\ up'  = TRUE
                   /\ app' = Fresh(IF watched THEN "armed" ELSE "off", settings.onQuit)
                   /\ UNCHANGED installed
    /\ UNCHANGED <<feed, temp, settings, healthy, left>>

\* The program is closed, or crashes.
Quit == up /\ Ends(OnQuit)

Stays == UNCHANGED <<feed, installed, up, disk, temp, healthy>>

\* Mutant: saveSettings does not ask for the attendance.
SaveSettingsAlone ==
    /\ up /\ Spend("save")
    /\ settings' \in Settings
    /\ app' = [app EXCEPT !.auto = settings'.onQuit]
    /\ Stays

\* saveSettings
SaveSettings ==
    /\ up /\ Spend("save")
    /\ settings' \in Settings
    /\ app' = [app EXCEPT !.auto = settings'.onQuit /\ ~app.attending]
    /\ Stays

\* setAttendanceActive(true)
BeginAttendance ==
    /\ up /\ ~app.attending /\ Spend("attendance")
    /\ LET a == [app EXCEPT !.attending = TRUE, !.auto = FALSE]
       IN  app' = IF app.phase = "downloaded"
                  THEN [a EXCEPT !.waiting = TRUE, !.phase = "deferred"] ELSE a
    /\ Stays /\ UNCHANGED settings

\* setAttendanceActive(false)
EndAttendance ==
    /\ up /\ app.attending
    /\ LET a == [app EXCEPT !.attending = FALSE, !.auto = settings.onQuit]
       IN  app' = IF app.waiting /\ app.phase = "deferred"
                  THEN [a EXCEPT !.waiting = FALSE, !.due = TRUE] ELSE a
    /\ Stays /\ UNCHANGED <<settings, left>>

-----------------------------------------------------------------------------
(* Checks and downloads *)

\* check: by the timers, a click or a new channel; one at a time.
Check ==
    /\ up /\ ~app.checking /\ Spend("check")
    /\ app' = [app EXCEPT !.checking = TRUE, !.phase = "checking"]
    /\ Stays /\ UNCHANGED settings

\* download, with DownloadManager: one at a time, of the version of the last check;
\* without one the updater fails.
Downloading(a) ==
    IF a.phase \notin {"available", "error"} THEN a
    ELSE IF a.fetch = None /\ a.version = None THEN [a EXCEPT !.phase = "error"]
    ELSE [a EXCEPT !.phase = "downloading", !.fetch = IF @ = None THEN a.version ELSE @]

\* update-available, update-not-available or an error.  The updater allows a
\* downgrade, so that every other version is an update.
CheckAnswered ==
    /\ app.checking
    /\ LET a     == [app EXCEPT !.checking = FALSE]
           found == [a EXCEPT !.phase = "available", !.version = feed]
       IN  \/ /\ feed # installed
              /\ app' = IF settings.automatic THEN Downloading(found) ELSE found
              /\ UNCHANGED left
           \/ feed = installed /\ app' = [a EXCEPT !.phase = "up-to-date"] /\ UNCHANGED left
           \/ Spend("fault") /\ app' = [a EXCEPT !.phase = "error"]
    /\ Stays /\ UNCHANGED settings

ClickDownload ==
    /\ up
    /\ app.phase \in {"available", "error"}
    /\ app' = Downloading(app)
    /\ Stays /\ UNCHANGED <<settings, left>>

\* download-progress
Progress ==
    /\ app.fetch # None
    /\ app' = [app EXCEPT !.phase = "downloading"]
    /\ Stays /\ UNCHANGED <<settings, left>>

\* update-downloaded, or an error.
FetchEnds ==
    /\ app.fetch # None
    /\ \/ /\ app.job["prepare"] = None
          /\ app' = [app EXCEPT !.fetch = None, !.fetched = app.fetch,
                                !.job["prepare"] = Job(app.fetch)]
          /\ UNCHANGED left
       \/ Spend("fault") /\ app' = [app EXCEPT !.fetch = None, !.phase = "error"]
    /\ Stays /\ UNCHANGED settings

-----------------------------------------------------------------------------
(* Installing *)

\* install
Installing(a) ==
    IF ~Ready THEN a
    ELSE IF a.attending THEN [a EXCEPT !.waiting = TRUE, !.phase = "deferred"]
    ELSE [a EXCEPT !.job["mark"] = IF @ = None THEN Job(a.version) ELSE @]

ClickInstall ==
    /\ up /\ Ready
    /\ app' = Installing(app)
    /\ Stays /\ UNCHANGED <<settings, left>>

\* One second after the attendance.
DueInstall ==
    /\ app.due
    /\ app' = Installing([app EXCEPT !.due = FALSE])
    /\ Stays /\ UNCHANGED <<settings, left>>

At(j, stage) == app.job[j] # None /\ app.job[j].stage = stage

\* install after its mark: the updater's quitAndInstall.
InstallNow == At("mark", "renamed") /\ Ends({installed, app.fetched})

\* The timer of the health check.
HealthTimer ==
    /\ app.watch = "armed"
    /\ app' = [app EXCEPT !.watch = "fired", !.job["heal"] = Job(installed)]
    /\ healthy' = healthy \cup {installed}
    /\ UNCHANGED <<feed, installed, up, disk, temp, settings, left>>

\* The window is gone before the health check: reportFatalStartupFailure.
RendererGone ==
    /\ up /\ app.watch # "off"
    /\ app' = [app EXCEPT !.rescue = TRUE]
    /\ Stays /\ UNCHANGED <<settings, left>>

\* rollbackNow
Rescue ==
    /\ app.rescue
    /\ \/ disk.current # None /\ Ends({disk.current} \cup (OnQuit \ {installed}))
       \/ /\ disk.current = None
          /\ app' = [app EXCEPT !.rescue = FALSE]
          /\ Stays /\ UNCHANGED <<settings, left>>

-----------------------------------------------------------------------------
(* state.json *)

\* Mutant: whatever was downloaded last is taken for the healthy version.
UpdatedByCandidate(j, state) ==
    CASE j = "prepare" -> [state EXCEPT !.candidate = app.job[j].version]
      [] j = "mark"    -> [state EXCEPT !.pending = app.job[j].version, !.attempts = 0]
      [] j = "heal"    -> [NoRollback EXCEPT !.current =
                              IF state.candidate # None THEN state.candidate ELSE state.current]

\* What a job writes when it has read `state`.
Updated(j, state) ==
    CASE j = "prepare" -> [state EXCEPT !.candidate = app.job[j].version]
      [] j = "mark"    -> [state EXCEPT !.pending = app.job[j].version, !.attempts = 0]
      [] j = "heal"    -> [NoRollback EXCEPT !.current =
                              IF state.candidate = app.job[j].version THEN state.candidate
                              ELSE state.current]

\* What waits for a job goes on.
Done(j) ==
    LET a == [app EXCEPT !.job[j] = None]
    IN  CASE j = "prepare" -> [a EXCEPT !.waiting = a.attending, !.version = app.job[j].version,
                                        !.phase = IF a.attending THEN "deferred" ELSE "downloaded"]
          [] j = "mark"    -> [app EXCEPT !.job[j].stage = "renamed"]
          [] j = "heal"    -> [a EXCEPT !.watch = "off"]

\* Or sees it fail; only onDownloaded catches that.
Failed(j) ==
    LET a == [app EXCEPT !.job[j] = None]
    IN  IF j = "prepare" THEN [a EXCEPT !.phase = "error"] ELSE a

\* readState.  prepareCandidate may throw before it, markHealthy returns when
\* another version is pending.
ReadState(j) ==
    /\ At(j, "reading")
    /\ \/ /\ app' = IF j = "heal" /\ disk.pending # app.job[j].version THEN Done(j)
                    ELSE [app EXCEPT !.job[j].stage = "writing", !.job[j].state = Updated(j, disk)]
          /\ UNCHANGED left
       \/ j = "prepare" /\ Spend("fault") /\ app' = Failed(j)
    /\ Stays /\ UNCHANGED settings

\* writeFile
WriteTemporary(j) ==
    /\ At(j, "writing")
    /\ temp' = app.job[j].state
    /\ app' = [app EXCEPT !.job[j].stage = "renaming"]
    /\ UNCHANGED <<feed, installed, up, disk, settings, healthy, left>>

\* rename: of what was written last, or of nothing when another was faster.
Rename(j) ==
    /\ At(j, "renaming")
    /\ IF temp # None THEN disk' = temp /\ temp' = None /\ app' = Done(j)
       ELSE app' = Failed(j) /\ UNCHANGED <<disk, temp>>
    /\ UNCHANGED <<feed, installed, up, settings, healthy, left>>

-----------------------------------------------------------------------------

\* A release, one that is taken back (scripts/rollback-update-release.sh), or
\* another channel of the settings.
Publish ==
    /\ Spend("publish")
    /\ feed' \in Versions \ {feed}
    /\ UNCHANGED <<installed, up, disk, temp, settings, app, healthy>>

Init ==
    /\ installed \in Versions
    /\ feed      = installed
    /\ up        = FALSE
    /\ disk      = NoRollback
    /\ temp      = None
    /\ settings \in Settings
    /\ app       = Fresh("off", FALSE)
    /\ healthy   = {}
    /\ left \in Limits

Next ==
    \/ Launch \/ Quit \/ SaveSettings \/ BeginAttendance \/ EndAttendance
    \/ Check \/ CheckAnswered \/ ClickDownload \/ Progress \/ FetchEnds
    \/ ClickInstall \/ DueInstall \/ InstallNow
    \/ HealthTimer \/ RendererGone \/ Rescue
    \/ \E j \in Jobs : ReadState(j) \/ WriteTemporary(j) \/ Rename(j)
    \/ Publish

Spec == Init /\ [][Next]_vars

-----------------------------------------------------------------------------
(* Properties *)

\* A rollback, at the third start or when the window is gone, installs a version
\* that has passed its health check, whichever updates of state.json were lost or
\* overwritten on the way and whether the feed went on or back; or what closing the
\* application installs anyway.
RollbackIsHealthy ==
    [][(Launch \/ Rescue) /\ ~up' => installed' \in healthy \cup (OnQuit \ {installed})]_vars

\* Closing the application in an attendance installs nothing.
QuitSparesAttendance == app.attending => ~app.auto

\* docs/sprints/SPR-BETA-12C.md:24 says of the attendance: "instalação/reinício
\* nunca ocorre enquanto essa trava estiver ativa".  install looks at it before
\* it awaits the write of state.json, and not after.
InstallSparesAttendance ==
    [][InstallNow /\ installed' # installed => ~app.attending]_vars
====
