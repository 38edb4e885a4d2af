------------------------------- MODULE Updates -------------------------------
(***************************************************************************)
(* The app replacing itself on macOS: MacUpdater (src/main/mac-updater.ts),   *)
(* the versions and channels of update-channel.ts, setupAutoUpdater in         *)
(* main/index.ts, and the state of the update in App.tsx. electron-updater,     *)
(* which does the same on other systems, is not modelled.                      *)
(*                                                                         *)
(* A version has a core and a pre-release part, sequences of numbers and of     *)
(* <<0, number>> or <<1, word>>. The app is not opened by hand in the moment     *)
(* between its end and the swap.                                              *)
(***************************************************************************)
EXTENDS Integers, Sequences, FiniteSets

CONSTANTS Versions,
          Rank,        \* the order in which the versions supersede each other
          First,       \* the version that is installed to begin with
          MaxChecks,   \* bound: checks for updates
          MaxStarts,   \* bound: starts of the app
          None, Gone

VARIABLES published,   \* the versions released, the last one last
          installed,   \* the bundle in /Applications
          replaced,    \* history: the one that was there before the last swap
          running,     \* the version that runs
          channel,     \* saved in a file
          checks,      \* checkForUpdates calls that wait for the feed
          workDir,     \* the pending-update directory: a bundle, whole or not
          readyBundle,
          download,    \* the download under way
          script,      \* the shell that outlives the app
          chip,        \* App's updateInfo
          checked, starts

vars == <<published, installed, replaced, running, channel, checks, workDir, readyBundle, download,
          script, chip, checked, starts>>
process == <<running, checks, readyBundle, download, chip>>

-----------------------------------------------------------------------------
(* update-channel.ts                                                        *)

\* The first difference decides; what has an end first is less.
Precedes(s, t, Less(_, _)) ==
  \E i \in 1..Len(t) :
    /\ \A j \in 1..(i - 1) : j <= Len(s) /\ s[j] = t[j]
    /\ i > Len(s) \/ Less(s[i], t[i])
Number(x, y) == x < y
Identifier(x, y) == Precedes(x, y, Number)
\* A pre-release is below its release.
compareVersions(a, b) ==
  \/ Precedes(a.core, b.core, Number)
  \/ /\ a.core = b.core /\ a.pre # <<>>
     /\ b.pre = <<>> \/ Precedes(a.pre, b.pre, Identifier)

\* Mutant: whatever the channel offers is taken for an update.
AnyOther(current, candidate) == candidate # current
isNewerVersion(current, candidate) == compareVersions(current, candidate)

Stable(v) == v.pre = <<>>
defaultChannelFor(v) == IF Stable(v) THEN "stable" ELSE "dev"
\* GitHub's latest release, which is never a pre-release.
Releases == {i \in DOMAIN published : Stable(published[i])}
Latest == published[CHOOSE i \in Releases : \A j \in Releases : j <= i]
\* pickRelease, for the dev channel: the highest version.
pickRelease ==
  CHOOSE v \in {published[i] : i \in DOMAIN published} :
    \A i \in DOMAIN published : published[i] = v \/ compareVersions(published[i], v)
Feed(ch) ==
  CASE ch = "dev" /\ published # <<>> -> pickRelease
    [] ch = "stable" /\ Releases # {} -> Latest
    [] OTHER -> None

-----------------------------------------------------------------------------
(* The app.                                                                *)

\* App's listener: the error of a check, and no update, make the chip idle.
Status(state) ==
  chip' = CASE state = "available" -> "downloading"
            [] state = "downloaded" -> "ready"
            [] state \in {"none", "error"} -> "idle"

\* Five seconds after the start, from the toolbar, and from setting the channel.
checkForUpdates(ch) ==
  /\ running # None /\ checked < MaxChecks
  /\ checked' = checked + 1
  /\ checks' = checks \cup {[n |-> checked, channel |-> ch]}
Check ==
  /\ checkForUpdates(channel)
  /\ UNCHANGED <<published, installed, replaced, running, channel, workDir, readyBundle, download,
                 script, chip, starts>>
SetChannel(ch) ==
  /\ ch # channel
  /\ channel' = ch
  /\ checkForUpdates(ch)
  /\ UNCHANGED <<published, installed, replaced, running, workDir, readyBundle, download, script,
                 chip, starts>>

CheckFails(c) ==
  /\ checks' = checks \ {c}
  /\ Status("error")
  /\ UNCHANGED <<published, installed, replaced, running, channel, workDir, readyBundle, download,
                 script, checked, starts>>
\* The feed is compared with the version that runs.
CheckReplies(c) ==
  LET v == Feed(c.channel) IN
  /\ v # None
  /\ checks' = checks \ {c}
  /\ \/ /\ ~isNewerVersion(running, v)
        /\ Status("none")
        /\ UNCHANGED download
     \/ /\ isNewerVersion(running, v) /\ readyBundle = v
        /\ Status("downloaded")
        /\ UNCHANGED download
     \/ /\ isNewerVersion(running, v) /\ readyBundle # v
        /\ Status("available")
        /\ download' = IF download = None THEN [v |-> v, stage |-> "clear"] ELSE download
  /\ UNCHANGED <<published, installed, replaced, running, channel, workDir, readyBundle, script,
                 checked, starts>>

\* download: the directory is cleared, the zip fetched and its checksum compared,
\* unpacked, and the bundle, which has one name in every version, taken note of.
Step(stage, next) ==
  /\ download # None /\ download.stage = stage
  /\ download' = [download EXCEPT !.stage = next]
  /\ UNCHANGED <<published, installed, replaced, running, channel, checks, readyBundle, script, chip,
                 checked, starts>>
Clear == Step("clear", "fetch") /\ workDir' = None
Fetched == Step("fetch", "unpack") /\ workDir' = [v |-> download.v, whole |-> FALSE]
Unpacked == Step("unpack", "unpacked") /\ workDir' = [v |-> download.v, whole |-> TRUE]
Downloaded ==
  /\ download # None /\ download.stage = "unpacked"
  /\ readyBundle' = download.v
  /\ download' = None
  /\ Status("downloaded")
  /\ UNCHANGED <<published, installed, replaced, running, channel, checks, workDir, script, checked,
                 starts>>
DownloadFails ==
  /\ download # None
  /\ download' = None
  /\ Status("error")
  /\ UNCHANGED <<published, installed, replaced, running, channel, checks, workDir, readyBundle,
                 script, checked, starts>>

\* "Restart now", in the chip or in a notice that is still there.
Ended == running' = None /\ checks' = {} /\ readyBundle' = None /\ download' = None /\ chip' = "idle"
quitAndInstall ==
  /\ running # None /\ readyBundle # None
  /\ script' = "remove"
  /\ Ended
  /\ UNCHANGED <<published, installed, replaced, channel, workDir, checked, starts>>
Quit ==
  /\ running # None
  /\ Ended
  /\ UNCHANGED <<published, installed, replaced, channel, workDir, script, checked, starts>>

\* The shell goes on whatever its commands return.
Remove ==
  /\ script = "remove"
  /\ installed' = Gone /\ replaced' = installed
  /\ script' = "move"
  /\ UNCHANGED <<published, process, channel, workDir, checked, starts>>
Move ==
  /\ script = "move"
  /\ installed' = IF workDir = None THEN installed ELSE workDir.v
  /\ workDir' = None
  /\ script' = None
  /\ UNCHANGED <<published, replaced, process, channel, checked, starts>>
Start ==
  /\ running = None /\ script = None /\ installed # Gone
  /\ starts < MaxStarts
  /\ starts' = starts + 1
  /\ running' = installed
  /\ UNCHANGED <<published, installed, replaced, channel, checks, workDir, readyBundle, download,
                 script, chip, checked>>

Publish(v) ==
  /\ \A i \in DOMAIN published : published[i] # v
  /\ published' = Append(published, v)
  /\ UNCHANGED <<process, installed, replaced, channel, workDir, script, checked, starts>>

-----------------------------------------------------------------------------
Init ==
  /\ published = <<First>>
  /\ installed = First /\ replaced = None /\ running = First
  /\ channel = defaultChannelFor(First)
  /\ checks = {} /\ workDir = None /\ readyBundle = None /\ download = None
  /\ script = None /\ chip = "idle" /\ checked = 0 /\ starts = 0

Next ==
  \/ Check \/ \E ch \in {"stable", "dev"} : SetChannel(ch)
  \/ \E c \in checks : CheckFails(c) \/ CheckReplies(c)
  \/ Clear \/ Fetched \/ Unpacked \/ Downloaded \/ DownloadFails
  \/ quitAndInstall \/ Quit \/ Remove \/ Move \/ Start
  \/ \E v \in Versions : Publish(v)
Spec == Init /\ [][Next]_vars

-----------------------------------------------------------------------------
\* What is published has a highest version and, if there is a release, a last one.
Ordered ==
  /\ published # <<>>
  /\ \E i \in DOMAIN published : \A j \in DOMAIN published :
       published[j] = published[i] \/ compareVersions(published[j], published[i])
  /\ Releases # {} => \E i \in Releases : \A j \in Releases : j <= i
\* What runs is what is installed, and what is downloaded or unpacked is above it, or above what the
\* shell has just removed.
OnlyHigher ==
  /\ running # None => running = installed
  /\ installed = Gone => running = None
  /\ script # None => running = None
  /\ checks # {} => running # None
  /\ script = "remove" => installed # Gone
  /\ script = "move" => installed = Gone /\ replaced # None
  /\ download # None => running # None /\ Rank[installed] < Rank[download.v]
  /\ workDir # None => /\ installed # Gone => Rank[installed] < Rank[workDir.v]
                       /\ script = "move" => Rank[replaced] < Rank[workDir.v]
\* Whatever the channel is set to, whatever is published in whatever order and
\* however checks and downloads overlap: the version that is put in place is
\* above the one that it replaces.
NeverDowngrades ==
  installed # Gone /\ replaced # None => Rank[replaced] < Rank[installed]

\* mac-updater.ts:12-13: the shell "waits for the app to quit, replaces the .app
\* bundle, and reopens it". Refuted: the download of a later version begins by
\* removing the bundle that is ready, which stays noted as such; the shell then
\* removes the app and has nothing to put in its place.
AppIsReplaced == script = None => installed # Gone

\* mac-updater.ts:91: readyBundle is "Set once a verified .app is unpacked and
\* ready to swap in." Refuted in the same way, also while the later version is
\* being unpacked under the same name.
ReadyIsUnpacked == readyBundle # None => workDir = [v |-> readyBundle, whole |-> TRUE]

\* App.tsx:1008-1010: "so download progress and the ready-to-restart state stay
\* visible". Refuted: the next check that fails, or a change of channel that finds
\* nothing newer, makes the chip idle.
ReadyStaysVisible == readyBundle # None => chip = "ready"

\* App.tsx:1002-1003: "The binary swap happens automatically on next quit".
\* Refuted on macOS, where nothing is done on quitting.
QuitInstalls ==
  [][running # None /\ running' = None /\ readyBundle # None => script' # None]_vars
=============================================================================
