-------------------------------- MODULE Gerrit --------------------------------
(***************************************************************************)
(* Gerrit mode: useGerrit (src/renderer/hooks/useGerrit.ts), which lists the   *)
(* open changes of the project and has the main process mirror their patch     *)
(* sets under refs/gitgud, and the operations of GitService behind it. The     *)
(* calls go to the repository that is active in the main process, which is     *)
(* changed before the window's own path follows.                              *)
(*                                                                         *)
(* A repository stands for its project too, and a change is of one project.    *)
(* Left out: host, project and branch of the settings, sign-in, messages, and   *)
(* branches and tags created over REST.                                       *)
(***************************************************************************)
EXTENDS Integers, FiniteSets, Functions

CONSTANTS Repos, Changes,
          ProjectOf,      \* the repository whose project a change is of
          MaxPatchsets,   \* bound: patch sets of a change
          MaxAsked,       \* bound: listings in all
          MaxSwitches,    \* bound: changes of the repository in all
          MaxWrites,      \* bound: mode writes in all
          None

VARIABLES server,     \* per change, its patch sets and whether it is open
          config,     \* gitgud.gerrit.enabled, per repository
          mirror,     \* refs under refs/gitgud, per repository
          active,     \* the repository of the main process
          shown,      \* repoPath, the window's
          loading, mode, changes, lastSync,
          listings, fetchSeq,
          syncs,      \* syncGerritChangeRefs under way
          write,      \* the mode write under way, and what follows it
          switches, writes,
          mirrored,   \* history: a listing has been mirrored since the signature was emptied
          crossed     \* history: operations met, or one failed; bound: nothing is begun afterwards

repository == <<server, config, mirror>>
window == <<shown, loading, mode, changes, lastSync, mirrored>>
vars == <<server, config, mirror, active, shown, loading, mode, changes, lastSync, listings,
          fetchSeq, syncs, write, switches, writes, mirrored, crossed>>

Change == [patchsets : 1..MaxPatchsets, open : BOOLEAN]
\* What may become of the changes: patch sets are uploaded, changes merged or abandoned.
Later(was, is) == \A c \in Changes : /\ is[c].patchsets >= was[c].patchsets
                                     /\ is[c].open => was[c].open
\* What the host answers: the open changes of a project, each with the number of its patch sets.
listOpenChanges(r, s) == [c \in {d \in Changes : s[d].open /\ ProjectOf[d] = r} |-> s[c].patchsets]
\* Mutant: the signature names the changes only.
NumbersOnly(l) == DOMAIN l
\* Every change, its current patch set and the older ones, joined: nothing, for an empty listing.
Signature(l) == l
\* What the signature is emptied to is that of an empty listing.
Unsynced == Signature(<<>>)
\* The mirrored refs of a listing: <<change, 0, current>> and <<change, n, n>> for an older one.
Specs(l) == {<<c, 0, l[c]>> : c \in DOMAIN l}
            \cup UNION {{<<c, n, n>> : n \in 1..l[c] - 1} : c \in DOMAIN l}
Name(ref) == <<ref[1], ref[2]>>
Names(l) == {Name(ref) : ref \in Specs(l)}
\* Mutant: older patch sets are kept whatever became of their change.
KeepsOlder(l) == Names(l) \cup (Changes \X (1..MaxPatchsets))
changeRefKeepSet(l) == Names(l)

Enabled == mode # None /\ mode.enabled = "on"
Busy == loading \/ listings # {} \/ syncs # {} \/ write # None
\* Two operations work on the same refs, or one on those of another repository.
Meet == \/ active # shown /\ Busy
        \/ Cardinality(syncs) > 1
        \/ mode # None /\ ~Enabled /\ (listings # {} \/ syncs # {})
        \/ write # None /\ (listings # {} \/ syncs # {}) /\ write.clears
Noted(failed) == crossed' = (crossed \/ failed \/ Meet')

-----------------------------------------------------------------------------
(* The window *)

\* refreshChanges, up to its await.
Asks(of) ==
  /\ fetchSeq < MaxAsked /\ ~crossed
  /\ fetchSeq' = fetchSeq + 1
  /\ listings' = listings \cup {[seq |-> fetchSeq + 1, of |-> of, answer |-> None]}

\* The main process is switched first; the window's path, and the state of the mode, follow.
switchRepo(r) ==
  /\ r # active
  /\ switches < MaxSwitches /\ ~crossed
  /\ active' = r
  /\ switches' = switches + 1
  /\ UNCHANGED <<repository, window, listings, fetchSeq, syncs, write, writes>>
  /\ Noted(FALSE)
LoadMode ==
  /\ shown # active
  /\ shown' = active
  /\ loading' = TRUE
  /\ mode' = None /\ changes' = <<>> /\ lastSync' = Unsynced /\ mirrored' = FALSE
  /\ UNCHANGED <<repository, active, listings, fetchSeq, syncs, write, switches, writes>>
  /\ Noted(FALSE)
\* What was loaded is of the repository that is active now; an enabled mode lists its changes.
ModeLoaded ==
  /\ loading
  /\ loading' = FALSE
  /\ mode' = [of |-> active, enabled |-> config[active]]
  /\ IF config[active] = "on" THEN Asks(active) ELSE UNCHANGED <<listings, fetchSeq>>
  /\ UNCHANGED <<repository, active, shown, changes, lastSync, mirrored, syncs, write, switches, writes>>
  /\ Noted(FALSE)

\* The window is focused, or asked to refresh, or a push for review has ended well.
Refresh ==
  /\ Enabled
  /\ Asks(mode.of)
  /\ UNCHANGED <<repository, active, window, syncs, write, switches, writes>>
  /\ Noted(FALSE)

\* The host answers, after whatever happened there since it answered last.
Answered(l) ==
  /\ l.answer = None
  /\ server' \in {s \in [Changes -> Change] : Later(server, s)}
  /\ listings' = (listings \ {l}) \cup {[l EXCEPT !.answer = listOpenChanges(l.of, server')]}
  /\ UNCHANGED <<config, mirror, active, window, fetchSeq, syncs, write, switches, writes, crossed>>
\* A listing that fails, or was superseded, changes nothing.
Ignored(l) ==
  /\ l.answer = None \/ l.seq # fetchSeq
  /\ listings' = listings \ {l}
  /\ UNCHANGED <<repository, active, window, fetchSeq, syncs, write, switches, writes, crossed>>
Listed(l) ==
  /\ l.answer # None
  /\ l.seq = fetchSeq
  /\ listings' = listings \ {l}
  /\ changes' = l.answer
  /\ lastSync' = Signature(l.answer)
  /\ IF lastSync = Signature(l.answer) THEN UNCHANGED <<syncs, mirrored>>
     ELSE /\ syncs' = syncs \cup {[at |-> active, of |-> l.of, entries |-> l.answer, pruned |-> FALSE]}
          /\ mirrored' = TRUE
  /\ UNCHANGED <<repository, active, shown, loading, mode, fetchSeq, write, switches, writes>>
  /\ Noted(FALSE)

\* enable, dismiss and disable: the mode at once, its writes and the clearing afterwards.
writeMode(enabled, clears) ==
  /\ mode # None /\ mode.enabled # enabled /\ write = None /\ writes < MaxWrites /\ ~crossed
  /\ mode' = [mode EXCEPT !.enabled = enabled]
  /\ write' = [enabled |-> enabled, clears |-> clears, written |-> FALSE]
  /\ writes' = writes + 1
  /\ IF enabled = "on" THEN Asks(mode.of) ELSE UNCHANGED <<listings, fetchSeq>>
  /\ UNCHANGED <<repository, active, shown, loading, changes, lastSync, mirrored, syncs, switches>>
  /\ Noted(FALSE)
enable == writeMode("on", FALSE)
dismiss == mode # None /\ mode.enabled = "unset" /\ writeMode("off", FALSE)
disable == Enabled /\ writeMode("off", TRUE)

-----------------------------------------------------------------------------
(* GitService, on the repository that is active when it is called *)

setConfig(ok) ==
  /\ write # None /\ ~write.written
  /\ config' = IF ok THEN [config EXCEPT ![active] = write.enabled] ELSE config
  /\ write' = IF write.clears THEN [write EXCEPT !.written = TRUE] ELSE None
  /\ UNCHANGED <<server, mirror, active, window, listings, fetchSeq, syncs, switches, writes>>
  /\ Noted(~ok)
clearGerritChangeRefs ==
  /\ write # None /\ write.written
  /\ lastSync' = Unsynced /\ mirrored' = FALSE
  /\ mirror' = [mirror EXCEPT ![active] = {}]
  /\ write' = None
  /\ UNCHANGED <<server, config, active, shown, loading, mode, changes, listings, fetchSeq, syncs,
                 switches, writes>>
  /\ Noted(FALSE)

\* The refs the listing does not name go first, even if the fetch then fails.
Prune(s) ==
  /\ ~s.pruned
  /\ mirror' = [mirror EXCEPT ![s.at] = {ref \in @ : Name(ref) \in changeRefKeepSet(s.entries)}]
  /\ syncs' = (syncs \ {s}) \cup {[s EXCEPT !.pruned = TRUE]}
  /\ UNCHANGED <<server, config, active, window, listings, fetchSeq, write, switches, writes, crossed>>
\* One fetch of all: a remote that does not have a ref, or does not answer, fails it.
Fetch(s, ok) ==
  /\ s.pruned
  /\ ok => s.of = s.at \/ s.entries = <<>>
  /\ mirror' = IF ok THEN [mirror EXCEPT ![s.at] =
                             {ref \in @ : Name(ref) \notin Names(s.entries)} \cup Specs(s.entries)]
               ELSE mirror
  /\ syncs' = syncs \ {s}
  /\ UNCHANGED <<server, config, active, window, listings, fetchSeq, write, switches, writes>>
  /\ Noted(~ok)

-----------------------------------------------------------------------------
Init ==
  /\ server = [c \in Changes |-> [patchsets |-> 1, open |-> TRUE]]
  /\ config \in [Repos -> {"unset", "on"}]
  /\ mirror \in [Repos -> {{}} \cup {Specs(listOpenChanges(r, server)) : r \in Repos}]
  /\ \A r \in Repos : mirror[r] # {} => config[r] = "on" /\ mirror[r] = Specs(listOpenChanges(r, server))
  /\ active \in Repos /\ shown = active
  /\ loading = TRUE /\ mode = None /\ changes = <<>> /\ lastSync = Unsynced
  /\ listings = {} /\ fetchSeq = 0 /\ syncs = {} /\ write = None
  /\ switches = 0 /\ writes = 0 /\ mirrored = FALSE /\ crossed = FALSE

Next ==
  \/ \E r \in Repos : switchRepo(r)
  \/ LoadMode \/ ModeLoaded \/ Refresh
  \/ \E l \in listings : Answered(l) \/ Ignored(l) \/ Listed(l)
  \/ enable \/ dismiss \/ disable
  \/ \E ok \in BOOLEAN : setConfig(ok)
  \/ clearGerritChangeRefs
  \/ \E s \in syncs : Prune(s) \/ \E ok \in BOOLEAN : Fetch(s, ok)

Spec == Init /\ [][Next]_vars

-----------------------------------------------------------------------------
Quiet == ~Busy /\ active = shown
\* Unless operations met or failed, the mirrored refs are exactly the patch sets of the changes that
\* were listed last, of those an earlier run of the app left as well as of its own, and there are none
\* once the mode is off: however patch sets were uploaded and changes merged between the listings, and
\* whichever of them were superseded: from the first listing on that names a change, of those that came
\* in since the mode was loaded or the refs were cleared (useGerrit.ts:101-130, git-service.ts:1764-1788).
MirrorIsTheListing ==
  ~crossed /\ Quiet =>
    /\ Enabled /\ mirrored => mirror[shown] = Specs(changes)
    /\ mode # None /\ mode.enabled = "off" => mirror[shown] = {}

\* Refuted (git-service.ts:1760 "Refs for changes no longer open ... are pruned"): the signature of an
\* empty listing is the one that means nothing was synced (useGerrit.ts:60, 99, 124-128), so that the
\* first listing of a repository whose changes have all been closed prunes none of their refs.
ClosedArePruned ==
  ~crossed /\ Quiet /\ Enabled /\ fetchSeq > 0 => mirror[shown] = Specs(changes)
\* Refuted (useGerrit.ts:197 "Drop the mirrored change refs so the graph returns to baseline"): a
\* listing under way when the mode is disabled lands afterwards and mirrors the changes again.
DisabledIsBaseline ==
  Quiet /\ mode # None /\ mode.enabled = "off" /\ switches = 0 => mirror[shown] = {}
\* Refuted (git-service.ts:1760-1761 "Refs for changes no longer open … are pruned"): a listing that
\* was asked for the repository before is mirrored into the one after, whose own refs it prunes.
OwnRefsOnly ==
  \A r \in Repos : \A s \in syncs : s.at = r => s.of = r
================================================================================
