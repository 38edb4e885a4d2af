------------------------------- MODULE Branches -------------------------------
(***************************************************************************)
(* The branches and tags of a clone and of the remote it works with: the       *)
(* operations of GitService that move them (src/main/git-service.ts) as the    *)
(* menus and dialogs of App.tsx ask for them, next to a terminal in the same   *)
(* working copy and to somebody else's clone.                                  *)
(*                                                                         *)
(* A ref stands for the commits reachable from it, {} for no ref; one remote,  *)
(* origin. Left out: the working tree (module WorkingCopy), rewriting beyond   *)
(* an amended tip (HistoryRewrite), a detached HEAD, other worktrees,          *)
(* sign-in, and two commands of the app at once.                               *)
(***************************************************************************)
EXTENDS Integers, FiniteSets

CONSTANTS BranchNames, TagNames, Main,
          MaxCommits,   \* bound: commits in all
          MaxCommands,  \* bound: commands in all, of anybody
          Nobody        \* no branch, no command

VARIABLES asked,       \* commands given
          made,        \* commits exist up to this one
          local, head, upstream, tracking, tags,
          remote, remoteTags,
          server,      \* commits the server has, in a branch or not
          op,          \* the command of the app under way, or the dialog that waits for an answer
          here,        \* history: commits made in this clone
          seen,        \* history: commits this clone has had
          given,       \* history: commits the person gave up by amending, rebasing or a forced deletion
          pushedOver   \* history: commits a push took out of a branch of the remote

clone == <<local, head, upstream, tags>>
far == <<remote, remoteTags, server>>
history == <<here, seen, given, pushedOver>>
vars == <<asked, made, local, head, upstream, tracking, tags, remote, remoteTags, server, op,
          here, seen, given, pushedOver>>

Hashes == 1..MaxCommits
History == SUBSET Hashes
All(refs) == UNION {refs[n] : n \in DOMAIN refs}
Idle == op = Nobody
\* was: what the ref it is about reached when it was asked for.
Op(kind, name, force, was) == [kind |-> kind, name |-> name, force |-> force, was |-> was]

-----------------------------------------------------------------------------
(* Fetching *)

\* Tags that point into what is here come along with a fetch.
Followed(got) ==
  [t \in TagNames |-> IF tags[t] = {} /\ remoteTags[t] \subseteq got THEN remoteTags[t] ELSE tags[t]]
\* What a fetch brings: track the tracking refs; new, the commits that what follows makes here.
FetchesThen(track, new) ==
  /\ tracking' = track
  /\ seen' = seen \cup All(track) \cup new
  /\ tags' = Followed(seen \cup All(track))
Fetches(track) == FetchesThen(track, {})

fetch ==
  /\ Idle /\ Fetches(remote)
  /\ UNCHANGED <<made, local, head, upstream, far, op, here, given, pushedOver>>

\* Refused: nothing to pull from, or histories that went apart and no way given to join them.
pull(mode) ==
  LET theirs == IF upstream[head] = Nobody THEN {} ELSE remote[upstream[head]]
      ours == local[head]
      apart == theirs # {} /\ ~(ours \subseteq theirs) /\ ~(theirs \subseteq ours)
      Becomes(h) == local' = [local EXCEPT ![head] = h]
  IN /\ Idle
     /\ \/ /\ ~apart \/ mode \in {"default", "ffOnly"}
           /\ Fetches(remote)
           /\ IF ours \subseteq theirs THEN Becomes(theirs) ELSE UNCHANGED local
           /\ UNCHANGED <<made, here, given>>
        \/ /\ apart /\ mode = "merge" /\ made < MaxCommits
           /\ FetchesThen(remote, {made + 1})
           /\ Becomes(ours \cup theirs \cup {made + 1})
           /\ made' = made + 1 /\ here' = here \cup {made + 1}
           /\ UNCHANGED given
        \/ LET copies == made + 1 .. made + Cardinality(ours \ theirs)
           IN /\ apart /\ mode = "rebase" /\ copies \subseteq Hashes
              /\ FetchesThen(remote, copies)
              /\ Becomes(theirs \cup copies)
              /\ made' = made + Cardinality(copies) /\ here' = here \cup copies
              /\ given' = given \cup (ours \ theirs)
     /\ UNCHANGED <<head, upstream, far, op, pushedOver>>

\* Mutant: the refspec has a leading +.
Forced(from, b) == remote[from] # {} /\ b # head
\* Git refuses a refspec without one unless the branch only moves forward, or if it is checked out.
MayFollow(from, b) == remote[from] # {} /\ b # head /\ local[b] \subseteq remote[from]
\* The tracking ref follows even when the branch may not.
fastForwardBranch(b) ==
  LET from == IF upstream[b] = Nobody THEN b ELSE upstream[b]
  IN /\ Idle /\ local[b] # {} /\ b # head /\ remote[from] # {}
     /\ Fetches([tracking EXCEPT ![from] = remote[from]])
     /\ local' = IF MayFollow(from, b) THEN [local EXCEPT ![b] = remote[from]] ELSE local
     /\ UNCHANGED <<made, head, upstream, far, op, here, given, pushedOver>>

-----------------------------------------------------------------------------
(* Pushing *)

\* Mutant: plain --force.
AnyRemote(b, force) == force \/ remote[b] \subseteq local[b]
\* --force-with-lease: the branch of the remote is still what its tracking ref says.
Accepted(b, force) == IF force THEN remote[b] = tracking[b] ELSE remote[b] \subseteq local[b]

Sends(b, force) ==
  IF Accepted(b, force)
  THEN /\ remote' = [remote EXCEPT ![b] = local[b]]
       /\ tracking' = [tracking EXCEPT ![b] = local[b]]
       /\ server' = server \cup local[b]
       /\ pushedOver' = pushedOver \cup (remote[b] \ local[b])
  ELSE UNCHANGED <<remote, tracking, server, pushedOver>>

\* git push names no branch: the one checked out, if its upstream has its name.
push(force) ==
  /\ Idle
  /\ \/ upstream[head] = head /\ Sends(head, force) /\ UNCHANGED op
     \/ /\ upstream[head] = Nobody
        /\ op' = Op("no upstream", Nobody, force, local[head])
        /\ UNCHANGED <<remote, tracking, server, pushedOver>>
  /\ UNCHANGED <<made, clone, remoteTags, here, seen, given>>
\* "has no upstream branch": the status is read for the branch, then it is pushed by name.
PushReadsStatus ==
  /\ ~Idle /\ op.kind = "no upstream"
  /\ op' = Op("push -u", head, op.force, op.was)
  /\ UNCHANGED <<made, clone, tracking, far, history>>
PushSetsUpstream ==
  /\ ~Idle /\ op.kind = "push -u"
  /\ op' = Nobody
  /\ \/ local[op.name] = {} /\ UNCHANGED <<upstream, remote, tracking, server, pushedOver>>
     \/ /\ local[op.name] # {} /\ Sends(op.name, op.force)
        /\ upstream' = IF Accepted(op.name, op.force)
                       THEN [upstream EXCEPT ![op.name] = op.name] ELSE upstream
  /\ UNCHANGED <<made, local, head, tags, remoteTags, here, seen, given>>

\* refs/for/<branch>: the server takes the commits and no branch of it moves.
pushForReview ==
  /\ Idle
  /\ server' = server \cup local[head]
  /\ UNCHANGED <<made, clone, tracking, remote, remoteTags, op, history>>

\* Confirmed by the person. No lease: the branch goes with whatever is on it by now; one that is
\* gone already costs its tracking ref.
deleteRemoteBranch(b) ==
  /\ Idle /\ tracking[b] # {}
  /\ remote' = [remote EXCEPT ![b] = {}]
  /\ tracking' = [tracking EXCEPT ![b] = {}]
  /\ UNCHANGED <<made, clone, remoteTags, server, op, history>>

-----------------------------------------------------------------------------
(* Local branches *)

createBranch(b, at) ==
  /\ Idle /\ local[b] = {} /\ at # {}
  /\ local' = [local EXCEPT ![b] = at]
  /\ upstream' = [upstream EXCEPT ![b] = Nobody]
  /\ head' = b
  /\ UNCHANGED <<made, tracking, tags, far, op, history>>
\* A branch that is only on the remote is created, tracking it.
handleCheckout(b) ==
  /\ b # head
  /\ \/ local[b] # {} /\ UNCHANGED <<local, upstream>>
     \/ /\ local[b] = {} /\ tracking[b] # {}
        /\ local' = [local EXCEPT ![b] = tracking[b]]
        /\ upstream' = [upstream EXCEPT ![b] = b]
  /\ head' = b
  /\ UNCHANGED <<made, tracking, tags, far, op, history>>
renameBranch(b, to) ==
  /\ Idle /\ local[b] # {} /\ local[to] = {}
  /\ local' = [local EXCEPT ![to] = local[b], ![b] = {}]
  /\ upstream' = [upstream EXCEPT ![to] = upstream[b], ![b] = Nobody]
  /\ head' = IF head = b THEN to ELSE head
  /\ UNCHANGED <<made, tracking, tags, far, op, history>>

\* Mutant: -D whatever was asked.
AlwaysMerged(b) == TRUE
\* git branch -d asks the upstream, or HEAD where there is none.
Merged(b) ==
  IF upstream[b] # Nobody /\ tracking[upstream[b]] # {}
  THEN local[b] \subseteq tracking[upstream[b]] ELSE local[b] \subseteq local[head]
Removes(b) == /\ local' = [local EXCEPT ![b] = {}]
              /\ upstream' = [upstream EXCEPT ![b] = Nobody]
deleteBranch(b) ==
  /\ Idle /\ local[b] # {} /\ b # head
  /\ \/ Merged(b) /\ Removes(b) /\ UNCHANGED op
     \/ /\ ~Merged(b)
        /\ op' = Op("confirm-delete-branch", b, TRUE, local[b])
        /\ UNCHANGED <<local, upstream>>
  /\ UNCHANGED <<made, head, tracking, tags, far, history>>
\* The dialog knows the name only.
ConfirmDelete(yes) ==
  /\ ~Idle /\ op.kind = "confirm-delete-branch"
  /\ op' = Nobody
  /\ \/ /\ yes /\ op.name # head /\ Removes(op.name)
        /\ given' = given \cup local[op.name]
     \/ (~yes \/ op.name = head) /\ UNCHANGED <<local, upstream, given>>
  /\ UNCHANGED <<made, head, tracking, tags, far, here, seen, pushedOver>>

commit ==
  /\ made < MaxCommits
  /\ made' = made + 1 /\ here' = here \cup {made + 1} /\ seen' = seen \cup {made + 1}
  /\ local' = [local EXCEPT ![head] = @ \cup {made + 1}]
  /\ UNCHANGED <<head, upstream, tracking, tags, far, op, given, pushedOver>>
\* The tip is the latest commit of a history.
Tip(h) == CHOOSE c \in h : \A d \in h : d <= c
amendCommit ==
  /\ Idle /\ made < MaxCommits /\ Tip(local[head]) # 1
  /\ made' = made + 1 /\ here' = here \cup {made + 1} /\ seen' = seen \cup {made + 1}
  /\ given' = given \cup {Tip(local[head])}
  /\ local' = [local EXCEPT ![head] = (@ \ {Tip(@)}) \cup {made + 1}]
  /\ UNCHANGED <<head, upstream, tracking, tags, far, op, pushedOver>>

-----------------------------------------------------------------------------
(* Tags *)

createTag(t, at) ==
  /\ Idle /\ tags[t] = {} /\ at # {}
  /\ tags' = [tags EXCEPT ![t] = at]
  /\ UNCHANGED <<made, local, head, upstream, tracking, far, op, history>>
\* At once, without asking.
deleteTag(t) ==
  /\ Idle /\ tags[t] # {}
  /\ tags' = [tags EXCEPT ![t] = {}] /\ given' = given \cup tags[t]
  /\ UNCHANGED <<made, local, head, upstream, tracking, far, op, here, seen, pushedOver>>

\* The new name first: one that is taken ends it with the old tag as it was.
renameTag(t, to) ==
  /\ Idle /\ t # to /\ tags[t] # {}
  /\ tags' = IF tags[to] = {} THEN [tags EXCEPT ![to] = tags[t]] ELSE tags
  /\ op' = IF tags[to] = {} THEN Op("renamed tag", t, FALSE, tags[t]) ELSE Nobody
  /\ UNCHANGED <<made, local, head, upstream, tracking, far, history>>
RenameDropsOld ==
  /\ ~Idle /\ op.kind = "renamed tag"
  /\ op' = Nobody /\ tags' = [tags EXCEPT ![op.name] = {}]
  /\ UNCHANGED <<made, local, head, upstream, tracking, far, history>>

\* A tag of that name at another commit is not replaced.
pushTag(t) ==
  /\ Idle /\ tags[t] # {} /\ remoteTags[t] = {}
  /\ remoteTags' = [remoteTags EXCEPT ![t] = tags[t]]
  /\ server' = server \cup tags[t]
  /\ UNCHANGED <<made, clone, tracking, remote, op, history>>
\* Nothing local is pruned either way. ls-remote first: deleting a tag that is not there would look like a success.
deleteRemoteTag(t) ==
  /\ Idle /\ tags[t] # {}
  /\ op' = IF remoteTags[t] = {} THEN Nobody ELSE Op("listed tag", t, FALSE, tags[t])
  /\ UNCHANGED <<made, clone, tracking, far, history>>
DeletesListedTag ==
  /\ ~Idle /\ op.kind = "listed tag"
  /\ op' = Nobody /\ remoteTags' = [remoteTags EXCEPT ![op.name] = {}]
  /\ UNCHANGED <<made, clone, tracking, remote, server, history>>

-----------------------------------------------------------------------------
(* Branches created through Gerrit's REST interface *)

\* At the commit the branch has here, if the server has that commit and no such branch.
createRef(b) ==
  /\ Idle /\ local[b] # {} /\ local[b] \subseteq server /\ remote[b] = {}
  /\ remote' = [remote EXCEPT ![b] = local[b]]
  /\ op' = Op("created ref", b, FALSE, local[b])
  /\ UNCHANGED <<made, clone, tracking, remoteTags, server, history>>
\* Fetched back without a +, with an upstream unless one is set; a failure is a warning.
syncCreatedGerritRef ==
  LET b == op.name IN
  /\ ~Idle /\ op.kind = "created ref"
  /\ op' = Nobody
  /\ \/ /\ remote[b] # {} /\ tracking[b] \subseteq remote[b] /\ local[b] # {}
        /\ Fetches([tracking EXCEPT ![b] = remote[b]])
        /\ upstream' = IF upstream[b] = Nobody THEN [upstream EXCEPT ![b] = b] ELSE upstream
     \/ /\ remote[b] = {} \/ ~(tracking[b] \subseteq remote[b]) \/ local[b] = {}
        /\ UNCHANGED <<tracking, tags, upstream, seen>>
  /\ UNCHANGED <<made, local, head, far, here, given, pushedOver>>

-----------------------------------------------------------------------------
(* Somebody else's clone *)

OtherPushes(b) ==
  /\ remote[b] # {} /\ made < MaxCommits
  /\ made' = made + 1
  /\ remote' = [remote EXCEPT ![b] = @ \cup {made + 1}]
  /\ server' = server \cup {made + 1}
  /\ UNCHANGED <<clone, tracking, remoteTags, op, history>>
OtherDeletes(b) ==
  /\ remote[b] # {} /\ b # Main
  /\ remote' = [remote EXCEPT ![b] = {}]
  /\ UNCHANGED <<made, clone, tracking, remoteTags, server, op, history>>

Init ==
  /\ asked = 0 /\ made = 1
  /\ local = [b \in BranchNames |-> IF b = Main THEN {1} ELSE {}]
  /\ head = Main
  /\ upstream = [b \in BranchNames |-> IF b = Main THEN Main ELSE Nobody]
  /\ tracking = local /\ remote = local
  /\ tags = [t \in TagNames |-> {}] /\ remoteTags = tags
  /\ server = {1} /\ seen = {1}
  /\ op = Nobody
  /\ here = {} /\ given = {} /\ pushedOver = {}

(* What the menus and buttons offer *)

Toolbar ==
  \/ fetch \/ pull("default") \/ push(FALSE) \/ pushForReview
  \/ \E b \in BranchNames : createBranch(b, local[head])
PullMenu == pull("ffOnly") \/ pull("rebase")
PushMenu == push(TRUE)
\* A pull that found histories that went apart asks how to join them.
DivergedPrompt == pull("merge") \/ pull("rebase")
BranchMenu(b) ==
  \/ handleCheckout(b) \/ fastForwardBranch(b) \/ deleteBranch(b) \/ deleteRemoteBranch(b)
  \/ createRef(b)
  \/ \E new \in BranchNames : renameBranch(b, new)
TagRequests(t) ==
  \/ deleteTag(t) \/ pushTag(t) \/ deleteRemoteTag(t)
  \/ \E to \in TagNames : renameTag(t, to)
TagMenu(t) == TagRequests(t) \/ \E b \in BranchNames : createBranch(b, tags[t])
\* useCommitActions: a branch or a tag at the commit that was right-clicked.
CommitMenu(at) ==
  \/ \E b \in BranchNames : createBranch(b, at)
  \/ \E t \in TagNames : createTag(t, at)
Commands ==
  \/ Toolbar \/ PullMenu \/ PushMenu \/ DivergedPrompt
  \/ \E b \in BranchNames :
       \/ BranchMenu(b) \/ OtherPushes(b) \/ OtherDeletes(b)
       \/ CommitMenu(local[b]) \/ CommitMenu(tracking[b])
  \/ \E t \in TagNames : TagMenu(t)
  \/ commit \/ amendCommit
Continues ==
  \/ PushReadsStatus \/ PushSetsUpstream
  \/ \E yes \in BOOLEAN : ConfirmDelete(yes)
  \/ RenameDropsOld \/ DeletesListedTag \/ syncCreatedGerritRef
Next == \/ asked < MaxCommands /\ asked' = asked + 1 /\ Commands
        \/ Continues /\ UNCHANGED asked

Spec == Init /\ [][Next]_vars

-----------------------------------------------------------------------------

\* A push of the app, forced or not, takes out of a branch of the remote only commits this clone
\* has fetched: what somebody else pushed since is never overwritten (docs/user-guide.md:140,
\* git-service.ts:1661-1662).
PushesOverTheKnown == pushedOver \subseteq seen

\* A commit made here is in a branch, a tracking ref or a tag, or has reached the server, unless
\* the person gave it up: fetching, pulling, fast-forwarding, renaming and plain deletions lose no
\* work (git-service.ts:1622-1625, 2264-2267, 2296-2299).
WorkIsKept ==
  here \subseteq All(local) \cup All(tracking) \cup All(tags) \cup server \cup given

\* Why these hold. What is in a ref of this clone, it has had; what the remote has or had in a branch,
\* the server has; and a tag that is renamed has its new name before it loses the old one.
RefsAreKnown ==
  /\ DOMAIN local = BranchNames /\ DOMAIN tracking = BranchNames /\ DOMAIN remote = BranchNames
  /\ DOMAIN upstream = BranchNames /\ DOMAIN tags = TagNames /\ DOMAIN remoteTags = TagNames
  /\ head \in BranchNames
  /\ \A b \in BranchNames : upstream[b] \in BranchNames \cup {Nobody}
  /\ ~Idle /\ op.kind = "push -u" => op.name \in BranchNames
  /\ All(local) \cup All(tracking) \cup All(tags) \cup pushedOver \subseteq seen
RefsAreKept ==
  /\ All(tracking) \cup All(remote) \subseteq server
  /\ ~Idle /\ op.kind = "renamed tag" => \E t \in TagNames \ {op.name} : tags[op.name] \subseteq tags[t]

\* Refuted: what the forced deletion of a branch discards was on it when the dialog said that it
\* "is not fully merged" (App.tsx:1745-1755): the dialog keeps the name only.
DiscardsWhatWasShown ==
  [][~Idle /\ op.kind = "confirm-delete-branch" /\ given' # given => given' \ given \subseteq op.was]_vars

\* Refuted: a push is of the branch it was asked for on: "try setting it automatically"
\* (git-service.ts:1669) reads which branch that is from a status taken afterwards.
PushesWhatWasAsked ==
  [][~Idle /\ op.kind = "push -u" /\ remote' # remote => op.was \subseteq remote'[op.name]]_vars

Refs == [BranchNames -> History]
TypeOK ==
  /\ made \in Hashes /\ local \in Refs /\ tracking \in Refs /\ remote \in Refs
  /\ head \in BranchNames /\ local[head] # {}
  /\ upstream \in [BranchNames -> BranchNames \cup {Nobody}]
  /\ tags \in [TagNames -> History] /\ remoteTags \in [TagNames -> History]
  /\ \/ op = Nobody
     \/ op \in [kind : {"no upstream", "push -u", "confirm-delete-branch", "renamed tag",
                        "listed tag", "created ref"},
                name : BranchNames \cup TagNames \cup {Nobody}, force : BOOLEAN, was : History]
  /\ {server, here, seen, given, pushedOver} \subseteq History
==============================================================================
