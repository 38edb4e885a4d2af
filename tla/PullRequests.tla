---------------------------- MODULE PullRequests -----------------------------
(***************************************************************************)
(* Reviewing a pull request on the phone: ForgeHost (src/main/forge/          *)
(* forge-host.ts), which answers from caches of what the forge said, and the    *)
(* screens of the companion app (src/apps/companion/src/screens). Commits are   *)
(* pushed and reviews submitted while requests are under way.                  *)
(*                                                                         *)
(* One pull request, open and not a draft, whose reviewer is not asked for by   *)
(* name; a push makes a head that was not there before. Left out: the checks    *)
(* and bots of a head (a cache of the same kind), comments, commits, the order   *)
(* of the list, several forges, large files, which load when tapped, and the     *)
(* second list of files that PullScreen keeps for itself.                      *)
(***************************************************************************)
EXTENDS Integers, Sequences, SequencesExt, FiniteSets

CONSTANTS Files,
          Ids,           \* bound: requests of the phone under way
          MaxAsked,      \* bound: requests in all
          MaxVersions,   \* bound: what happens to the pull request, and its start
          DIFF_CACHE_ENTRIES, DIFF_CACHE_BYTES,
          Bytes,         \* the length of the diff of each head
          None

VARIABLES log,        \* the pull request: [head, patch, reviewed] after each change
          pulls,      \* what is cached of it: the version that was read, read just now
          reviews,    \* reviews cached: for a version, as of another, read just now
          diffs,      \* diffs cached, the one used last at the end: [head, of]
          diffBytes,
          inflight,   \* diffs being fetched, by head
          calls, asked, \* requests of the phone, and how many there were
          list,       \* PullFilesScreen: the files and their head
          slots,      \* the diff of each file
          stale,      \* the bar that offers to load the new commits
          viewed,     \* ticks on the screen
          stored      \* ticks in the store

forge == <<log>>
caches == <<pulls, reviews, diffs, diffBytes, inflight>>
screen == <<list, slots, stale, viewed, stored>>
vars == <<log, pulls, reviews, diffs, diffBytes, inflight, calls, asked, list, slots, stale, viewed, stored>>

Version == Len(log)
HeadOf(v) == log[v].head
\* The patches of a head, by its first version.
PatchOf(h) == log[CHOOSE v \in 1..Version : HeadOf(v) = h].patch
Hashes(l) == {<<f, l.patch[f]>> : f \in Files}
needsReview(pull, seen) == HeadOf(pull) \notin log[seen].reviewed

Answered(c, a) == [c EXCEPT !.stage = "answered", !.answer = a, !.got = None, !.pull = None]
Answer(i, a) == calls' = [calls EXCEPT ![i] = Answered(@, a)]
Stale == [error |-> "stale"]
Failed == [error |-> "failed"]
Loading == [waits |-> TRUE]
\* listFiles and fileDiff, out of the diff of a head.
Slices(c, entry) ==
  IF c.kind = "files" THEN [head |-> entry.head, patch |-> PatchOf(entry.of)]
  ELSE [head |-> entry.head, diff |-> PatchOf(entry.of)[c.path]]
Row(pull, seen) == [head |-> HeadOf(pull), needs |-> needsReview(pull, seen)]

-----------------------------------------------------------------------------
(* The host. A request awaits the forge in the stages search, pull and reviews, *)
(* and a fetch under way in the stage wait.                                   *)

\* Mutant: what the forge serves is filed under the head that was asked for.
NeverChanged(after, head) == TRUE
\* The diff endpoint serves the head of the moment: it must not have moved.
Unmoved(after, head) == HeadOf(after) = head

Running(h) == {j \in inflight : j.head = h}

diffFor(i, h) ==
  \/ \E n \in DOMAIN diffs :
       /\ diffs[n].head = h
       /\ diffs' = Append(RemoveAt(diffs, n), diffs[n])
       /\ Answer(i, Slices(calls[i], diffs[n]))
       /\ UNCHANGED inflight
  \/ /\ \A n \in DOMAIN diffs : diffs[n].head # h
     /\ calls' = [calls EXCEPT ![i].stage = "wait", ![i].head = h, ![i].got = None]
     /\ inflight' = inflight \cup
          (IF Running(h) # {} THEN {}
           ELSE {[head |-> h, by |-> i, stage |-> "diff", of |-> None, got |-> None]})
     /\ UNCHANGED diffs

\* Mutant: the reviews of a head are cached under the head alone.
SameHead(r, pull) == HeadOf(r.pull) = HeadOf(pull)
\* The key holds the head and updated_at, which a review changes.
SameKey(r, pull) == r.pull = pull
reviewsFor(i, pull) ==
  LET Cached == {r \in reviews : SameKey(r, pull) /\ r.fresh}
  IN IF calls[i].kind = "detail" \/ Cached = {}
     THEN calls' = [calls EXCEPT ![i].stage = "reviews", ![i].pull = pull, ![i].got = None]
     ELSE \E r \in Cached : Answer(i, Row(pull, r.seen))

\* With the pull request in hand: the row of the inbox, the list, or one file.
WithPull(i, pull) ==
  CASE calls[i].kind \in {"inbox", "detail"} ->
         reviewsFor(i, pull) /\ UNCHANGED <<diffs, inflight>>
    [] calls[i].kind = "files" -> diffFor(i, HeadOf(pull))
    [] calls[i].kind = "diff" /\ calls[i].head = HeadOf(pull) -> diffFor(i, HeadOf(pull))
    [] OTHER -> Answer(i, Stale) /\ UNCHANGED <<diffs, inflight>>

\* listPulls, getPull, listFiles, fileDiff; the last believes the head of ten seconds ago.
Start(i) ==
  /\ calls[i] # None /\ calls[i].stage = "sent"
  /\ IF calls[i].kind = "diff" /\ pulls # None /\ pulls.fresh
     THEN WithPull(i, pulls.version)
     ELSE /\ calls' = [calls EXCEPT ![i].stage = IF calls[i].kind = "inbox" THEN "search" ELSE "pull"]
          /\ UNCHANGED <<diffs, inflight>>
  /\ UNCHANGED <<forge, pulls, reviews, diffBytes, asked, screen>>

\* The forge says what is so at that moment; later its answer arrives.
Serve(i) ==
  /\ calls[i] # None /\ calls[i].stage \in {"search", "pull", "reviews"} /\ calls[i].got = None
  /\ calls' = [calls EXCEPT ![i].got = Version]
  /\ UNCHANGED <<forge, caches, asked, screen>>
\* pullFor: the hit of the search tells whether the cached one is current.
Searched(i) ==
  /\ calls[i] # None /\ calls[i].stage = "search" /\ calls[i].got # None
  /\ IF pulls # None /\ pulls.version = calls[i].got
     THEN reviewsFor(i, pulls.version)
     ELSE calls' = [calls EXCEPT ![i].stage = "pull", ![i].got = None]
  /\ UNCHANGED <<forge, caches, asked, screen>>
\* freshPull.
Pulled(i) ==
  /\ calls[i] # None /\ calls[i].stage = "pull" /\ calls[i].got # None
  /\ pulls' = [version |-> calls[i].got, fresh |-> TRUE]
  /\ WithPull(i, calls[i].got)
  /\ UNCHANGED <<forge, reviews, diffBytes, asked, screen>>
Reviewed(i) ==
  /\ calls[i] # None /\ calls[i].stage = "reviews" /\ calls[i].got # None
  /\ reviews' = {r \in reviews : ~SameKey(r, calls[i].pull)}
                  \cup {[pull |-> calls[i].pull, seen |-> calls[i].got, fresh |-> TRUE]}
  /\ Answer(i, Row(calls[i].pull, calls[i].got))
  /\ UNCHANGED <<forge, pulls, diffs, diffBytes, inflight, asked, screen>>
ForgeFails(i) ==
  /\ calls[i] # None /\ calls[i].stage \in {"search", "pull", "reviews"} /\ calls[i].got # None
  /\ Answer(i, Failed)
  /\ UNCHANGED <<forge, caches, asked, screen>>

\* The fetch of a diff; once it is there the head is asked for again, and nothing else happens.
ServeDiff(j) ==
  /\ j.stage = "diff"
  /\ inflight' = (inflight \ {j}) \cup {[j EXCEPT !.stage = "check", !.of = HeadOf(Version)]}
  /\ UNCHANGED <<forge, pulls, reviews, diffs, diffBytes, calls, asked, screen>>
ServeHead(j) ==
  /\ j.stage = "check" /\ j.got = None
  /\ inflight' = (inflight \ {j}) \cup {[j EXCEPT !.got = Version]}
  /\ UNCHANGED <<forge, pulls, reviews, diffs, diffBytes, calls, asked, screen>>
\* Everyone who waits for the head gets the same.
Tell(j, A(_)) ==
  calls' = [i \in Ids |->
    IF calls[i] # None /\ calls[i].stage = "wait" /\ calls[i].head = j.head
    THEN Answered(calls[i], A(calls[i])) ELSE calls[i]]

\* diffs.set, and its bytes are counted; then the oldest go.
Stored(e) ==
  IF \E n \in DOMAIN diffs : diffs[n].head = e.head
  THEN [n \in DOMAIN diffs |-> IF diffs[n].head = e.head THEN e ELSE diffs[n]]
  ELSE Append(diffs, e)
Total(s) ==
  LET sum[n \in 0..Len(s)] == IF n = 0 THEN 0 ELSE sum[n - 1] + Bytes[s[n].of]
  IN sum[Len(s)]
Fits(s, counted) ==
  Len(s) <= DIFF_CACHE_ENTRIES /\ (counted <= DIFF_CACHE_BYTES \/ Len(s) <= 1)
Keep(e) ==
  LET s == Stored(e)
      counted == diffBytes + Bytes[e.of]
      Rest(n) == SubSeq(s, n + 1, Len(s))
      Left(n) == counted - Total(SubSeq(s, 1, n))
  IN \E n \in 0..(Len(s) - 1) :
       /\ Fits(Rest(n), Left(n)) /\ \A k \in 0..(n - 1) : ~Fits(Rest(k), Left(k))
       /\ diffs' = Rest(n) /\ diffBytes' = Left(n)
Checked(j) ==
  /\ j.stage = "check" /\ j.got # None
  /\ pulls' = [version |-> j.got, fresh |-> TRUE]
  /\ IF Unmoved(j.got, j.head)
     THEN LET e == [head |-> j.head, of |-> j.of]
          IN Keep(e) /\ Tell(j, LAMBDA c : Slices(c, e))
     ELSE Tell(j, LAMBDA c : Stale) /\ UNCHANGED <<diffs, diffBytes>>
  /\ inflight' = inflight \ {j}
  /\ UNCHANGED <<forge, reviews, asked, screen>>
DiffFails(j) ==
  /\ j.stage = "check"
  /\ inflight' = inflight \ {j} /\ Tell(j, LAMBDA c : Failed)
  /\ UNCHANGED <<forge, pulls, reviews, diffs, diffBytes, asked, screen>>

\* HEAD_TTL_MS and STATUS_TTL_MS.
TenSeconds ==
  /\ pulls # None /\ pulls.fresh /\ pulls' = [pulls EXCEPT !.fresh = FALSE]
  /\ UNCHANGED <<forge, reviews, diffs, diffBytes, inflight, calls, asked, screen>>
ThirtySeconds(r) ==
  /\ r.fresh /\ reviews' = (reviews \ {r}) \cup {[r EXCEPT !.fresh = FALSE]}
  /\ UNCHANGED <<forge, pulls, diffs, diffBytes, inflight, calls, asked, screen>>

-----------------------------------------------------------------------------
(* The phone.                                                              *)

Send(kind, path, head) ==
  \E i \in Ids :
    /\ calls[i] = None /\ asked < MaxAsked /\ asked' = asked + 1
    /\ calls' = [calls EXCEPT ![i] =
         [kind |-> kind, path |-> path, head |-> head, since |-> Version,
          read |-> IF kind = "files" THEN stored ELSE {},
          stage |-> "sent", got |-> None, pull |-> None, answer |-> None]]

\* PullsScreen and PullScreen.
Ask(kind) == Send(kind, None, None) /\ UNCHANGED <<forge, caches, screen>>
\* loadList: on opening, to try again, and from the bar.
loadList ==
  /\ IF list = None THEN \A i \in Ids : calls[i] # None => calls[i].kind # "files" ELSE stale
  /\ Send("files", None, None)
  /\ UNCHANGED <<forge, caches, screen>>
\* The page on screen and its neighbours.
Fetch(f) ==
  /\ list # None /\ ~stale /\ slots[f] = None
  /\ slots' = [slots EXCEPT ![f] = Loading]
  /\ Send("diff", f, list.head)
  /\ UNCHANGED <<forge, caches, list, stale, viewed, stored>>

Receive(i) ==
  /\ calls[i] # None /\ calls[i].stage = "answered"
  /\ LET c == calls[i]
         failed == "error" \in DOMAIN c.answer
     IN CASE c.kind = "files" /\ ~failed ->
               /\ list' = c.answer /\ slots' = [f \in Files |-> None] /\ stale' = FALSE
               /\ viewed' = c.read /\ UNCHANGED stored
          [] c.kind = "diff" /\ c.answer = Stale ->
               /\ stale' = TRUE /\ slots' = [slots EXCEPT ![c.path] = None]
               /\ UNCHANGED <<list, viewed, stored>>
          [] c.kind = "diff" /\ c.answer # Stale ->
               /\ slots' = [slots EXCEPT ![c.path] = c.answer]
               /\ UNCHANGED <<list, stale, viewed, stored>>
          [] OTHER -> UNCHANGED screen
  /\ calls' = [calls EXCEPT ![i] = None]
  /\ UNCHANGED <<forge, caches, asked>>
\* The answer does not arrive within its minute.
Lose(i) ==
  /\ calls[i] # None /\ calls[i].stage = "answered" /\ calls[i].answer # Failed
  /\ Answer(i, Failed)
  /\ UNCHANGED <<forge, caches, asked, screen>>

\* toggle: the ticks of the files that are there, and one more or less.
setSeen(f, on) ==
  /\ list # None
  /\ viewed' = LET here == viewed \cap Hashes(list)
                   tick == {<<f, list.patch[f]>>}
               IN IF on THEN here \cup tick ELSE here \ tick
  /\ viewed' # viewed /\ stored' = viewed'
  /\ UNCHANGED <<forge, caches, calls, asked, list, slots, stale>>

-----------------------------------------------------------------------------
(* The forge: a push changes some files, a review is of the head.            *)

Push(changed) ==
  /\ Version < MaxVersions
  /\ log' = Append(log, [head |-> HeadOf(Version) + 1, reviewed |-> log[Version].reviewed,
                         patch |-> [f \in Files |-> log[Version].patch[f]
                                                      + (IF f \in changed THEN 1 ELSE 0)]])
  /\ UNCHANGED <<caches, calls, asked, screen>>
Review ==
  /\ Version < MaxVersions
  /\ log' = Append(log, [log[Version] EXCEPT !.reviewed = @ \cup {HeadOf(Version)}])
  /\ UNCHANGED <<caches, calls, asked, screen>>

Init ==
  /\ log = <<[head |-> 1, patch |-> [f \in Files |-> 1], reviewed |-> {}]>>
  /\ pulls = None /\ reviews = {} /\ diffs = <<>> /\ diffBytes = 0 /\ inflight = {}
  /\ calls = [i \in Ids |-> None]
  /\ list = None /\ slots = [f \in Files |-> None] /\ stale = FALSE /\ viewed = {} /\ stored = {} /\ asked = 0

HostNext ==
  \/ \E i \in Ids : Start(i) \/ Serve(i) \/ Searched(i) \/ Pulled(i) \/ Reviewed(i) \/ ForgeFails(i)
  \/ \E j \in inflight : ServeDiff(j) \/ ServeHead(j) \/ Checked(j) \/ DiffFails(j)
  \/ TenSeconds \/ \E r \in reviews : ThirtySeconds(r)
PhoneNext ==
  \/ \E kind \in {"inbox", "detail"} : Ask(kind)
  \/ loadList \/ \E f \in Files : Fetch(f)
  \/ \E i \in Ids : Receive(i) \/ Lose(i)
  \/ \E f \in Files, on \in BOOLEAN : setSeen(f, on)
ForgeNext == Review \/ \E changed \in SUBSET Files \ {{}} : Push(changed)
Next == HostNext \/ PhoneNext \/ ForgeNext
Spec == Init /\ [][Next]_vars

-----------------------------------------------------------------------------
(* Properties                                                              *)

\* However pushes, fetches and evictions interleave: every diff is cached under its own head ("or
\* we'd cache B under A's key", forge-host.ts:295), once, its bytes are counted once, and the
\* cache stays within its limits.
CacheIsSound ==
  /\ \A n \in DOMAIN diffs : diffs[n].of = diffs[n].head
  /\ \A n, k \in DOMAIN diffs : diffs[n].head = diffs[k].head => n = k
  /\ diffBytes = Total(diffs) /\ Fits(diffs, diffBytes)

\* What the host answers was so: a diff is the one of the head on the phone, and the state of the
\* pull request in an inbox or on its page is one it was in at some moment since it was asked for.
AnswersWereTrue ==
  \A i \in Ids :
    (calls[i] # None /\ calls[i].stage = "answered" /\ "error" \notin DOMAIN calls[i].answer) =>
      LET c == calls[i]
      IN CASE c.kind = "diff" -> /\ c.answer.head = c.head
                                 /\ c.answer.diff = PatchOf(c.head)[c.path]
           [] c.kind = "files" -> /\ \E v \in c.since..Version : HeadOf(v) = c.answer.head
                                  /\ c.answer.patch = PatchOf(c.answer.head)
           [] OTHER -> \E v \in c.since..Version : c.answer = Row(v, v)

\* Refuted: "a push mid-review shows a reload bar instead of mixing" (PullFilesScreen.tsx:20). A
\* diff of the old head that arrives after the reload goes into the new list.
OneHeadOnScreen ==
  list # None => \A f \in Files : (slots[f] # None /\ slots[f] # Loading /\ slots[f] # Failed)
                                    => slots[f].head = list.head

\* Refuted: "This pull request has new commits" (PullFilesScreen.tsx:97). An older answer of the
\* forge may be cached last; for ten seconds the host then calls the newer head stale.
BarMeansNewCommits == (stale /\ list # None) => HeadOf(Version) # list.head

\* Refuted: "files you viewed that didn't change stay ticked" (PullFilesScreen.tsx:97). A tick made
\* while the reload is under way is taken off again, and the next one is stored without it.
TicksStay ==
  [][\A f \in Files : (list # None /\ list' # None /\ list' # list
                        /\ list.patch[f] = list'.patch[f] /\ <<f, list.patch[f]>> \in viewed)
                       => <<f, list.patch[f]>> \in viewed']_vars
=============================================================================
