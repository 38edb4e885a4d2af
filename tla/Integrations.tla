----------------------------- MODULE Integrations -----------------------------
(***************************************************************************)
(* Accounts at hosting services: GitHub's device flow (github-service.ts), a    *)
(* service signed in to with a token (provider-service.ts), the Integrations    *)
(* panel (GitHubPanel.tsx) and the Clone dialog (CloneModal.tsx), with their    *)
(* handlers in index.ts.                                                     *)
(*                                                                         *)
(* A device flow and the token it grants have one number; so have the tokens    *)
(* of the hosted service. 0 is none. A screen is known by its mount: answers    *)
(* that come for another one change nothing on it. Encryption of the files is   *)
(* available; what the services store beyond the account is left out.           *)
(***************************************************************************)
EXTENDS Integers, FiniteSets

CONSTANTS MaxFlows, MaxPolls, MaxMounts,  \* bounds: device flows, polls under way of one, screens opened
          MaxCalls,                       \* bound: requests under way
          Tokens,                         \* tokens of the hosted service
          Folders                         \* repositories to clone, each with the folder of its name

VARIABLES octokit, file,   \* GitHub: the session's token and github-config.json
          auth, stored,    \* the hosted service: the token in memory and provider-auth.json
          flows, interval, \* device flows; the mount whose timer polls one
          mount, screen, panel, pane,
          calls, active, origin, taken

sessions == <<octokit, file, auth, stored>>
clones == <<pane, taken>>
repos == <<active, origin>>
vars == <<octokit, file, auth, stored, flows, interval, mount, screen, panel, pane, calls,
          active, origin, taken>>

Repos == {"here", "there"}
Flows == 1..MaxFlows
Blank == [user |-> 0, loading |-> FALSE, flow |-> 0, busy |-> FALSE]
NoPane == [source |-> "url", list |-> "none", loading |-> FALSE, ask |-> 0,
           pick |-> 0, name |-> 0, edited |-> FALSE, cloning |-> FALSE]
Call(kind, by, key, nth) == [kind |-> kind, by |-> by, key |-> key, nth |-> nth]
Polls(n) == {c \in calls : c.kind \in {"poll", "profile"} /\ c.key = n}

\* Only a screen that is still there shows an answer.
Shows(by, p) == panel' = IF by = mount /\ screen \in {"github", "hosted"} THEN p ELSE panel
\* The session ends even where the file cannot be removed, which is logged and nothing else.
clearToken == octokit' = 0 /\ file' \in {0, file}

-----------------------------------------------------------------------------
(* Screens *)

\* Unmounting a GitHub section stops the timer it started last.
Unmounted == [n \in Flows |-> IF interval[n] = mount /\ screen = "github" THEN 0 ELSE interval[n]]
Token(s) == IF s = "github" THEN octokit ELSE auth
Open(s) ==
  /\ s # screen /\ ~pane.cloning
  /\ interval' = Unmounted /\ screen' = s
  /\ IF s = "none" THEN UNCHANGED <<mount, panel, pane, calls>>
     ELSE /\ mount < MaxMounts /\ mount' = mount + 1
          /\ pane' = NoPane
          /\ panel' = [Blank EXCEPT !.loading = s # "clone" /\ Token(s) # 0]
          /\ calls' = IF panel'.loading THEN calls \cup {Call(s, mount + 1, Token(s), 0)} ELSE calls
  /\ UNCHANGED <<sessions, flows, repos, taken>>

\* An error of any kind signs GitHub out; the hosted service is kept.
GotUser(c, ok) ==
  /\ c.kind \in {"github", "hosted"}
  /\ calls' = calls \ {c}
  /\ Shows(c.by, [panel EXCEPT !.loading = FALSE, !.user = IF ok THEN c.key ELSE 0])
  /\ IF c.kind = "github" /\ ~ok THEN clearToken ELSE UNCHANGED <<octokit, file>>
  /\ UNCHANGED <<auth, stored, flows, interval, mount, screen, pane, repos, taken>>

-----------------------------------------------------------------------------
(* GitHub's device flow *)

startOAuthFlow ==
  /\ screen = "github" /\ ~panel.loading /\ panel.user = 0 /\ panel.flow = 0
  /\ \E n \in Flows :
       /\ flows[n] = "unasked" /\ \A i \in 1..n - 1 : flows[i] # "unasked"
       /\ flows' = [flows EXCEPT ![n] = "asked"]
       /\ calls' = calls \cup {Call("start", mount, n, 0)}
  /\ panel' = [panel EXCEPT !.loading = TRUE]
  /\ UNCHANGED <<sessions, interval, mount, screen, pane, repos, taken>>
\* The timer starts even if the section is gone, after its clean-up.
startDeviceFlow(c, ok) ==
  /\ c.kind = "start"
  /\ calls' = calls \ {c}
  /\ flows' = [flows EXCEPT ![c.key] = IF ok THEN "pending" ELSE "refused"]
  /\ interval' = IF ok THEN [interval EXCEPT ![c.key] = c.by] ELSE interval
  /\ Shows(c.by, [panel EXCEPT !.loading = FALSE, !.flow = IF ok THEN c.key ELSE 0])
  /\ UNCHANGED <<sessions, mount, screen, pane, repos, taken>>
\* The person enters the code, or turns it down, or it expires.
Decide(n, yes) ==
  /\ flows[n] = "pending"
  /\ flows' = [flows EXCEPT ![n] = IF yes THEN "granted" ELSE "refused"]
  /\ UNCHANGED <<sessions, interval, mount, screen, panel, pane, calls, repos, taken>>

startPolling(n) ==
  /\ interval[n] # 0
  /\ \E i \in 1..MaxPolls : /\ \A c \in Polls(n) : c.nth # i
                            /\ calls' = calls \cup {Call("poll", interval[n], n, i)}
  /\ UNCHANGED <<sessions, flows, interval, mount, screen, panel, clones, repos>>
\* The mutable pollingRef of a mount is that of its latest flow.
Latest(by, n) == interval[n] = by /\ \A i \in Flows : interval[i] = by => i <= n
Ends(c, user) ==
  /\ interval' = [n \in Flows |-> IF Latest(c.by, n) THEN 0 ELSE interval[n]]
  /\ Shows(c.by, [panel EXCEPT !.flow = 0, !.user = IF user = 0 THEN @ ELSE user])
pollForToken(c) ==
  /\ c.kind = "poll"
  /\ \/ /\ flows[c.key] = "granted"
        /\ flows' = [flows EXCEPT ![c.key] = "spent"]
        /\ calls' = (calls \ {c}) \cup {[c EXCEPT !.kind = "profile"]}
        /\ UNCHANGED <<interval, panel>>
     \/ /\ flows[c.key] = "pending"
        /\ calls' = calls \ {c} /\ UNCHANGED <<flows, interval, panel>>
     \/ /\ calls' = calls \ {c} /\ Ends(c, 0) /\ UNCHANGED flows
  /\ UNCHANGED <<sessions, mount, screen, pane, repos, taken>>
\* The session is there before the file is: a failed write is reported as a failed sign-in.
SignedIn(c, written) ==
  /\ c.kind = "profile"
  /\ calls' = calls \ {c}
  /\ octokit' = c.key
  /\ file' = IF written THEN c.key ELSE file
  /\ Ends(c, IF written THEN c.key ELSE 0)
  /\ UNCHANGED <<auth, stored, flows, mount, screen, pane, repos, taken>>
NotSignedIn(c) ==
  /\ c.kind = "profile"
  /\ calls' = calls \ {c} /\ Ends(c, 0)
  /\ UNCHANGED <<sessions, flows, mount, screen, pane, repos, taken>>
handleLogout ==
  /\ screen = "github" /\ panel.user # 0
  /\ clearToken /\ panel' = [panel EXCEPT !.user = 0]
  /\ UNCHANGED <<auth, stored, flows, interval, mount, screen, pane, calls, repos, taken>>

-----------------------------------------------------------------------------
(* A service with tokens *)

handleSignIn(t) ==
  /\ screen = "hosted" /\ ~panel.loading /\ panel.user = 0 /\ ~panel.busy
  /\ panel' = [panel EXCEPT !.busy = TRUE]
  /\ calls' = calls \cup {Call("signin", mount, t, 0)}
  /\ UNCHANGED <<sessions, flows, interval, mount, screen, pane, repos, taken>>
\* Validated first; memory before the file.
signIn(c, valid, written) ==
  /\ c.kind = "signin" /\ (written => valid)
  /\ calls' = calls \ {c}
  /\ Shows(c.by, [panel EXCEPT !.busy = FALSE, !.user = IF written THEN c.key ELSE @])
  /\ IF valid THEN /\ auth' = c.key
                   /\ stored' = IF written THEN c.key ELSE stored
                      ELSE UNCHANGED <<auth, stored>>
  /\ UNCHANGED <<octokit, file, flows, interval, mount, screen, pane, repos, taken>>
signOut(written) ==
  /\ screen = "hosted" /\ panel.user # 0
  /\ auth' = 0
  /\ stored' = IF written THEN 0 ELSE stored
  /\ panel' = IF written THEN [panel EXCEPT !.user = 0] ELSE panel
  /\ UNCHANGED <<octokit, file, flows, interval, mount, screen, pane, calls, repos, taken>>

-----------------------------------------------------------------------------
(* Creating a repository *)

handleSubmit ==
  /\ screen \in {"github", "hosted"} /\ panel.user # 0 /\ ~panel.busy
  /\ \A c \in calls : c.kind # "create"
  /\ panel' = [panel EXCEPT !.busy = TRUE]
  /\ calls' = calls \cup {Call("create", mount, IF active = "here" THEN 1 ELSE 2, 0)}
  /\ UNCHANGED <<sessions, flows, interval, mount, screen, pane, repos, taken>>
\* Whatever repository and dialog are there by now.
onRepoCreated(c, ok) ==
  /\ c.kind = "create"
  /\ calls' = calls \ {c}
  /\ IF ok /\ ~pane.cloning
     THEN /\ origin' = IF origin[active] = 0 THEN [origin EXCEPT ![active] = c.key] ELSE origin
          /\ screen' = "none" /\ interval' = Unmounted /\ UNCHANGED panel
     ELSE /\ Shows(c.by, [panel EXCEPT !.busy = FALSE])
          /\ UNCHANGED <<origin, screen, interval>>
  /\ UNCHANGED <<sessions, flows, mount, pane, active, taken>>
SwitchTab ==
  /\ screen = "none"
  /\ \E r \in Repos \ {active} : active' = r
  /\ UNCHANGED <<sessions, flows, interval, mount, screen, panel, clones, calls, origin>>

-----------------------------------------------------------------------------
(* Cloning *)

\* A new source makes the answers for the one before it dead.
SetSource(s) ==
  /\ screen = "clone" /\ s # pane.source /\ ~pane.cloning /\ pane.ask < 2
  /\ pane' = [pane EXCEPT !.source = s, !.ask = @ + 1, !.loading = s # "url"]
  /\ calls' = IF s = "url" THEN calls
              ELSE calls \cup {Call("account", mount, IF s = "github" THEN 1 ELSE 2, pane.ask + 1)}
  /\ UNCHANGED <<sessions, flows, interval, mount, screen, panel, repos, taken>>
\* Mutant: the effect keeps no live flag.
OnScreen(c) == c.by = mount /\ screen = "clone" /\ pane.source # "url"
Live(c) == c.by = mount /\ screen = "clone" /\ c.nth = pane.ask
Service(c) == IF c.key = 1 THEN "github" ELSE "hosted"
Offers(c, list) == pane' = IF Live(c) THEN [pane EXCEPT !.loading = FALSE, !.list = list] ELSE pane
\* The account first, which signs GitHub out when it cannot be read; then its repositories.
loadProvider(c, ok) ==
  /\ c.kind = "account"
  /\ IF ok /\ Token(Service(c)) # 0
     THEN calls' = (calls \ {c}) \cup {[c EXCEPT !.kind = "repos"]} /\ UNCHANGED pane
     ELSE calls' = calls \ {c} /\ Offers(c, "none")
  /\ IF Service(c) = "github" /\ ~ok /\ octokit # 0 THEN clearToken ELSE UNCHANGED <<octokit, file>>
  /\ UNCHANGED <<auth, stored, flows, interval, mount, screen, panel, repos, taken>>
listRepos(c, ok) ==
  /\ c.kind = "repos" /\ calls' = calls \ {c}
  /\ Offers(c, IF ok /\ Token(Service(c)) # 0 THEN Service(c) ELSE "none")
  /\ UNCHANGED <<sessions, flows, interval, mount, screen, panel, repos, taken>>

\* A pick names the folder; a URL does unless the name was edited.
Pick(r) ==
  /\ screen = "clone" /\ ~pane.cloning
  /\ \/ pane.source = "url" /\ pane' = [pane EXCEPT !.pick = r, !.name = IF pane.edited THEN @ ELSE r]
     \/ /\ pane.source # "url" /\ ~pane.loading /\ pane.list # "none"
        /\ pane' = [pane EXCEPT !.pick = r, !.name = r, !.edited = FALSE]
  /\ UNCHANGED <<sessions, flows, interval, mount, screen, panel, calls, repos, taken>>
EditName(r) ==
  /\ screen = "clone" /\ ~pane.cloning
  /\ pane' = [pane EXCEPT !.name = r, !.edited = TRUE]
  /\ UNCHANGED <<sessions, flows, interval, mount, screen, panel, calls, repos, taken>>
handleClone ==
  /\ screen = "clone" /\ ~pane.cloning /\ pane.pick # 0
  /\ pane' = [pane EXCEPT !.cloning = TRUE]
  /\ UNCHANGED <<sessions, flows, interval, mount, screen, panel, calls, repos, taken>>
clone(ok) ==
  /\ pane.cloning /\ (ok => pane.name \notin taken)
  /\ pane' = [pane EXCEPT !.cloning = FALSE]
  /\ IF ok THEN taken' = taken \cup {pane.name} /\ screen' = "none" ELSE UNCHANGED <<taken, screen>>
  /\ UNCHANGED <<sessions, flows, interval, mount, panel, calls, repos>>

\* Both services read their files again.
Restart ==
  /\ octokit' = file /\ auth' = stored
  /\ screen' = "none" /\ panel' = Blank /\ pane' = NoPane
  /\ calls' = {} /\ interval' = [n \in Flows |-> 0]
  /\ UNCHANGED <<file, stored, flows, mount, repos, taken>>

Init ==
  /\ octokit = 0 /\ file = 0 /\ auth = 0 /\ stored = 0
  /\ flows = [n \in Flows |-> "unasked"] /\ interval = [n \in Flows |-> 0]
  /\ mount = 0 /\ screen = "none" /\ panel = Blank /\ pane = NoPane /\ calls = {}
  /\ active = "here" /\ origin = [r \in Repos |-> 0] /\ taken = {}

\* What the main process answers.
Answers(c, ok) ==
  \/ pollForToken(c) \/ GotUser(c, ok) \/ startDeviceFlow(c, ok)
  \/ onRepoCreated(c, ok) \/ loadProvider(c, ok) \/ listRepos(c, ok)
  \/ \E written \in BOOLEAN : signIn(c, ok, written)
Moves ==
  \/ \E s \in {"none", "github", "hosted", "clone"} : Open(s)
  \/ startOAuthFlow \/ handleLogout \/ handleSubmit \/ SwitchTab \/ handleClone \/ Restart
  \/ \E n \in Flows : startPolling(n) \/ \E yes \in BOOLEAN : Decide(n, yes)
  \/ \E t \in Tokens : handleSignIn(t)
  \/ \E r \in Folders : Pick(r) \/ EditName(r)
  \/ \E s \in {"url", "github", "hosted"} : SetSource(s)
  \/ \E ok \in BOOLEAN : signOut(ok) \/ clone(ok)
  \/ \E c \in calls : NotSignedIn(c) \/ \E ok \in BOOLEAN : SignedIn(c, ok) \/ Answers(c, ok)
Next == Moves /\ Cardinality(calls') <= MaxCalls

Spec == Init /\ [][Next]_vars

-----------------------------------------------------------------------------

\* The repositories on offer are those of the service that is selected, however often services are
\* selected while the answers for earlier ones, each of two requests, are on their way, and whatever
\* sign-ins, sign-outs and restarts come between (CloneModal.tsx:231-242).
ListIsOfItsSource ==
  screen = "clone" /\ ~pane.loading /\ pane.list # "none" /\ pane.source # "url"
    => pane.list = pane.source

\* Refuted: the account the app shows is the one its git commands use and a restart returns to
\* ("shared by every GitService", index.ts:68-80, github-service.ts:70-84): a file that could not be
\* removed or written (github-service.ts:59-68) is read by both.
OneAccount == octokit = file /\ auth = stored

\* Refuted: what ends a sign-in is an answer of its own flow (GitHubPanel.tsx:211-212 "ends the
\* flow"): a late poll of an earlier flow of the same section clears the timer of the next one.
EndsItsOwnFlow ==
  [][\A n \in Flows : interval[n] # 0 /\ interval'[n] = 0 /\ mount' = mount /\ screen' = screen
       => \E c \in calls \ calls' : c.key = n]_vars

\* Refuted: a sign-in is completed only while its code is on the screen (the section stops polling
\* when it is left, GitHubPanel.tsx:171-174): a poll under way, or a timer started after the
\* section was left, signs in later, also after a disconnection.
SignsInOnScreen ==
  [][file' # file /\ file' # 0 => screen = "github" /\ panel.flow = file']_vars

\* Refuted: the new repository becomes the remote of the one it was created from ("your current
\* workspace", GitHubPanel.tsx:107): the tab may have changed meanwhile.
RemoteOfTheAsker ==
  origin["here"] \in {0, 1} /\ origin["there"] \in {0, 2}

TypeOK ==
  /\ {octokit, file} \subseteq 0..MaxFlows /\ {auth, stored} \subseteq Tokens \cup {0}
  /\ flows \in [Flows -> {"unasked", "asked", "pending", "granted", "refused", "spent"}]
  /\ interval \in [Flows -> 0..MaxMounts] /\ mount \in 0..MaxMounts
  /\ screen \in {"none", "github", "hosted", "clone"}
  /\ panel \in [user : Nat, loading : BOOLEAN, flow : 0..MaxFlows, busy : BOOLEAN]
  /\ pane.source \in {"url", "github", "hosted"} /\ pane.ask \in 0..2
  /\ \A c \in calls : c.by \in 1..MaxMounts
  /\ active \in Repos /\ taken \subseteq Folders \cup {0}
=============================================================================
