--------------------------- MODULE ApplicationProofs ---------------------------
(***************************************************************************)
(* Proofs about the parts around the repository: safety properties that      *)
(* MCApplication checks, for every value of its constants. A step of           *)
(* MCApplication is a step of one component and leaves the others alone, so   *)
(* each section shows that the component's own steps keep its invariant and   *)
(* ends in a theorem of SideBySide.                                           *)
(***************************************************************************)
EXTENDS MCApplication, TLAPS, FiniteSetTheorems, SequenceTheorems

----------------------------------------------------------------------------
\* The accounts.

AccountsCall(c) == c = [kind |-> c.kind, by |-> c.by, key |-> c.key, nth |-> c.nth]
AccountsPane(p) ==
  p = [source |-> p.source, list |-> p.list, loading |-> p.loading, ask |-> p.ask, pick |-> p.pick, name |-> p.name,
       edited |-> p.edited, cloning |-> p.cloning]
\* The requests for a list are of this pane or an earlier one, and of it the latest is for the service selected.
AccountsInv ==
  /\ mount \in Nat /\ AccountsPane(clonePane) /\ clonePane.ask \in Nat
  /\ \A c \in waiting :
       /\ AccountsCall(c)
       /\ c.kind \in {"account", "repos"} =>
            /\ {c.by, c.nth} \subseteq Nat /\ c.by <= mount
            /\ c.by = mount => c.nth <= clonePane.ask
            /\ c.by = mount /\ c.nth = clonePane.ask => Accounts!Service(c) = clonePane.source
  /\ Accounts!ListIsOfItsSource

\* What keeps the pane's service and list, and asks for none.
LEMMA AccountsKept ==
  ASSUME AccountsInv, mount' = mount, AccountsPane(clonePane'), screen' = screen \/ screen' # "clone",
         clonePane'.source = clonePane.source, clonePane'.list = clonePane.list,
         clonePane'.loading = clonePane.loading, clonePane'.ask = clonePane.ask,
         \A c \in waiting' : c \in waiting \/ (AccountsCall(c) /\ c.kind \notin {"account", "repos"})
  PROVE  AccountsInv'
<1>1. /\ mount' \in Nat /\ clonePane'.ask \in Nat
      /\ \A c \in waiting' :
           /\ AccountsCall(c)
           /\ c.kind \in {"account", "repos"} =>
                /\ {c.by, c.nth} \subseteq Nat /\ c.by <= mount'
                /\ c.by = mount' => c.nth <= clonePane'.ask
                /\ c.by = mount' /\ c.nth = clonePane'.ask => Accounts!Service(c) = clonePane'.source
  BY DEF AccountsInv
<1>2. Accounts!ListIsOfItsSource'
  BY DEF AccountsInv, Accounts!ListIsOfItsSource
<1>3. \A c : (AccountsCall(c) <=> AccountsCall(c)') /\ Accounts!Service(c)' = Accounts!Service(c)
  BY DEF AccountsCall, Accounts!Service
<1>4. AccountsPane(clonePane)'
  BY DEF AccountsPane
<1> QED
  BY <1>1, <1>2, <1>3, <1>4 DEF AccountsInv

\* The same where the pane does not change.
LEMMA AccountsRest ==
  ASSUME AccountsInv, UNCHANGED <<mount, clonePane>>, screen' = screen \/ screen' # "clone",
         \A c \in waiting' : c \in waiting \/ (AccountsCall(c) /\ c.kind \notin {"account", "repos"})
  PROVE  AccountsInv'
<1>1. AccountsPane(clonePane')
  BY DEF AccountsInv
<1> QED
  BY <1>1, AccountsKept

\* A call for something else.
LEMMA AccountsOther ==
  ASSUME NEW kind, kind \notin {"account", "repos"}, NEW by, NEW key, NEW nth
  PROVE  /\ AccountsCall(Accounts!Call(kind, by, key, nth))
         /\ Accounts!Call(kind, by, key, nth).kind \notin {"account", "repos"}
  BY DEF AccountsCall, Accounts!Call

\* An answer that no pane waits for changes none; one that is waited for is of the service selected.
LEMMA AccountsOffers ==
  ASSUME AccountsInv, NEW c \in waiting, c.kind \in {"account", "repos"}, UNCHANGED <<mount, screen>>,
         waiting' = waiting \ {c}, NEW kinds \in {Accounts!Service(c), "none"}, Accounts!Offers(c, kinds)
  PROVE  AccountsInv'
<1>1. CASE ~Accounts!Live(c)
  <2>1. UNCHANGED clonePane
    BY <1>1 DEF Accounts!Offers
  <2> QED
    BY <2>1, AccountsRest
<1>2. CASE Accounts!Live(c)
  <2>1. c.by = mount /\ c.nth = clonePane.ask
    BY <1>2 DEF Accounts!Live
  <2>2. Accounts!Service(c) = clonePane.source
    BY <2>1 DEF AccountsInv
  <2>3. clonePane' = [clonePane EXCEPT !.loading = FALSE, !.list = kinds]
    BY <1>2 DEF Accounts!Offers
  <2>4. /\ AccountsPane(clonePane') /\ clonePane'.source = clonePane.source /\ clonePane'.list = kinds
        /\ clonePane'.ask = clonePane.ask
    BY <2>3 DEF AccountsInv, AccountsPane
  <2>5. \A x : (AccountsCall(x) <=> AccountsCall(x)') /\ Accounts!Service(x)' = Accounts!Service(x)
    BY DEF AccountsCall, Accounts!Service
  <2>6. Accounts!ListIsOfItsSource'
    BY <2>2, <2>4 DEF Accounts!ListIsOfItsSource
  <2>7. AccountsPane(clonePane)'
    BY <2>4 DEF AccountsPane
  <2> QED
    BY <2>4, <2>5, <2>6, <2>7 DEF AccountsInv
<1> QED
  BY <1>1, <1>2

\* A service is selected: the requests for the ones before it count no more.
LEMMA AccountsSelect ==
  ASSUME AccountsInv, NEW s \in {"url", "github", "hosted"}, Accounts!SetSource(s)
  PROVE  AccountsInv'
<1> DEFINE new == Accounts!Call("account", mount, IF s = "github" THEN 1 ELSE 2, clonePane.ask + 1)
<1>1. /\ clonePane' = [clonePane EXCEPT !.source = s, !.ask = @ + 1, !.loading = s # "url"]
      /\ UNCHANGED <<mount, screen>> /\ waiting' = IF s = "url" THEN waiting ELSE waiting \cup {new}
  BY DEF Accounts!SetSource
<1>2. /\ AccountsPane(clonePane') /\ clonePane'.source = s /\ clonePane'.ask = clonePane.ask + 1
      /\ clonePane'.loading = (s # "url") /\ mount \in Nat /\ clonePane.ask \in Nat
  BY <1>1 DEF AccountsInv, AccountsPane
<1>3. /\ AccountsCall(new) /\ new.by = mount /\ new.nth = clonePane.ask + 1
      /\ s # "url" => Accounts!Service(new) = s
  BY DEF AccountsCall, Accounts!Call, Accounts!Service
<1> HIDE DEF new
<1>4. \A x : (AccountsCall(x) <=> AccountsCall(x)') /\ Accounts!Service(x)' = Accounts!Service(x)
  BY DEF AccountsCall, Accounts!Service
<1>5. ASSUME NEW c \in waiting'
      PROVE  /\ AccountsCall(c)
             /\ c.kind \in {"account", "repos"} =>
                  /\ {c.by, c.nth} \subseteq Nat /\ c.by <= mount'
                  /\ c.by = mount' => c.nth <= clonePane'.ask
                  /\ c.by = mount' /\ c.nth = clonePane'.ask => Accounts!Service(c) = clonePane'.source
  <2>1. CASE c \in waiting
    BY <1>1, <1>2, <2>1 DEF AccountsInv
  <2>2. CASE c = new /\ s # "url"
    BY <1>1, <1>2, <1>3, <2>2
  <2> QED
    BY <1>1, <2>1, <2>2
<1>6. Accounts!ListIsOfItsSource'
  BY <1>2 DEF Accounts!ListIsOfItsSource
<1>7. AccountsPane(clonePane)'
  BY <1>2 DEF AccountsPane
<1> QED
  BY <1>1, <1>2, <1>4, <1>5, <1>6, <1>7 DEF AccountsInv

\* A new screen: every request under way is of an earlier one.
LEMMA AccountsOpen ==
  ASSUME AccountsInv, NEW s \in {"none", "github", "hosted", "clone"}, Accounts!Open(s)
  PROVE  AccountsInv'
<1>1. CASE s = "none"
  <2>1. UNCHANGED <<mount, clonePane, waiting>> /\ screen' = "none"
    BY <1>1 DEF Accounts!Open
  <2> QED
    BY <2>1, AccountsRest
<1>2. CASE s # "none"
  <2>1. /\ mount' = mount + 1 /\ clonePane' = Accounts!NoPane /\ screen' = s
        /\ \/ waiting' = waiting
           \/ waiting' = waiting \cup {Accounts!Call(s, mount + 1, Accounts!Token(s), 0)} /\ s # "clone"
    BY <1>2 DEF Accounts!Open, Accounts!Blank
  <2>2. \A x : (AccountsCall(x) <=> AccountsCall(x)') /\ Accounts!Service(x)' = Accounts!Service(x)
    BY DEF AccountsCall, Accounts!Service
  <2>3. AccountsPane(Accounts!NoPane) /\ Accounts!NoPane.ask = 0 /\ Accounts!NoPane.source = "url"
    BY DEF AccountsPane, Accounts!NoPane
  <2>4. mount \in Nat
    BY DEF AccountsInv
  <2>5. ASSUME NEW c \in waiting'
        PROVE  AccountsCall(c) /\ (c.kind \in {"account", "repos"} => {c.by, c.nth} \subseteq Nat /\ c.by < mount')
    <3>1. CASE c \in waiting
      BY <2>1, <2>4, <3>1 DEF AccountsInv
    <3>2. CASE c = Accounts!Call(s, mount + 1, Accounts!Token(s), 0) /\ s # "clone"
      BY <3>2, AccountsOther
    <3> QED
      BY <2>1, <3>1, <3>2
  <2>6. Accounts!ListIsOfItsSource'
    BY <2>1, <2>3 DEF Accounts!ListIsOfItsSource
  <2>7. AccountsPane(clonePane)'
    BY <2>1, <2>3 DEF AccountsPane
  <2> HIDE DEF Accounts!NoPane
  <2> QED
    BY <2>1, <2>2, <2>3, <2>4, <2>5, <2>6, <2>7 DEF AccountsInv
<1> QED
  BY <1>1, <1>2

\* A call goes on as another kind.
LEMMA AccountsBecomes ==
  ASSUME NEW c, AccountsCall(c), NEW kind
  PROVE  LET m == [c EXCEPT !.kind = kind]
         IN AccountsCall(m) /\ m.kind = kind /\ m.by = c.by /\ m.key = c.key /\ m.nth = c.nth
  BY DEF AccountsCall

\* Every answer.
LEMMA AccountsAnswers ==
  ASSUME AccountsInv, NEW c \in waiting, NEW ok \in BOOLEAN, Accounts!Answers(c, ok)
  PROVE  AccountsInv'
<1>0. AccountsCall(c)
  BY DEF AccountsInv
<1>1. CASE Accounts!pollForToken(c)
  <2>1. /\ UNCHANGED <<mount, clonePane, screen>>
        /\ waiting' = waiting \ {c} \/ waiting' = (waiting \ {c}) \cup {[c EXCEPT !.kind = "profile"]}
    BY <1>1 DEF Accounts!pollForToken
  <2> DEFINE m == [c EXCEPT !.kind = "profile"]
  <2>2. AccountsCall(m) /\ m.kind = "profile"
    BY <1>0, AccountsBecomes
  <2>3. waiting' = waiting \ {c} \/ waiting' = (waiting \ {c}) \cup {m}
    BY <2>1
  <2> HIDE DEF m
  <2> QED
    BY <2>1, <2>2, <2>3, AccountsRest
<1>2. CASE \/ Accounts!startDeviceFlow(c, ok) \/ Accounts!GotUser(c, ok)
           \/ \E written \in BOOLEAN : Accounts!signIn(c, ok, written)
  <2>1. UNCHANGED <<mount, clonePane, screen>> /\ waiting' \subseteq waiting
    BY <1>2 DEF Accounts!startDeviceFlow, Accounts!GotUser, Accounts!signIn
  <2> QED
    BY <2>1, AccountsRest
<1>3. CASE Accounts!onRepoCreated(c, ok)
  <2>1. UNCHANGED <<mount, clonePane>> /\ (screen' = screen \/ screen' = "none") /\ waiting' \subseteq waiting
    BY <1>3 DEF Accounts!onRepoCreated
  <2> QED
    BY <2>1, AccountsRest
<1>4. CASE Accounts!listRepos(c, ok)
  <2>1. /\ UNCHANGED <<mount, screen>> /\ c.kind \in {"account", "repos"} /\ waiting' = waiting \ {c}
        /\ Accounts!Offers(c, IF ok /\ Accounts!Token(Accounts!Service(c)) # 0 THEN Accounts!Service(c) ELSE "none")
    BY <1>4 DEF Accounts!listRepos
  <2> QED
    BY <2>1, AccountsOffers
<1>5. CASE Accounts!loadProvider(c, ok)
  <2>1. UNCHANGED <<mount, screen>> /\ c.kind = "account"
    BY <1>5 DEF Accounts!loadProvider
  <2>2. CASE waiting' = waiting \ {c} /\ Accounts!Offers(c, "none")
    BY <2>1, <2>2, AccountsOffers
  <2>3. CASE waiting' = (waiting \ {c}) \cup {[c EXCEPT !.kind = "repos"]} /\ UNCHANGED clonePane
    <3> DEFINE m == [c EXCEPT !.kind = "repos"]
    <3>1. AccountsCall(m) /\ m.by = c.by /\ m.key = c.key /\ m.nth = c.nth
      BY <1>0, AccountsBecomes
    <3> HIDE DEF m
    <3>2. Accounts!Service(m) = Accounts!Service(c)
      BY <3>1 DEF Accounts!Service
    <3>3. \A x : (AccountsCall(x) <=> AccountsCall(x)') /\ Accounts!Service(x)' = Accounts!Service(x)
      BY DEF AccountsCall, Accounts!Service
    <3>4. waiting' = (waiting \ {c}) \cup {m}
      BY <2>3 DEF m
    <3>5. Accounts!ListIsOfItsSource' /\ AccountsPane(clonePane)'
      BY <2>1, <2>3 DEF AccountsInv, Accounts!ListIsOfItsSource, AccountsPane
    <3> QED
      BY <2>1, <2>3, <3>1, <3>2, <3>3, <3>4, <3>5 DEF AccountsInv
  <2> QED
    BY <1>5, <2>2, <2>3 DEF Accounts!loadProvider
<1> QED
  BY <1>1, <1>2, <1>3, <1>4, <1>5 DEF Accounts!Answers

\* Every step.
LEMMA AccountsStep ==
  ASSUME AccountsInv, [Accounts!Next]_accountsVars
  PROVE  AccountsInv'
<1>1. ASSUME NEW s \in {"none", "github", "hosted", "clone"}, Accounts!Open(s)
      PROVE  AccountsInv'
  BY <1>1, AccountsOpen
<1>2. CASE Accounts!startOAuthFlow \/ Accounts!handleSubmit
  <2>1. UNCHANGED <<mount, clonePane, screen>>
    BY <1>2 DEF Accounts!startOAuthFlow, Accounts!handleSubmit
  <2>2. \E kind \in {"start", "create"} : \E by, key, nth : waiting' = waiting \cup {Accounts!Call(kind, by, key, nth)}
    BY <1>2 DEF Accounts!startOAuthFlow, Accounts!handleSubmit
  <2> QED
    BY <2>1, <2>2, AccountsOther, AccountsRest
<1>3. CASE Accounts!handleLogout \/ Accounts!SwitchTab
  BY <1>3, AccountsRest DEF Accounts!handleLogout, Accounts!SwitchTab, Accounts!clones
<1>4. CASE Accounts!handleClone
  <2>1. /\ AccountsPane(clonePane') /\ clonePane'.source = clonePane.source /\ clonePane'.list = clonePane.list
        /\ clonePane'.loading = clonePane.loading /\ clonePane'.ask = clonePane.ask
    BY <1>4 DEF Accounts!handleClone, AccountsPane, AccountsInv
  <2> QED
    BY <1>4, <2>1, AccountsKept DEF Accounts!handleClone
<1>5. CASE Accounts!Restart
  <2>1. waiting' = {} /\ mount' = mount /\ clonePane' = Accounts!NoPane /\ screen' = "none"
    BY <1>5 DEF Accounts!Restart
  <2>2. AccountsPane(clonePane)' /\ clonePane'.ask = 0
    BY <2>1 DEF AccountsPane, Accounts!NoPane
  <2> QED
    BY <2>1, <2>2 DEF AccountsInv, Accounts!ListIsOfItsSource
<1>6. ASSUME NEW n \in Accounts!Flows, Accounts!startPolling(n) \/ \E yes \in BOOLEAN : Accounts!Decide(n, yes)
      PROVE  AccountsInv'
  <2>1. CASE Accounts!startPolling(n)
    <3>1. UNCHANGED <<mount, clonePane, screen>> /\ \E by, key, nth : waiting' = waiting \cup {Accounts!Call("poll", by, key, nth)}
      BY <2>1 DEF Accounts!startPolling, Accounts!clones
    <3> QED
      BY <3>1, AccountsOther, AccountsRest
  <2>2. CASE \E yes \in BOOLEAN : Accounts!Decide(n, yes)
    BY <2>2, AccountsRest DEF Accounts!Decide
  <2> QED
    BY <1>6, <2>1, <2>2
<1>7. ASSUME NEW t \in Tokens, Accounts!handleSignIn(t)
      PROVE  AccountsInv'
  BY <1>7, AccountsOther, AccountsRest DEF Accounts!handleSignIn
<1>8. ASSUME NEW r \in Folders, Accounts!Pick(r) \/ Accounts!EditName(r)
      PROVE  AccountsInv'
  <2>1. UNCHANGED <<mount, screen, waiting>>
    BY <1>8 DEF Accounts!Pick, Accounts!EditName
  <2>2. /\ AccountsPane(clonePane') /\ clonePane'.source = clonePane.source /\ clonePane'.list = clonePane.list
        /\ clonePane'.loading = clonePane.loading /\ clonePane'.ask = clonePane.ask
    BY <1>8 DEF Accounts!Pick, Accounts!EditName, AccountsPane, AccountsInv
  <2> QED
    BY <2>1, <2>2, AccountsKept
<1>9. ASSUME NEW s \in {"url", "github", "hosted"}, Accounts!SetSource(s)
      PROVE  AccountsInv'
  BY <1>9, AccountsSelect
<1>10. ASSUME NEW ok \in BOOLEAN, Accounts!signOut(ok) \/ Accounts!clone(ok)
       PROVE  AccountsInv'
  <2>1. CASE Accounts!signOut(ok)
    BY <2>1, AccountsRest DEF Accounts!signOut
  <2>2. CASE Accounts!clone(ok)
    <3>1. /\ AccountsPane(clonePane') /\ clonePane'.source = clonePane.source /\ clonePane'.list = clonePane.list
          /\ clonePane'.loading = clonePane.loading /\ clonePane'.ask = clonePane.ask
      BY <2>2 DEF Accounts!clone, AccountsPane, AccountsInv
    <3> QED
      BY <2>2, <3>1, AccountsKept DEF Accounts!clone
  <2> QED
    BY <1>10, <2>1, <2>2
<1>11. ASSUME NEW c \in waiting, Accounts!NotSignedIn(c) \/ \E ok \in BOOLEAN : Accounts!SignedIn(c, ok)
       PROVE  AccountsInv'
  BY <1>11, AccountsRest DEF Accounts!NotSignedIn, Accounts!SignedIn
<1>12. ASSUME NEW c \in waiting, NEW ok \in BOOLEAN, Accounts!Answers(c, ok)
       PROVE  AccountsInv'
  BY <1>12, AccountsAnswers
<1>13. CASE UNCHANGED accountsVars
  BY <1>13, AccountsRest DEF accountsVars
<1> QED
  BY <1>1, <1>2, <1>3, <1>4, <1>5, <1>6, <1>7, <1>8, <1>9, <1>10, <1>11, <1>12, <1>13
     DEF Accounts!Next, Accounts!Moves

\* ListIsOfItsSource, for any number of services selected, screens and requests under way.
THEOREM ListsAreOfTheirSource == SideBySide => []ListIsOfItsSource
<1>1. Start => AccountsInv
  <2> SUFFICES ASSUME Accounts!Init PROVE AccountsInv
    BY DEF Start
  <2> QED
    BY DEF Accounts!Init, Accounts!NoPane, AccountsInv, AccountsPane, Accounts!ListIsOfItsSource
<1>2. AccountsInv /\ [Step]_<<focus, windowVars, shellVars, dockVars, toolsVars, accountsVars, updaterVars,
                              serverVars, phoneVars, reviewVars, handsetVars>> => AccountsInv'
  <2>1. [Step]_<<focus, windowVars, shellVars, dockVars, toolsVars, accountsVars, updaterVars, serverVars, phoneVars,
                 reviewVars, handsetVars>> => [Accounts!Next]_accountsVars
    BY DEF Step
  <2> QED
    BY <2>1, AccountsStep
<1>3. AccountsInv => ListIsOfItsSource
  BY DEF AccountsInv, ListIsOfItsSource
<1> QED
  BY <1>1, <1>2, <1>3, PTL DEF SideBySide

----------------------------------------------------------------------------
\* The dialogs.

\* The modals about a thing have a slot, and are none of the others.
LEMMA ShellKinds ==
  ASSUME NEW kind \in Shell!About
  PROVE  /\ Shell!SlotOf(kind) \in Shell!Slots /\ kind # None
         /\ kind \notin Shell!Plain \cup Shell!SidePanels
<1>1. PICK slot \in Shell!Slots : kind \in Shell!Kinds[slot]
  BY DEF Shell!About
<1>2. Shell!SlotOf(kind) \in Shell!Slots
  BY <1>1 DEF Shell!SlotOf
<1>3. kind \in {"branch-here", "tag-here", "confirm-reset-hard", "interactive-rebase", "rename-branch",
                "confirm-delete-branch", "confirm-delete-remote-branch", "confirm-drop-stash", "stash-branch",
                "branch-from-tag", "rename-tag", "edit-author", "confirm-remove-worktree"}
  <2>1. CASE slot = "sha"
    BY <1>1, <2>1 DEF Shell!Kinds
  <2>2. CASE slot = "ref"
    BY <1>1, <2>2 DEF Shell!Kinds
  <2>3. CASE slot = "stash"
    BY <1>1, <2>3 DEF Shell!Kinds
  <2>4. CASE slot = "tag"
    BY <1>1, <2>4 DEF Shell!Kinds
  <2>5. CASE slot = "author"
    BY <1>1, <2>5 DEF Shell!Kinds
  <2>6. CASE slot = "worktree"
    BY <1>1, <2>6 DEF Shell!Kinds
  <2> QED
    BY <1>1, <2>1, <2>2, <2>3, <2>4, <2>5, <2>6 DEF Shell!Slots
<1>4. kind \notin Shell!Plain \cup Shell!SidePanels
  BY <1>3 DEF Shell!Plain, Shell!SidePanels
<1> QED
  BY <1>2, <1>4, ShellAssumption

\* A modal that comes up is about what it came up for.
LEMMA ShellRaises ==
  ASSUME Shell!NothingUnchosen, NEW kind \in Shell!About, NEW of, Shell!Raise(kind, of), UNCHANGED outcome
  PROVE  Shell!NothingUnchosen'
<1>1. Shell!SlotOf(kind) \in Shell!Slots
  BY ShellKinds
<1>2. asking'[Shell!SlotOf(kind)] = of /\ modal' = kind /\ named' = [kind |-> kind, of |-> of]
  BY <1>1 DEF Shell!Raise, Shell!Puts
<1>3. \A k : Shell!SlotOf(k)' = Shell!SlotOf(k)
  BY DEF Shell!SlotOf
<1> QED
  BY <1>2, <1>3 DEF Shell!NothingUnchosen, Shell!Visible

\* No modal about a thing is up, or it is the one that was.
LEMMA ShellQuiet ==
  ASSUME Shell!NothingUnchosen, UNCHANGED outcome,
         modal' \notin Shell!About \/ UNCHANGED <<modal, asking, named>>
  PROVE  Shell!NothingUnchosen'
  BY DEF Shell!NothingUnchosen, Shell!Visible

\* Closing leaves none.
LEMMA ShellCloses ==
  ASSUME NEW kind, Shell!onClose(kind)
  PROVE  modal' \notin Shell!About
  BY ShellAssumption DEF Shell!onClose, Shell!closeModal, Shell!closeWorktree, Shell!setModalNull

\* Every step.
LEMMA ShellStep ==
  ASSUME Shell!NothingUnchosen, [Shell!Next]_shellVars
  PROVE  Shell!NothingUnchosen'
<1>1. ASSUME NEW kind \in Shell!About, Shell!Confirm(kind)
      PROVE  Shell!NothingUnchosen'
  <2>1. /\ modal' \notin Shell!About
        /\ outcome' = [op |-> kind, of |-> asking[Shell!SlotOf(kind)], named |-> named, raised |-> raised, on |-> onScreen]
    BY <1>1, ShellCloses DEF Shell!Confirm, Shell!Run
  <2>2. named = [kind |-> kind, of |-> asking[Shell!SlotOf(kind)]]
    BY <1>1 DEF Shell!Confirm, Shell!NothingUnchosen
  <2> QED
    BY <2>1, <2>2 DEF Shell!NothingUnchosen, Shell!Visible
<1>2. CASE Shell!StashChanges
  <2>1. modal' = None /\ outcome'.op = "toolbar-stash"
    BY <1>2 DEF Shell!StashChanges, Shell!Run, Shell!closeModal
  <2>2. "toolbar-stash" \notin Shell!About
    BY ShellKinds DEF Shell!Plain
  <2> QED
    BY <2>1, <2>2, ShellAssumption DEF Shell!NothingUnchosen, Shell!Visible
<1>3. ASSUME NEW c \in pendingCalls, NEW ok \in BOOLEAN, Shell!AnswerAsks(c, ok)
      PROVE  Shell!NothingUnchosen'
  <2>1. c.by \in Shell!About /\ UNCHANGED outcome /\ (UNCHANGED <<modal, asking, named>> \/ Shell!Raise(c.by, c.of))
    BY <1>3 DEF Shell!AnswerAsks, Shell!asking
  <2> QED
    BY <2>1, ShellRaises, ShellQuiet
<1>4. ASSUME NEW kind \in Shell!About, Shell!Ask(kind)
      PROVE  Shell!NothingUnchosen'
  BY <1>4, ShellRaises DEF Shell!Ask
<1>5. ASSUME NEW kind, Shell!Cancel(kind)
      PROVE  Shell!NothingUnchosen'
  BY <1>5, ShellCloses, ShellQuiet DEF Shell!Cancel
<1>6. ASSUME NEW c, Shell!AnswerCloses(c)
      PROVE  Shell!NothingUnchosen'
  BY <1>6, ShellCloses, ShellQuiet DEF Shell!AnswerCloses
<1>7. ASSUME NEW kind, Shell!openModal(kind) \/ (kind \in Shell!SidePanels /\ Shell!openSidePanel(kind))
      PROVE  Shell!NothingUnchosen'
  <2>1. modal' \notin Shell!About /\ UNCHANGED outcome
    BY <1>7, ShellKinds DEF Shell!openModal, Shell!openSidePanel
  <2> QED
    BY <2>1, ShellQuiet
<1>8. CASE Shell!ClosePanel \/ Shell!Escape \/ Shell!toggleReflog
  <2>1. UNCHANGED outcome /\ (modal' = None \/ UNCHANGED <<modal, asking, named>>)
    BY <1>8 DEF Shell!ClosePanel, Shell!Escape, Shell!toggleReflog, Shell!closeModal, Shell!asking
  <2> QED
    BY <2>1, ShellQuiet, ShellAssumption
<1>9. ASSUME NEW x, NEW y, \/ Shell!CallFirst(x) \/ Shell!ConfirmAndWait(x) \/ Shell!PullAnswered(x, y) \/ Shell!doPull
                           \/ Shell!openCtx(x, y) \/ Shell!AnswerPrompt(x) \/ Shell!OpenRepository(x)
                           \/ UNCHANGED shellVars
      PROVE  Shell!NothingUnchosen'
  <2>1. UNCHANGED <<modal, asking, named, outcome>>
    BY <1>9 DEF Shell!CallFirst, Shell!ConfirmAndWait, Shell!PullAnswered, Shell!doPull, Shell!openCtx,
                Shell!AnswerPrompt, Shell!OpenRepository, Shell!asking, shellVars
  <2> QED
    BY <2>1, ShellQuiet
<1> QED
  BY <1>1, <1>2, <1>3, <1>4, <1>5, <1>6, <1>7, <1>8, <1>9 DEF Shell!Next

\* NothingUnchosen, for any number of things, repositories, calls and clicks.
THEOREM NothingUnasked == SideBySide => []NothingUnchosen
<1>1. Start => Shell!NothingUnchosen
  <2> SUFFICES ASSUME Shell!Init PROVE Shell!NothingUnchosen
    BY DEF Start
  <2>1. outcome.op = None /\ modal = None
    BY DEF Shell!Init
  <2> QED
    BY <2>1, ShellAssumption DEF Shell!NothingUnchosen, Shell!Visible
<1>2. Shell!NothingUnchosen /\ [Step]_<<focus, windowVars, shellVars, dockVars, toolsVars, accountsVars, updaterVars,
                                  serverVars, phoneVars, reviewVars, handsetVars>> => Shell!NothingUnchosen'
  <2>1. [Step]_<<focus, windowVars, shellVars, dockVars, toolsVars, accountsVars, updaterVars, serverVars, phoneVars,
                 reviewVars, handsetVars>> => [Shell!Next]_shellVars
    BY DEF Step
  <2> QED
    BY <2>1, ShellStep
<1>3. Shell!NothingUnchosen => NothingUnchosen
  BY DEF NothingUnchosen
<1> QED
  BY <1>1, <1>2, <1>3, PTL DEF SideBySide

----------------------------------------------------------------------------
\* The daemon.

ServerInv == Server!Applies /\ Server!OneConfiguration /\ edits \in Int

\* The link that is stopped is connected no more, or among the late; the others are as they were.
LEMMA ServerStops ==
  ASSUME NEW l, Server!StopsLink(l), (dialing \cup joined) \ {relay} \subseteq late, l = relay
  PROVE  (dialing \cup joined') \subseteq late'
  BY DEF Server!StopsLink

\* What a start or a reload makes of a configuration: the link it names is held, and it alone but for the late.
LEMMA ServerApplies ==
  ASSUME NEW c \in Configs, Server!applyRelay(c), ServerInv, relay # None => up
  PROVE  /\ relay' = None <=> c.url = None
         /\ relay' # None => relay'.url = c.url
         /\ relay' = None \/ relay' \in [url : {x.url : x \in Configs}, token : {x.token : x \in Configs}, nth : Int]
         /\ (dialing' \cup joined') \ {relay'} \subseteq late'
<1> USE DEF Server!applyRelay
<1>0. /\ (dialing \cup joined) \ {relay} \subseteq late /\ edits \in Int
      /\ relay = None \/ relay \in [url : {x.url : x \in Configs}, token : {x.token : x \in Configs}, nth : Int]
  BY DEF ServerInv, Server!OneConfiguration, Server!Applies
<1>1. CASE c.url = None /\ relay' = None /\ Server!StopsLink(relay) /\ UNCHANGED dialing
  BY <1>0, <1>1, ServerStops
<1>2. CASE c.url # None /\ relay # None /\ relay.url = c.url /\ UNCHANGED Server!links
  BY <1>0, <1>2 DEF Server!links
<1>3. CASE /\ c.url # None /\ Server!StopsLink(relay) /\ dialing' = dialing \cup {relay'}
           /\ relay' = [url |-> c.url, token |-> c.token, nth |-> edits]
  <2>1. relay' \in [url : {c.url}, token : {c.token}, nth : Int]
    BY <1>0, <1>3
  <2>2. relay' # None
    BY <2>1, ServerAssumption
  <2>3. (dialing \cup joined') \subseteq late'
    BY <1>0, <1>3, ServerStops
  <2> QED
    BY <1>3, <2>1, <2>2, <2>3
<1> QED
  BY <1>1, <1>2, <1>3

\* What is applied is in force, whether at a start or a reload.
LEMMA ServerLoads ==
  ASSUME ServerInv, configuration # Broken, up' = TRUE, applied' = configuration, UNCHANGED <<configuration, edits>>,
         Server!applyRelay(configuration), Server!applyDiscovery(configuration),
         Server!applyPushWatchers(configuration, Server!AllowedBy(configuration))
  PROVE  ServerInv'
<1>1. configuration \in Configs /\ edits \in Int /\ (relay # None => up)
  BY DEF ServerInv, Server!Applies
<1>2. /\ relay' = None <=> configuration.url = None
      /\ relay' # None => relay'.url = configuration.url
      /\ relay' = None \/ relay' \in [url : {x.url : x \in Configs}, token : {x.token : x \in Configs}, nth : Int]
      /\ (dialing' \cup joined') \ {relay'} \subseteq late'
  BY <1>1, ServerApplies
<1>3. watchers' # {} => configuration.push /\ watchers' \subseteq configuration.repos \cup ScanRoot
  <2>1. Server!AllowedBy(configuration) \subseteq configuration.repos \cup ScanRoot
    BY DEF Server!AllowedBy
  <2>2. watchers' = IF configuration.push THEN Server!AllowedBy(configuration) ELSE {}
    BY DEF Server!applyPushWatchers
  <2>3. watchers' # {} => configuration.push
    BY <2>2, Zenon
  <2> QED
    BY <2>1, <2>2, <2>3, Zenon
<1>4. beacon' = configuration.discovery
  BY DEF Server!applyDiscovery
<1>5. Server!Applies'
  BY <1>1, <1>2 DEF Server!Applies
<1>6. Server!OneConfiguration'
  BY <1>2, <1>3, <1>4, Zenon DEF Server!OneConfiguration
<1> QED
  BY <1>1, <1>5, <1>6 DEF ServerInv

\* The rest: what is held and watched stays, and links come and go.
LEMMA ServerRest ==
  ASSUME ServerInv, UNCHANGED <<up, relay, beacon, watchers, applied>>, configuration' \in Configs \cup {Broken},
         edits' \in Int, ~up => dialing' \cup joined' = {}, (dialing' \cup joined') \ {relay} \subseteq late'
  PROVE  ServerInv'
<1>1. Server!Applies'
  BY DEF ServerInv, Server!Applies
<1>2. Server!OneConfiguration'
  BY DEF ServerInv, Server!OneConfiguration
<1> QED
  BY <1>1, <1>2 DEF ServerInv

\* The rest that leaves the links alone too.
LEMMA ServerSame ==
  ASSUME ServerInv, UNCHANGED <<up, Server!derived>>, configuration' \in Configs \cup {Broken}, edits' \in Int
  PROVE  ServerInv'
<1>1. UNCHANGED <<up, relay, beacon, watchers, applied, dialing, joined, late>>
  BY DEF Server!derived, Server!links
<1>2. (~up => dialing \cup joined = {}) /\ (dialing \cup joined) \ {relay} \subseteq late
  BY DEF ServerInv, Server!Applies, Server!OneConfiguration
<1> QED
  BY <1>1, <1>2, ServerRest

\* Starts and reloads apply the whole file, a stop stops everything, and nothing else touches what runs.
LEMMA ServerStep ==
  ASSUME ServerInv, [Server!Next]_serverVars
  PROVE  ServerInv'
<1>0. configuration \in Configs \cup {Broken} /\ edits \in Int /\ (~up => dialing = {} /\ joined = {} /\ relay = None)
  BY DEF ServerInv, Server!Applies
<1>2. CASE Server!startDaemon
  <2>1. /\ configuration # Broken /\ up' = TRUE /\ applied' = configuration /\ UNCHANGED <<configuration, edits>>
        /\ Server!applyRelay(configuration) /\ Server!applyDiscovery(configuration)
        /\ Server!applyPushWatchers(configuration, Server!AllowedBy(configuration))
    BY <1>2 DEF Server!startDaemon, Server!Loads, Server!environment, Server!applyPushWatchers
  <2> QED
    BY <2>1, ServerLoads
<1>3. CASE Server!reload
  <2>1. /\ configuration # Broken /\ up' = TRUE /\ applied' = configuration /\ UNCHANGED <<configuration, edits>>
        /\ Server!applyRelay(configuration) /\ Server!applyDiscovery(configuration)
        /\ Server!applyPushWatchers(configuration, Server!AllowedBy(configuration))
    <3>1. up' = TRUE
      BY <1>3, Zenon DEF Server!reload, ServerInv, Server!Applies
    <3> QED
      BY <1>3, <3>1 DEF Server!reload, Server!Loads, Server!environment, Server!applyPushWatchers
  <2> QED
    BY <2>1, ServerLoads
<1>4. CASE Server!stop
  <2>1. /\ up' = FALSE /\ relay' = None /\ dialing' = {} /\ joined' = {} /\ watchers' = {}
        /\ UNCHANGED <<configuration, edits>>
    BY <1>4 DEF Server!stop, Server!Stopped, Server!environment
  <2> QED
    BY <1>0, <2>1 DEF ServerInv, Server!Applies, Server!OneConfiguration
<1>5. CASE \/ Server!ReloadFails \/ Server!tlsRotate \/ Server!requestPairingCode \/ Server!PairingEnds
           \/ Server!Rescan \/ Server!FiveMinutes
  <2>1. UNCHANGED <<up, Server!derived, configuration>> /\ edits' \in {edits, edits + 1}
    BY <1>5 DEF Server!ReloadFails, Server!tlsRotate, Server!requestPairingCode, Server!PairingEnds, Server!Rescan,
                Server!FiveMinutes, Server!environment
  <2> QED
    BY <1>0, <2>1, ServerSame
<1>6. ASSUME NEW x \in Dirs, Server!serviceFor(x) \/ Server!ChangeDisk(x)
      PROVE  ServerInv'
  <2>1. UNCHANGED <<up, Server!derived, configuration>> /\ edits' \in {edits, edits + 1}
    BY <1>6 DEF Server!serviceFor, Server!ChangeDisk, Server!environment
  <2> QED
    BY <1>0, <2>1, ServerSame
<1>7. ASSUME NEW c \in Configs \cup {Broken}, Server!EditConfig(c)
      PROVE  ServerInv'
  <2>1. UNCHANGED <<up, Server!derived>> /\ configuration' = c /\ edits' = edits + 1
    BY <1>7 DEF Server!EditConfig
  <2> QED
    BY <1>0, <2>1, ServerSame
<1>8. ASSUME NEW l \in dialing \cup joined, Server!Dialed(l) \/ Server!LinkFails(l)
      PROVE  ServerInv'
  <2>1. UNCHANGED <<up, relay, beacon, watchers, applied, configuration, edits>>
    BY <1>8 DEF Server!Dialed, Server!LinkFails, Server!environment
  <2>2. \/ dialing' \cup joined' = dialing \cup joined /\ late' = late
        \/ dialing' \cup joined' = (dialing \cup joined) \ {l} /\ late' = late \ {l}
    BY <1>8 DEF Server!Dialed, Server!LinkFails
  <2>3. up /\ (dialing \cup joined) \ {relay} \subseteq late
    BY <1>0, <1>8 DEF ServerInv, Server!Applies, Server!OneConfiguration
  <2> QED
    BY <1>0, <2>1, <2>2, <2>3, ServerRest
<1>9. CASE Server!Redial
  <2>1. /\ UNCHANGED <<up, relay, beacon, watchers, applied, configuration, edits, joined, late>>
        /\ dialing' = dialing \cup {relay} /\ relay # None
    BY <1>9 DEF Server!Redial, Server!environment
  <2>2. up /\ (dialing \cup joined) \ {relay} \subseteq late
    BY <1>0, <2>1 DEF ServerInv, Server!Applies, Server!OneConfiguration
  <2> QED
    BY <1>0, <2>1, <2>2, ServerRest
<1>10. CASE UNCHANGED serverVars
  BY <1>0, <1>10, ServerSame DEF serverVars, Server!derived, Server!links
<1> QED
  BY <1>2, <1>3, <1>4, <1>5, <1>6, <1>7, <1>8, <1>9, <1>10 DEF Server!Next

\* OneConfiguration, for every set of configurations and of directories.
THEOREM ReloadsApply == SideBySide => []OneConfiguration
<1>1. Start => ServerInv
  <2> SUFFICES ASSUME Server!Init PROVE ServerInv
    BY DEF Start
  <2>1. /\ configuration \in Configs /\ up = FALSE /\ relay = None /\ dialing = {} /\ joined = {} /\ watchers = {}
        /\ edits = 0
    BY DEF Server!Init
  <2>2. Server!Applies
    BY <2>1 DEF Server!Applies
  <2>3. Server!OneConfiguration
    BY <2>1 DEF Server!OneConfiguration
  <2> QED
    BY <2>1, <2>2, <2>3 DEF ServerInv
<1>2. ServerInv /\ [Step]_<<focus, windowVars, shellVars, dockVars, toolsVars, accountsVars, updaterVars,
                            serverVars, phoneVars, reviewVars, handsetVars>> => ServerInv'
  <2>1. [Step]_<<focus, windowVars, shellVars, dockVars, toolsVars, accountsVars, updaterVars, serverVars, phoneVars,
                 reviewVars, handsetVars>> => [Server!Next]_serverVars
    BY DEF Step
  <2> QED
    BY <2>1, ServerStep
<1>3. ServerInv => OneConfiguration
  BY DEF ServerInv, OneConfiguration
<1> QED
  BY <1>1, <1>2, <1>3, PTL DEF SideBySide

----------------------------------------------------------------------------
\* The updater.

\* What is kept of versions, by the values it may have.
UpdaterTyped ==
  /\ published \in Seq(Versions) /\ installed \in Versions \cup {Gone}
  /\ download # None => download = [v |-> download.v, stage |-> download.stage] /\ download.v \in Versions
  /\ workDir # None => workDir.v \in Versions
UpdaterInv == UpdaterTyped /\ Updater!Ordered /\ Updater!OnlyHigher /\ Updater!NeverDowngrades

\* What a feed answers is a version.
LEMMA UpdaterFeeds ==
  ASSUME UpdaterInv, NEW ch, Updater!Feed(ch) # None
  PROVE  Updater!Feed(ch) \in Versions
<1>1. published \in Seq(Versions)
  BY DEF UpdaterInv, UpdaterTyped
<1>2. ASSUME published # <<>> PROVE Updater!pickRelease \in Versions
  <2>1. PICK i \in DOMAIN published : \A j \in DOMAIN published :
          published[j] = published[i] \/ Updater!compareVersions(published[j], published[i])
    BY DEF UpdaterInv, Updater!Ordered
  <2>2. \E v \in {published[k] : k \in DOMAIN published} :
          \A k \in DOMAIN published : published[k] = v \/ Updater!compareVersions(published[k], v)
    BY <2>1
  <2>3. Updater!pickRelease \in {published[k] : k \in DOMAIN published}
    BY <2>2 DEF Updater!pickRelease
  <2> QED
    BY <2>3, <1>1
<1>3. ASSUME Updater!Releases # {} PROVE Updater!Latest \in Versions
  <2>1. \E i \in Updater!Releases : \A j \in Updater!Releases : j <= i
    BY <1>3 DEF UpdaterInv, Updater!Ordered
  <2>2. (CHOOSE i \in Updater!Releases : \A j \in Updater!Releases : j <= i) \in Updater!Releases
    BY <2>1
  <2> QED
    BY <2>2, <1>1 DEF Updater!Latest, Updater!Releases
<1> QED
  BY <1>2, <1>3 DEF Updater!Feed

\* One more version published: the highest is the old one or the new one, and so is the last release.
LEMMA UpdaterPublishes ==
  ASSUME published \in Seq(Versions), Updater!Ordered, NEW v \in Versions, published' = Append(published, v)
  PROVE  published' \in Seq(Versions) /\ Updater!Ordered'
<1> DEFINE n == Len(published)
<1>1. /\ published' \in Seq(Versions) /\ n \in Nat /\ DOMAIN published = 1..n
      /\ DOMAIN published' = 1..(n + 1) /\ published'[n + 1] = v
      /\ \A i \in 1..n : published'[i] = published[i] /\ published[i] \in Versions
      /\ published' # <<>>
  OBVIOUS
<1>2. PICK i \in 1..n : \A j \in 1..n : published[j] = published[i] \/ Updater!compareVersions(published[j], published[i])
  BY <1>1 DEF Updater!Ordered
<1>3. \A x, y \in Versions : /\ Updater!compareVersions(x, y) <=> Rank[x] < Rank[y]
                             /\ Rank[x] \in Int /\ (Rank[x] = Rank[y] => x = y)
  BY UpdaterAssumption
<1>4. \E k \in DOMAIN published' : \A j \in DOMAIN published' :
        published'[j] = published'[k] \/ Updater!compareVersions(published'[j], published'[k])
  <2>1. \A j \in 1..n : published[j] = published[i] \/ Rank[published[j]] < Rank[published[i]]
    BY <1>1, <1>2, <1>3
  <2>2. CASE Rank[published[i]] < Rank[v]
    <3>1. \A j \in 1..n : Rank[published[j]] < Rank[v]
      BY <1>1, <1>3, <2>1, <2>2
    <3>2. \A j \in 1..n : Updater!compareVersions(published[j], v)
      BY <3>1, <1>1, <1>3
    <3>3. ASSUME NEW j \in DOMAIN published'
          PROVE  published'[j] = published'[n + 1] \/ Updater!compareVersions(published'[j], published'[n + 1])
      <4>1. j \in 1..n \/ j = n + 1
        BY <1>1
      <4> QED
        BY <1>1, <3>2, <4>1
    <3>4. n + 1 \in DOMAIN published'
      BY <1>1
    <3> QED
      BY <3>3, <3>4, Zenon
  <2>3. CASE ~(Rank[published[i]] < Rank[v])
    <3>1. v = published[i] \/ Updater!compareVersions(v, published[i])
      BY <1>1, <1>3, <2>3
    <3>2. i \in DOMAIN published' /\ \A j \in 1..(n + 1) : j \in 1..n \/ j = n + 1
      BY <1>1
    <3> QED
      BY <1>1, <1>2, <3>1, <3>2
  <2> QED
    BY <2>2, <2>3
<1>5. Updater!Releases' # {} => \E k \in Updater!Releases' : \A j \in Updater!Releases' : j <= k
  <2>1. Updater!Releases' = {k \in DOMAIN published' : Updater!Stable(published'[k])}
    BY DEF Updater!Releases, Updater!Stable
  <2>2. CASE Updater!Stable(v)
    <3>1. n + 1 \in Updater!Releases' /\ \A j \in Updater!Releases' : j <= n + 1
      BY <1>1, <2>1, <2>2
    <3> QED
      BY <3>1
  <2>3. CASE ~Updater!Stable(v)
    <3>1. Updater!Releases' = Updater!Releases
      BY <1>1, <2>1, <2>3 DEF Updater!Releases
    <3> QED
      BY <3>1 DEF Updater!Ordered
  <2> QED
    BY <2>2, <2>3
<1> QED
  BY <1>1, <1>4, <1>5 DEF Updater!Ordered

\* Only what is above the version that runs is fetched, and what is fetched is put in its place or dropped.
LEMMA UpdaterStep ==
  ASSUME UpdaterInv, [Updater!Next]_updaterVars
  PROVE  UpdaterInv'
<1> USE DEF UpdaterInv, UpdaterTyped, Updater!OnlyHigher, Updater!NeverDowngrades
<1>1. ASSUME UNCHANGED published PROVE published' \in Seq(Versions) /\ Updater!Ordered'
  BY <1>1 DEF Updater!Ordered, Updater!Releases
<1>2. ASSUME UNCHANGED <<published, installed, replaced, running, workDir, download, script>>,
             checks' # {} => running # None
      PROVE  UpdaterInv'
  BY <1>1, <1>2
<1>3. CASE Updater!Check \/ \E ch \in {"stable", "dev"} : Updater!SetChannel(ch)
  BY <1>2, <1>3 DEF Updater!Check, Updater!SetChannel, Updater!checkForUpdates
<1>4. ASSUME NEW c \in checks, Updater!CheckFails(c)
      PROVE  UpdaterInv'
  BY <1>2, <1>4 DEF Updater!CheckFails
<1>5. ASSUME NEW c \in checks, Updater!CheckReplies(c)
      PROVE  UpdaterInv'
  <2> DEFINE v == Updater!Feed(c.channel)
  <2>1. v \in Versions
    BY <1>5, UpdaterFeeds DEF Updater!CheckReplies
  <2>2. /\ UNCHANGED <<published, installed, replaced, running, workDir, script>> /\ checks' = checks \ {c}
        /\ \/ UNCHANGED download
           \/ /\ Updater!compareVersions(running, v) /\ download = None
              /\ download' = [v |-> v, stage |-> "clear"]
    BY <1>5 DEF Updater!CheckReplies, Updater!isNewerVersion
  <2> HIDE DEF v
  <2>3. CASE UNCHANGED download
    BY <2>2, <2>3, <1>2
  <2>4. CASE Updater!compareVersions(running, v) /\ download' = [v |-> v, stage |-> "clear"]
    <3>1. running # None
      BY <1>5
    <3>2. running = installed /\ installed \in Versions
      BY <3>1
    <3>3. Rank[installed] < Rank[v]
      BY <2>1, <2>4, <3>2, UpdaterAssumption
    <3>4. download' = [v |-> download'.v, stage |-> download'.stage] /\ download'.v = v
      BY <2>4
    <3> QED
      BY <1>1, <2>1, <2>2, <3>1, <3>3, <3>4
  <2> QED
    BY <2>2, <2>3, <2>4
<1>6. ASSUME NEW stage, NEW next, Updater!Step(stage, next)
      PROVE  /\ download # None /\ UNCHANGED <<published, installed, replaced, running, checks, script>>
             /\ download' = [v |-> download.v, stage |-> next]
             /\ download'.v = download.v
  BY <1>6 DEF Updater!Step
<1>7. CASE Updater!Clear
  BY <1>1, <1>6, <1>7 DEF Updater!Clear
<1>8. CASE Updater!Fetched \/ Updater!Unpacked
  <2>1. workDir' = [v |-> download.v, whole |-> workDir'.whole] /\ workDir'.v = download.v
    BY <1>8 DEF Updater!Fetched, Updater!Unpacked
  <2>2. /\ download # None /\ UNCHANGED <<published, installed, replaced, running, checks, script>>
        /\ download' = [v |-> download.v, stage |-> download'.stage] /\ download'.v = download.v
    BY <1>6, <1>8 DEF Updater!Fetched, Updater!Unpacked
  <2> QED
    BY <1>1, <2>1, <2>2
<1>9. CASE Updater!Downloaded \/ Updater!DownloadFails
  BY <1>1, <1>9 DEF Updater!Downloaded, Updater!DownloadFails
<1>10. CASE Updater!quitAndInstall \/ Updater!Quit
  BY <1>1, <1>10, UpdaterAssumption DEF Updater!quitAndInstall, Updater!Quit, Updater!Ended
<1>11. CASE Updater!Remove
  BY <1>1, <1>11, UpdaterAssumption DEF Updater!Remove, Updater!process
<1>12. CASE Updater!Move
  <2>1. /\ script = "move" /\ workDir' = None /\ script' = None /\ UNCHANGED <<published, replaced, running, checks, download>>
        /\ installed' = IF workDir = None THEN installed ELSE workDir.v
    BY <1>12 DEF Updater!Move, Updater!process
  <2>2. running = None /\ download = None /\ installed = Gone /\ replaced # None
    BY <2>1, UpdaterAssumption
  <2> QED
    BY <1>1, <2>1, <2>2, UpdaterAssumption
<1>13. CASE Updater!Start
  BY <1>1, <1>13, UpdaterAssumption DEF Updater!Start
<1>14. ASSUME NEW v \in Versions, Updater!Publish(v)
       PROVE  UpdaterInv'
  <2>1. published' = Append(published, v) /\ UNCHANGED <<installed, replaced, running, checks, workDir, download, script>>
    BY <1>14 DEF Updater!Publish, Updater!process
  <2>2. published' \in Seq(Versions) /\ Updater!Ordered'
    BY <2>1, UpdaterPublishes
  <2> QED
    BY <2>1, <2>2
<1>15. CASE UNCHANGED updaterVars
  BY <1>2, <1>15 DEF updaterVars
<1> QED
  BY <1>3, <1>4, <1>5, <1>7, <1>8, <1>9, <1>10, <1>11, <1>12, <1>13, <1>14, <1>15 DEF Updater!Next

\* NeverDowngrades, for every set of versions, any number of checks and of starts.
THEOREM UpdatesOnlyRise == SideBySide => []NeverDowngrades
<1>1. Start => UpdaterInv
  <2> SUFFICES ASSUME Updater!Init PROVE UpdaterInv
    BY DEF Start
  <2>1. /\ published = <<First>> /\ installed = First /\ replaced = None /\ running = First
        /\ workDir = None /\ download = None /\ script = None /\ checks = {}
    BY DEF Updater!Init
  <2>2. published \in Seq(Versions) /\ DOMAIN published = {1} /\ published # <<>>
    BY <2>1, UpdaterAssumption
  <2>3. Updater!Ordered
    BY <2>2 DEF Updater!Ordered, Updater!Releases
  <2> QED
    BY <2>1, <2>2, <2>3, UpdaterAssumption
       DEF UpdaterInv, UpdaterTyped, Updater!OnlyHigher, Updater!NeverDowngrades
<1>2. UpdaterInv /\ [Step]_<<focus, windowVars, shellVars, dockVars, toolsVars, accountsVars, updaterVars,
                            serverVars, phoneVars, reviewVars, handsetVars>> => UpdaterInv'
  <2>1. [Step]_<<focus, windowVars, shellVars, dockVars, toolsVars, accountsVars, updaterVars, serverVars, phoneVars,
                 reviewVars, handsetVars>> => [Updater!Next]_updaterVars
    BY DEF Step
  <2> QED
    BY <2>1, UpdaterStep
<1>3. UpdaterInv => NeverDowngrades
  BY DEF UpdaterInv, NeverDowngrades
<1> QED
  BY <1>1, <1>2, <1>3, PTL DEF SideBySide

----------------------------------------------------------------------------
\* The recovery tools.

\* A read of the reflog.
ToolsReading(x) == x = [of |-> x.of, live |-> x.live, answer |-> x.answer] /\ x.answer \in Seq(Tools!Line)
\* What the handlers of the wizard and of the menu await: verdicts of the menu are right, and so is one
\* that is sure, at the head of the line.
ToolsCommands == [op : Tools!Verdicts \cup {"start", "reset"}, sha : 0..Commits]
ToolsCalls ==
  {c \in [by : {"start", "mark", "reset", "menu"}, todo : Seq(ToolsCommands), live : BOOLEAN, sure : BOOLEAN] :
     /\ c.todo # <<>>
     /\ c.by # "start" => Len(c.todo) = 1
     /\ c.by = "mark" => c.todo[1].sha = 0
     /\ c.by = "reset" => c.todo[1].op = "reset"
     /\ c.by = "menu" => c.todo[1].sha \in Tools!Line /\ c.todo[1].op = Tools!Tested(c.todo[1].sha)}
\* Where h is checked out and the wizard is w.
ToolsSure(i, c, h, w) ==
  c.by = "mark" /\ c.sure => i = 1 /\ c.todo[1].op = Tools!Tested(h) /\ (c.live => w = "running")
ToolsQueued ==
  commands \in Seq(ToolsCalls) /\ \A i \in DOMAIN commands : ToolsSure(i, commands[i], Tools!head(inMain), wizard)
ToolsInv == Tools!Listed /\ Tools!Bracketed /\ ToolsQueued /\ DOMAIN session = Trees

\* A read that counts no longer.
LEMMA ToolsStale ==
  ASSUME NEW y, ToolsReading(y)
  PROVE  ToolsReading([y EXCEPT !.live = FALSE])
<1>1. ASSUME NEW v PROVE [y EXCEPT !.live = v] = [of |-> y.of, live |-> v, answer |-> y.answer]
  <2>1. y = [of |-> y.of, live |-> y.live, answer |-> y.answer]
    BY Zenon DEF ToolsReading
  <2> QED
    BY <2>1
<1>2. [y EXCEPT !.live = FALSE] = [of |-> y.of, live |-> FALSE, answer |-> y.answer]
  BY <1>1
<1> QED
  BY <1>2 DEF ToolsReading

\* HEAD's moves are logged.
LEMMA ToolsMoves ==
  ASSUME Tools!Listed, NEW t \in Trees, NEW c \in Tools!Line, logs' \in {logs, Tools!Moved(t, c)}
  PROVE  logs' \in [Trees -> Seq(Tools!Line) \ {<<>>}]
<1>1. logs \in [Trees -> Seq(Tools!Line) \ {<<>>}]
  BY DEF Tools!Listed
<1>3. ASSUME NEW s \in Seq(Tools!Line) PROVE <<c>> \o s # <<>> /\ <<c>> \o s \in Seq(Tools!Line)
  <2>1. <<c>> \in Seq(Tools!Line)
    OBVIOUS
  <2>2. Len(<<c>> \o s) = 1 + Len(s) /\ Len(s) \in Nat
    OBVIOUS
  <2> QED
    BY <2>1, <2>2
<1>2. <<c>> \o logs[t] \in Seq(Tools!Line) \ {<<>>}
  BY <1>1, <1>3
<1> QED
  BY <1>1, <1>2 DEF Tools!Moved

\* What is checked out is a commit of the line.
LEMMA ToolsHead ==
  ASSUME Tools!Listed
  PROVE  Tools!head(inMain) \in Tools!Line /\ inMain \in Trees
<1>1. inMain \in Trees /\ logs[inMain] # <<>> /\ logs[inMain] \in Seq(Tools!Line)
  BY DEF Tools!Listed
<1>2. \A s \in Seq(Tools!Line) : s # <<>> => s[1] \in Tools!Line
  OBVIOUS
<1> QED
  BY <1>1, <1>2 DEF Tools!head

\* A session that is given up goes back to a commit of the line.
LEMMA ToolsBegun ==
  ASSUME ToolsInv
  PROVE  Tools!Begun(session[inMain]) \in Tools!Line
<1>1. Tools!head(inMain) \in Tools!Line /\ inMain \in Trees
  BY ToolsHead DEF ToolsInv
<1>2. session[inMain] # None => session[inMain].from \in Tools!Line
  BY <1>1 DEF ToolsInv, Tools!Bracketed
<1> QED
  BY <1>1, <1>2 DEF Tools!Begun

\* The first that is awaited, and what it is about.
LEMMA ToolsFirst ==
  ASSUME ToolsInv, commands # <<>>
  PROVE  /\ commands[1] \in ToolsCalls /\ ToolsSure(1, commands[1], Tools!head(inMain), wizard)
         /\ commands[1].todo[1] \in ToolsCommands
<1>1. commands \in Seq(ToolsCalls) /\ \A i \in DOMAIN commands : ToolsSure(i, commands[i], Tools!head(inMain), wizard)
  BY DEF ToolsInv, ToolsQueued
<1>2. ASSUME NEW S, NEW s \in Seq(S), s # <<>> PROVE s[1] \in S /\ 1 \in DOMAIN s
  BY <1>2
<1>3. commands[1] \in ToolsCalls /\ ToolsSure(1, commands[1], Tools!head(inMain), wizard)
  BY <1>1, <1>2
<1>4. commands[1].todo \in Seq(ToolsCommands) /\ commands[1].todo # <<>>
  BY <1>3 DEF ToolsCalls
<1> QED
  BY <1>2, <1>3, <1>4

\* A call that goes on with its next request is still one; so is one that has lost its screen, or is unsure.
LEMMA ToolsGoesOn ==
  ASSUME NEW c \in ToolsCalls
  PROVE  /\ Len(c.todo) # 1 => /\ [c EXCEPT !.todo = Tail(@)] \in ToolsCalls
                               /\ [c EXCEPT !.todo = Tail(@)].by = "start"
         /\ [c EXCEPT !.live = FALSE] \in ToolsCalls /\ [c EXCEPT !.sure = FALSE] \in ToolsCalls
<1> DEFINE R == [by : {"start", "mark", "reset", "menu"}, todo : Seq(ToolsCommands), live : BOOLEAN, sure : BOOLEAN]
<1>1. c \in R /\ c.todo # <<>> /\ c.todo \in Seq(ToolsCommands)
  BY DEF ToolsCalls
<1>2. ASSUME Len(c.todo) # 1
      PROVE  [c EXCEPT !.todo = Tail(@)] \in ToolsCalls /\ [c EXCEPT !.todo = Tail(@)].by = "start"
  <2> DEFINE rest == Tail(c.todo)
             m == [c EXCEPT !.todo = rest]
  <2>1. ASSUME NEW S, NEW s \in Seq(S), s # <<>>, Len(s) # 1 PROVE Tail(s) \in Seq(S) /\ Tail(s) # <<>>
    <3>1. Tail(s) \in Seq(S) /\ Len(Tail(s)) = Len(s) - 1 /\ Len(s) \in Nat
      BY <2>1
    <3>2. Len(s) # 0 /\ Len(s) # 1
      BY <2>1
    <3>3. Len(Tail(s)) # 0
      BY <3>1, <3>2
    <3> QED
      BY <3>1, <3>3, EmptySeq
  <2>2. rest \in Seq(ToolsCommands) /\ rest # <<>>
    BY <1>1, <1>2, <2>1
  <2>3. c.by = "start"
    BY <1>2 DEF ToolsCalls
  <2> HIDE DEF rest
  <2>4. m \in R /\ m.by = "start" /\ m.todo = rest
    BY <1>1, <2>2, <2>3
  <2> HIDE DEF m
  <2>5. m \in ToolsCalls
    BY <2>2, <2>4 DEF ToolsCalls
  <2> QED
    BY <2>4, <2>5 DEF m, rest
<1>3. ASSUME NEW m \in R, m.by = c.by, m.todo = c.todo PROVE m \in ToolsCalls
  BY <1>3 DEF ToolsCalls
<1>4. [c EXCEPT !.live = FALSE] \in R /\ [c EXCEPT !.sure = FALSE] \in R
  BY <1>1
<1>5. /\ [c EXCEPT !.live = FALSE].by = c.by /\ [c EXCEPT !.live = FALSE].todo = c.todo
      /\ [c EXCEPT !.sure = FALSE].by = c.by /\ [c EXCEPT !.sure = FALSE].todo = c.todo
  BY <1>1
<1> QED
  BY <1>2, <1>3, <1>4, <1>5

\* Calls as they have to be, one by one.
LEMMA ToolsFold ==
  ASSUME commands' \in Seq(ToolsCalls),
         \A i \in DOMAIN commands' : ToolsSure(i, commands'[i], Tools!head(inMain)', wizard')
  PROVE  ToolsQueued'
<1>1. \A c : Tools!Tested(c)' = Tools!Tested(c)
  BY DEF Tools!Tested
<1> QED
  BY <1>1 DEF ToolsQueued, ToolsCalls, ToolsCommands, ToolsSure, Tools!Line, Tools!Verdicts, Tools!Tested

\* What is awaited stays as it is.
LEMMA ToolsWaits ==
  ASSUME ToolsInv, UNCHANGED <<commands, wizard, inMain, logs>>
  PROVE  ToolsQueued'
<1>1. Tools!head(inMain)' = Tools!head(inMain)
  BY DEF Tools!head
<1>2. commands' \in Seq(ToolsCalls)
  BY DEF ToolsInv, ToolsQueued
<1>3. \A i \in DOMAIN commands' : ToolsSure(i, commands'[i], Tools!head(inMain)', wizard')
  BY <1>1 DEF ToolsInv, ToolsQueued
<1> QED
  BY <1>2, <1>3, ToolsFold

\* Something moves: no verdict is sure any more.
LEMMA ToolsUnsure ==
  ASSUME ToolsInv, commands' = Tools!Unsure
  PROVE  ToolsQueued'
<1>1. commands \in Seq(ToolsCalls)
  BY DEF ToolsInv, ToolsQueued
<1>2. \A i \in DOMAIN commands : /\ commands'[i] = [commands[i] EXCEPT !.sure = FALSE]
                                 /\ commands[i] \in ToolsCalls
  BY <1>1 DEF Tools!Unsure
<1>3. DOMAIN commands' = DOMAIN commands /\ \A i \in DOMAIN commands : commands'[i] \in ToolsCalls
  BY <1>2, ToolsGoesOn DEF Tools!Unsure
<1>4. commands' \in Seq(ToolsCalls)
  <2>1. commands' = [i \in 1..Len(commands) |-> [commands[i] EXCEPT !.sure = FALSE]] /\ Len(commands) \in Nat
    BY <1>1 DEF Tools!Unsure
  <2>2. commands' \in [1..Len(commands) -> ToolsCalls]
    BY <1>1, <1>3, <2>1
  <2> QED
    BY <2>1, <2>2, SeqDef
<1>5. \A i \in DOMAIN commands' : ToolsSure(i, commands'[i], Tools!head(inMain)', wizard')
  <2> SUFFICES ASSUME NEW i \in DOMAIN commands' PROVE ~commands'[i].sure
    BY DEF ToolsSure
  <2> QED
    BY <1>2, <1>3 DEF ToolsCalls
<1> QED
  BY <1>4, <1>5, ToolsFold

\* The wizard goes: its calls are answered to nobody.
LEMMA ToolsCloses ==
  ASSUME ToolsInv, Tools!CloseWizard, UNCHANGED <<inMain, logs>>
  PROVE  ToolsQueued'
<1>1. commands \in Seq(ToolsCalls) /\ \A i \in DOMAIN commands : ToolsSure(i, commands[i], Tools!head(inMain), wizard)
  BY DEF ToolsInv, ToolsQueued
<1>2. \A i \in DOMAIN commands : /\ commands'[i] = [commands[i] EXCEPT !.live = FALSE]
                                 /\ commands[i] \in ToolsCalls
  BY <1>1 DEF Tools!CloseWizard
<1>3. DOMAIN commands' = DOMAIN commands /\ \A i \in DOMAIN commands : commands'[i] \in ToolsCalls
  BY <1>2, ToolsGoesOn DEF Tools!CloseWizard
<1>4. commands' \in Seq(ToolsCalls)
  <2>1. commands' = [i \in 1..Len(commands) |-> [commands[i] EXCEPT !.live = FALSE]] /\ Len(commands) \in Nat
    BY <1>1 DEF Tools!CloseWizard
  <2>2. commands' \in [1..Len(commands) -> ToolsCalls]
    BY <1>1, <1>3, <2>1
  <2> QED
    BY <2>1, <2>2, SeqDef
<1>5. Tools!head(inMain)' = Tools!head(inMain)
  BY DEF Tools!head
<1>6. \A i \in DOMAIN commands' : ToolsSure(i, commands'[i], Tools!head(inMain)', wizard')
  <2> SUFFICES ASSUME NEW i \in DOMAIN commands', commands'[i].by = "mark", commands'[i].sure
               PROVE  i = 1 /\ commands'[i].todo[1].op = Tools!Tested(Tools!head(inMain)) /\ ~commands'[i].live
    BY <1>5 DEF ToolsSure
  <2>1. /\ commands'[i].by = commands[i].by /\ commands'[i].sure = commands[i].sure
        /\ commands'[i].todo = commands[i].todo /\ commands'[i].live = FALSE /\ i \in DOMAIN commands
    BY <1>2, <1>3 DEF ToolsCalls
  <2> QED
    BY <1>1, <2>1 DEF ToolsSure
<1> QED
  BY <1>4, <1>6, ToolsFold

\* A handler sends its first request, which is sure only at the head of the line.
LEMMA ToolsSends ==
  ASSUME ToolsInv, NEW by, NEW todo, Tools!Send(by, todo), UNCHANGED <<wizard, inMain, logs>>,
         \A live, sure \in BOOLEAN : [by |-> by, todo |-> todo, live |-> live, sure |-> sure] \in ToolsCalls,
         by = "mark" => wizard = "running" /\ (inMain = inWindow => todo[1].op = Tools!Tested(Tools!head(inMain)))
  PROVE  ToolsQueued'
<1> DEFINE sure == commands = <<>> /\ inMain = inWindow
           new == [by |-> by, todo |-> todo, live |-> TRUE, sure |-> sure]
<1>1. commands \in Seq(ToolsCalls) /\ \A i \in DOMAIN commands : ToolsSure(i, commands[i], Tools!head(inMain), wizard)
  BY DEF ToolsInv, ToolsQueued
<1>2. commands' = Append(commands, new)
  BY DEF Tools!Send
<1>3. sure \in BOOLEAN
  OBVIOUS
<1>4. new \in ToolsCalls
  BY <1>3
<1>5. Tools!head(inMain)' = Tools!head(inMain)
  BY DEF Tools!head
<1>6. ToolsSure(Len(commands) + 1, new, Tools!head(inMain)', wizard')
  <2> SUFFICES ASSUME by = "mark", sure
               PROVE  Len(commands) + 1 = 1 /\ todo[1].op = Tools!Tested(Tools!head(inMain)) /\ wizard = "running"
    BY <1>5 DEF ToolsSure
  <2> QED
    OBVIOUS
<1> HIDE DEF new, sure
<1>7. commands' \in Seq(ToolsCalls)
  BY <1>1, <1>2, <1>4
<1>8. \A i \in DOMAIN commands' : ToolsSure(i, commands'[i], Tools!head(inMain)', wizard')
  <2> SUFFICES ASSUME NEW i \in DOMAIN commands' PROVE ToolsSure(i, commands'[i], Tools!head(inMain)', wizard')
    OBVIOUS
  <2>1. \/ i \in DOMAIN commands /\ commands'[i] = commands[i]
        \/ i = Len(commands) + 1 /\ commands'[i] = new
    BY <1>1, <1>2, <1>4
  <2>2. CASE i \in DOMAIN commands /\ commands'[i] = commands[i]
    BY <1>1, <1>5, <2>2 DEF ToolsSure
  <2>3. CASE i = Len(commands) + 1 /\ commands'[i] = new
    BY <1>6, <2>3 DEF ToolsSure, new, sure
  <2> QED
    BY <2>1, <2>2, <2>3
<1> QED
  BY <1>7, <1>8, ToolsFold

\* The first request is answered: nothing that is left is a verdict that is sure.
LEMMA ToolsAnswered ==
  ASSUME ToolsInv, commands # <<>>, commands' = Tools!Awaited
  PROVE  ToolsQueued'
<1> DEFINE m == [commands[1] EXCEPT !.todo = Tail(@)]
<1>1. commands \in Seq(ToolsCalls) /\ \A i \in DOMAIN commands : ToolsSure(i, commands[i], Tools!head(inMain), wizard)
  BY DEF ToolsInv, ToolsQueued
<1>2. commands[1] \in ToolsCalls
  BY ToolsFirst
<1>3. Len(commands[1].todo) # 1 => m \in ToolsCalls /\ m.by = "start"
  BY <1>2, ToolsGoesOn
<1>4. commands' = IF Len(commands[1].todo) = 1 THEN Tail(commands) ELSE Append(Tail(commands), m)
  BY DEF Tools!Awaited
<1> HIDE DEF m
<1>5. /\ Tail(commands) \in Seq(ToolsCalls) /\ Len(Tail(commands)) = Len(commands) - 1 /\ Len(commands) \in Nat
      /\ \A i \in 1..(Len(commands) - 1) : Tail(commands)[i] = commands[i + 1] /\ i + 1 \in DOMAIN commands
  BY <1>1
<1>6. ASSUME NEW i \in 1..(Len(commands) - 1)
      PROVE  ~(Tail(commands)[i].by = "mark" /\ Tail(commands)[i].sure)
  <2>1. i + 1 # 1 /\ ToolsSure(i + 1, commands[i + 1], Tools!head(inMain), wizard) /\ Tail(commands)[i] = commands[i + 1]
    BY <1>1, <1>5
  <2> QED
    BY <2>1 DEF ToolsSure
<1>7. commands' \in Seq(ToolsCalls)
  BY <1>3, <1>4, <1>5
<1>8. \A i \in DOMAIN commands' : ~(commands'[i].by = "mark" /\ commands'[i].sure)
  <2> SUFFICES ASSUME NEW i \in DOMAIN commands' PROVE ~(commands'[i].by = "mark" /\ commands'[i].sure)
    OBVIOUS
  <2>1. \/ i \in 1..(Len(commands) - 1) /\ commands'[i] = Tail(commands)[i]
        \/ Len(commands[1].todo) # 1 /\ commands'[i] = m
    BY <1>3, <1>4, <1>5
  <2> QED
    BY <1>3, <1>6, <2>1
<1> QED
  BY <1>7, <1>8, ToolsFold DEF ToolsSure

\* A command moves HEAD, if it does, to a commit of the line.
LEMMA ToolsGoesTo ==
  ASSUME ToolsInv, Tools!Bisect
  PROVE  \E c \in Tools!Line : logs' \in {logs, Tools!Moved(inMain, c)}
<1>0. Tools!head(inMain) \in Tools!Line /\ inMain \in Trees /\ Tools!Begun(session[inMain]) \in Tools!Line
  BY ToolsHead, ToolsBegun DEF ToolsInv
<1>1. CASE Tools!bisectStart \/ Tools!bisectReset
  BY <1>0, <1>1 DEF Tools!bisectStart, Tools!bisectReset, Tools!HeadAt
<1>2. ASSUME NEW stays \in BOOLEAN, Tools!bisectGoodOrBad(stays)
      PROVE  \E c \in Tools!Line : logs' \in {logs, Tools!Moved(inMain, c)}
  <2> DEFINE s == Tools!Marked(session[inMain], commands[1].todo[1].op,
                               IF commands[1].todo[1].sha = 0 THEN Tools!head(inMain) ELSE commands[1].todo[1].sha)
  <2>1. PICK moves \in BOOLEAN :
          /\ moves => session[inMain] # None /\ Tools!Known(s) /\ s.good + 1 < s.bad
          /\ Tools!HeadAt(IF moves THEN (s.good + s.bad) \div 2 ELSE Tools!head(inMain))
    <3> DEFINE b == session[inMain] # None /\ Tools!Known(s) /\ s.good + 1 < s.bad /\ ~stays
    <3>1. Tools!HeadAt(IF b THEN (s.good + s.bad) \div 2 ELSE Tools!head(inMain)) /\ b \in BOOLEAN
      BY <1>2 DEF Tools!bisectGoodOrBad
    <3> QED
      BY <3>1
  <2>2. ASSUME session[inMain] # None
        PROVE  s.good \in Int /\ s.bad \in Int
    <3>1. commands[1].todo[1].sha \in 0..Commits
      BY <1>2, ToolsFirst DEF Tools!bisectGoodOrBad, Tools!Asks, ToolsCommands
    <3>2. /\ session[inMain] = [from |-> session[inMain].from, good |-> session[inMain].good, bad |-> session[inMain].bad]
          /\ session[inMain].good \in Int /\ session[inMain].bad \in Int
      BY <1>0, <2>2 DEF ToolsInv, Tools!Bracketed
    <3> QED
      BY <1>0, <3>1, <3>2 DEF Tools!Marked, Tools!Line
  <2> HIDE DEF s
  <2>3. moves => (s.good + s.bad) \div 2 \in Tools!Line
    <3> SUFFICES ASSUME moves PROVE (s.good + s.bad) \div 2 \in Tools!Line
      OBVIOUS
    <3>1. s.good \in Int /\ s.bad \in Int /\ s.good > 0 /\ s.bad <= Commits /\ s.good + 1 < s.bad /\ Commits \in Int
      BY <2>1, <2>2, ToolsAssumption DEF Tools!Known
    <3> DEFINE x == s.good
               y == s.bad
    <3>2. x \in Int /\ y \in Int /\ x > 0 /\ y <= Commits /\ x + 1 < y /\ Commits \in Int
      BY <3>1
    <3> HIDE DEF x, y
    <3>3. (x + y) \div 2 \in 1..Commits
      BY <3>2
    <3> QED
      BY <3>3 DEF Tools!Line, x, y
  <2> QED
    BY <1>0, <2>1, <2>3 DEF Tools!HeadAt
<1> QED
  BY <1>1, <1>2 DEF Tools!Bisect

\* What git lists stays a list of commits.
LEMMA ToolsLists ==
  ASSUME ToolsInv, [Tools!Next]_toolsVars
  PROVE  Tools!Listed'
<1> USE DEF Tools!reflog, Tools!trees
<1>0. Tools!Listed
  BY DEF ToolsInv
<1>a. /\ inMain \in Trees /\ arriving \in Seq(Trees)
      /\ logs \in [Trees -> Seq(Tools!Line) \ {<<>>}]
      /\ rows \in Seq(Tools!Line) /\ \A x \in readings : ToolsReading(x)
      /\ confirmSha \in 0..Commits
  BY <1>0 DEF Tools!Listed, ToolsReading
<1>b. <<>> \in Seq(Tools!Line) /\ 0 \in 0..Commits
  BY ToolsAssumption
<1>1. CASE UNCHANGED <<inMain, arriving, logs, rows, readings, confirmSha>>
  BY <1>1, <1>a DEF Tools!Listed, ToolsReading
<1>2. ASSUME UNCHANGED <<inMain, arriving, logs>>, rows' \in Seq(Tools!Line), confirmSha' \in 0..Commits,
             \A x \in readings' : ToolsReading(x)
      PROVE  Tools!Listed'
  BY <1>2, <1>a DEF Tools!Listed, ToolsReading
<1>3. \A x \in {[y EXCEPT !.live = FALSE] : y \in readings} : ToolsReading(x)
  <2>1. ASSUME NEW y \in readings PROVE ToolsReading([y EXCEPT !.live = FALSE])
    BY <1>a, ToolsStale
  <2> QED
    BY <2>1
<1>4. ASSUME NEW t, Tools!getReflog(t)
      PROVE  \A x \in readings' : ToolsReading(x)
  <2>1. ToolsReading([of |-> t, live |-> TRUE, answer |-> <<>>])
    BY <1>b DEF ToolsReading
  <2> QED
    BY <1>4, <1>3, <2>1 DEF Tools!getReflog
<1>5. CASE Tools!OpenReflog
  BY <1>5, <1>2, <1>4, <1>b DEF Tools!OpenReflog
<1>6. CASE Tools!ClosePanel \/ Tools!OpenBisect
  BY <1>6, <1>2, <1>3, <1>a, <1>b DEF Tools!ClosePanel, Tools!OpenBisect
<1>7. CASE Tools!Wizard
  BY <1>7, <1>1 DEF Tools!Wizard, Tools!mark, Tools!handleStart, Tools!handleReset, Tools!bisectMark
<1>16. CASE Tools!Bisect
  <2>1. UNCHANGED <<inMain, arriving, rows, readings, confirmSha>>
    BY <1>16 DEF Tools!Bisect, Tools!bisectStart, Tools!bisectGoodOrBad, Tools!bisectReset
  <2>2. logs' \in [Trees -> Seq(Tools!Line) \ {<<>>}]
    BY <1>16, <1>0, <1>a, ToolsGoesTo, ToolsMoves
  <2> QED
    BY <2>1, <2>2, <1>a DEF Tools!Listed, ToolsReading
<1>8. CASE Tools!setRepoPath
  <2>1. /\ UNCHANGED <<inMain, logs, rows, confirmSha>> /\ arriving # <<>> /\ arriving' = Tail(arriving)
        /\ \/ UNCHANGED readings \/ \E t : Tools!getReflog(t)
    BY <1>8 DEF Tools!setRepoPath
  <2>2. \A x \in readings' : ToolsReading(x)
    BY <2>1, <1>4, <1>a
  <2>3. arriving' \in Seq(Trees)
    BY <2>1, <1>a
  <2> QED
    BY <2>1, <2>2, <2>3, <1>a DEF Tools!Listed, ToolsReading
<1>9. CASE Tools!doRestore
  <2>1. UNCHANGED <<inMain, arriving, rows>> /\ logs' = Tools!Moved(inMain, confirmSha) /\ confirmSha # 0 /\ confirmSha' = 0
        /\ readings' = {[x EXCEPT !.live = FALSE] : x \in readings}
    BY <1>9 DEF Tools!doRestore
  <2>2. confirmSha \in Tools!Line
    BY <2>1, <1>a, ToolsAssumption DEF Tools!Line
  <2>3. logs' \in [Trees -> Seq(Tools!Line) \ {<<>>}]
    BY <2>1, <2>2, <1>0, <1>a, ToolsMoves
  <2> QED
    BY <2>1, <2>3, <1>3, <1>a, <1>b DEF Tools!Listed, ToolsReading
<1>10. ASSUME NEW x \in readings, Tools!ReflogRead(x)
       PROVE  Tools!Listed'
  <2>1. /\ UNCHANGED <<inMain, arriving, logs, rows, confirmSha>>
        /\ readings' = (readings \ {x}) \cup {[x EXCEPT !.answer = logs[inMain]]}
    BY <1>10 DEF Tools!ReflogRead
  <2>2. ToolsReading([x EXCEPT !.answer = logs[inMain]])
    BY <1>a DEF ToolsReading
  <2> QED
    BY <2>1, <2>2, <1>2, <1>a
<1>11. ASSUME NEW x \in readings, Tools!ReflogShown(x)
       PROVE  Tools!Listed'
  <2>1. /\ UNCHANGED <<inMain, arriving, logs, confirmSha>> /\ readings' = readings \ {x}
        /\ rows' \in {rows, x.answer}
    BY <1>11 DEF Tools!ReflogShown
  <2>2. x.answer \in Seq(Tools!Line)
    BY <1>a DEF ToolsReading
  <2> QED
    BY <2>1, <2>2, <1>2, <1>a
<1>12. ASSUME NEW i \in DOMAIN rows, Tools!AskRestore(i)
       PROVE  Tools!Listed'
  <2>1. confirmSha' = rows[i] /\ UNCHANGED <<inMain, arriving, logs, rows, readings>>
    BY <1>12 DEF Tools!AskRestore
  <2>2. rows[i] \in Tools!Line
    BY <1>a
  <2>3. confirmSha' \in 0..Commits
    BY <2>1, <2>2, ToolsAssumption DEF Tools!Line
  <2> QED
    BY <2>1, <2>3, <1>2, <1>a
<1>13. ASSUME NEW t \in Trees, Tools!openPath(t)
       PROVE  Tools!Listed'
  <2>1. UNCHANGED <<logs, rows, readings, confirmSha>> /\ inMain' = t /\ arriving' = Append(arriving, t)
    BY <1>13 DEF Tools!openPath
  <2>2. arriving' \in Seq(Trees)
    BY <2>1, <1>a
  <2> QED
    BY <2>1, <2>2, <1>a DEF Tools!Listed, ToolsReading
<1>14. ASSUME NEW t \in Trees, NEW c \in {1, Commits}, Tools!HeadMoves(t, c)
       PROVE  Tools!Listed'
  <2>1. UNCHANGED <<inMain, arriving, rows, readings, confirmSha>> /\ logs' = Tools!Moved(t, c)
    BY <1>14 DEF Tools!HeadMoves
  <2>2. c \in Tools!Line
    BY ToolsAssumption DEF Tools!Line
  <2>3. logs' \in [Trees -> Seq(Tools!Line) \ {<<>>}]
    BY <1>0, <2>1, <2>2, ToolsMoves
  <2> QED
    BY <2>1, <2>3, <1>a DEF Tools!Listed, ToolsReading
<1>15. CASE UNCHANGED toolsVars
  BY <1>15, <1>1 DEF toolsVars
<1> QED
  BY <1>5, <1>6, <1>7, <1>8, <1>9, <1>10, <1>11, <1>12, <1>13, <1>14, <1>15, <1>16 DEF Tools!Next, Tools!Reflog

\* The queue of what is awaited, step by step.
LEMMA ToolsQueues ==
  ASSUME ToolsInv, [Tools!Next]_toolsVars
  PROVE  ToolsQueued'
<1> USE DEF Tools!trees
<1>0. Tools!Listed /\ commands \in Seq(ToolsCalls) /\ Tools!head(inMain) \in Tools!Line
  BY ToolsHead DEF ToolsInv, ToolsQueued
<1>1. CASE Tools!OpenReflog \/ Tools!ClosePanel \/ Tools!OpenBisect
  BY <1>1, ToolsCloses, ToolsWaits DEF Tools!OpenReflog, Tools!ClosePanel, Tools!OpenBisect
<1>2. CASE Tools!doRestore \/ \E t \in Trees : Tools!openPath(t) \/ \E c \in {1, Commits} : Tools!HeadMoves(t, c)
  BY <1>2, ToolsUnsure DEF Tools!doRestore, Tools!openPath, Tools!HeadMoves
<1>3. CASE \/ Tools!setRepoPath \/ UNCHANGED toolsVars
           \/ \E x \in readings : Tools!ReflogRead(x) \/ Tools!ReflogShown(x)
           \/ \E i \in DOMAIN rows : Tools!AskRestore(i)
  BY <1>3, ToolsWaits DEF Tools!setRepoPath, Tools!ReflogRead, Tools!ReflogShown, Tools!AskRestore, Tools!bisect, toolsVars
<1>4. CASE Tools!Bisect
  BY <1>4, ToolsAnswered DEF Tools!Bisect, Tools!bisectStart, Tools!bisectGoodOrBad, Tools!bisectReset, Tools!Asks
<1>5. ASSUME NEW x \in ToolsCommands
      PROVE  <<x>> \in Seq(ToolsCommands) /\ <<x>> # <<>> /\ Len(<<x>>) = 1 /\ <<x>>[1] = x
  OBVIOUS
<1>6. ASSUME NEW op \in Tools!Verdicts \cup {"start", "reset"}, NEW sha \in 0..Commits
      PROVE  /\ Tools!Command(op, sha) \in ToolsCommands
             /\ Tools!Command(op, sha).op = op /\ Tools!Command(op, sha).sha = sha
  BY DEF ToolsCommands, Tools!Command
<1>7. \A c : Tools!Tested(c) \in Tools!Verdicts
  BY DEF Tools!Tested, Tools!Verdicts
<1>8. Tools!Line \subseteq 0..Commits /\ 0 \in 0..Commits /\ 0 \notin Tools!Line
  BY ToolsAssumption DEF Tools!Line
<1>9. CASE Tools!mark
  <2> DEFINE x == Tools!Command(Tools!Tested(Tools!head(inWindow)), 0)
  <2>1. x \in ToolsCommands /\ x.op = Tools!Tested(Tools!head(inWindow)) /\ x.sha = 0
    BY <1>6, <1>7, <1>8
  <2>2. /\ Tools!Send("mark", <<x>>) /\ UNCHANGED <<wizard, inMain, logs>> /\ wizard = "running"
    BY <1>9 DEF Tools!mark, Tools!Verdict
  <2> HIDE DEF x
  <2>3. \A live, sure \in BOOLEAN : [by |-> "mark", todo |-> <<x>>, live |-> live, sure |-> sure] \in ToolsCalls
    BY <1>5, <2>1 DEF ToolsCalls
  <2> QED
    BY <1>5, <2>1, <2>2, <2>3, ToolsSends
<1>10. CASE Tools!handleReset
  <2> DEFINE x == Tools!Command("reset", 0)
  <2>1. x \in ToolsCommands /\ x.op = "reset" /\ x.sha = 0
    BY <1>6, <1>8
  <2>2. /\ Tools!Send("reset", <<x>>) /\ UNCHANGED <<wizard, inMain, logs>>
    BY <1>10 DEF Tools!handleReset
  <2> HIDE DEF x
  <2>3. \A live, sure \in BOOLEAN : [by |-> "reset", todo |-> <<x>>, live |-> live, sure |-> sure] \in ToolsCalls
    BY <1>5, <2>1 DEF ToolsCalls
  <2> QED
    BY <2>2, <2>3, ToolsSends
<1>11. ASSUME NEW c \in Tools!Line, Tools!bisectMark(c)
       PROVE  ToolsQueued'
  <2> DEFINE x == Tools!Command(Tools!Tested(c), c)
  <2>1. x \in ToolsCommands /\ x.op = Tools!Tested(c) /\ x.sha = c
    BY <1>6, <1>7, <1>8
  <2>2. /\ Tools!Send("menu", <<x>>) /\ UNCHANGED <<wizard, inMain, logs>>
    BY <1>11 DEF Tools!bisectMark
  <2> HIDE DEF x
  <2>3. \A live, sure \in BOOLEAN : [by |-> "menu", todo |-> <<x>>, live |-> live, sure |-> sure] \in ToolsCalls
    BY <1>5, <2>1 DEF ToolsCalls
  <2> QED
    BY <2>2, <2>3, ToolsSends
<1>12. ASSUME NEW good \in Tools!Line, NEW bad \in Tools!Line \cup {0}, Tools!handleStart(good, bad)
       PROVE  ToolsQueued'
  <2> DEFINE x == Tools!Command("start", 0)
             y == Tools!Command("bad", bad)
             z == Tools!Command("good", good)
  <2>1. {x, y, z} \subseteq ToolsCommands
    BY <1>6, <1>8 DEF Tools!Verdicts
  <2>2. /\ Tools!Send("start", <<x, y, z>>) /\ UNCHANGED <<wizard, inMain, logs>>
    BY <1>12 DEF Tools!handleStart
  <2> HIDE DEF x, y, z
  <2>3. <<x, y, z>> \in Seq(ToolsCommands) /\ <<x, y, z>> # <<>>
    BY <2>1
  <2>4. \A live, sure \in BOOLEAN : [by |-> "start", todo |-> <<x, y, z>>, live |-> live, sure |-> sure] \in ToolsCalls
    BY <2>3 DEF ToolsCalls
  <2> QED
    BY <2>2, <2>4, ToolsSends
<1> QED
  BY <1>1, <1>2, <1>3, <1>4, <1>9, <1>10, <1>11, <1>12 DEF Tools!Next, Tools!Wizard, Tools!Reflog

\* A session that is sound: the fault is between its ends, unless it was misled.
ToolsSession(s, sound) ==
  /\ s = [from |-> s.from, good |-> s.good, bad |-> s.bad]
  /\ s.from \in Tools!Line /\ {s.good, s.bad} \subseteq Int
  /\ sound => s.good < FirstBad /\ FirstBad <= s.bad
ToolsSound(t) == session[t] # None => ToolsSession(session[t], t \notin spoilt)

\* The sessions of the others stay as they are.
LEMMA ToolsOthers ==
  ASSUME ToolsInv, NEW s, session' = [session EXCEPT ![inMain] = s], s # None => ToolsSession(s, inMain \notin spoilt'),
         spoilt' \in {spoilt, spoilt \cup {inMain}, spoilt \ {inMain}},
         wizard' = "done" /\ ~doubt' => output' = FirstBad
  PROVE  Tools!Bracketed' /\ DOMAIN session' = Trees
<1>1. \A t \in Trees : ToolsSound(t)
  BY DEF ToolsInv, Tools!Bracketed, ToolsSound, ToolsSession
<1>2. inMain \in Trees /\ DOMAIN session = Trees
  BY DEF ToolsInv, Tools!Listed
<1>3. ASSUME NEW t \in Trees, session'[t] # None
      PROVE  ToolsSession(session'[t], t \notin spoilt')
  <2>1. CASE t = inMain
    BY <1>2, <1>3, <2>1
  <2>2. CASE t # inMain
    <3>1. session'[t] = session[t] /\ (t \notin spoilt' <=> t \notin spoilt)
      BY <1>2, <2>2
    <3> QED
      BY <1>1, <1>3, <3>1 DEF ToolsSound, ToolsSession
  <2> QED
    BY <2>1, <2>2
<1>4. DOMAIN session' = Trees
  BY <1>2
<1>5. Tools!Bracketed'
  BY <1>3 DEF Tools!Bracketed, ToolsSession, Tools!Line
<1> QED
  BY <1>4, <1>5

\* A verdict narrows the session around the fault if it is right.
LEMMA ToolsNarrows ==
  ASSUME NEW s, NEW sound \in BOOLEAN, ToolsSession(s, sound), NEW v \in Tools!Verdicts, NEW c \in Tools!Line,
         NEW right \in BOOLEAN, right => v = Tools!Tested(c)
  PROVE  /\ ToolsSession(Tools!Marked(s, v, c), sound /\ right)
         /\ sound /\ right /\ Tools!Culprit(Tools!Marked(s, v, c)) # None
              => Tools!Culprit(Tools!Marked(s, v, c)) = FirstBad
<1> DEFINE m == Tools!Marked(s, v, c)
           good == IF v # "bad" /\ c > s.good THEN c ELSE s.good
           bad == IF v = "bad" THEN c ELSE s.bad
<1>1. /\ s = [from |-> s.from, good |-> s.good, bad |-> s.bad] /\ s.from \in Tools!Line
      /\ s.good \in Int /\ s.bad \in Int /\ (sound => s.good < FirstBad /\ FirstBad <= s.bad)
      /\ c \in Int /\ FirstBad \in Int
  BY ToolsAssumption DEF ToolsSession, Tools!Line
<1>2. m = [from |-> s.from, good |-> good, bad |-> bad]
  BY <1>1 DEF Tools!Marked
<1>3. right => (v = "bad" => FirstBad <= c) /\ (v # "bad" => c < FirstBad)
  BY <1>1 DEF Tools!Tested
<1>4. good \in Int /\ bad \in Int /\ (sound /\ right => good < FirstBad /\ FirstBad <= bad)
  BY <1>1, <1>3
<1> HIDE DEF m, good, bad
<1>5. m.from = s.from /\ m.good = good /\ m.bad = bad
  BY <1>2
<1>6. ToolsSession(m, sound /\ right)
  BY <1>1, <1>2, <1>4, <1>5 DEF ToolsSession
<1>7. ASSUME sound, right, Tools!Culprit(m) # None PROVE Tools!Culprit(m) = FirstBad
  <2>1. m.bad = m.good + 1 /\ Tools!Culprit(m) = m.bad
    BY <1>7 DEF Tools!Culprit
  <2> QED
    BY <1>1, <1>4, <1>5, <1>7, <2>1
<1> QED
  BY <1>6, <1>7 DEF m

\* git's part of a verdict.
LEMMA ToolsVerdict ==
  ASSUME ToolsInv, NEW stays \in BOOLEAN, Tools!bisectGoodOrBad(stays)
  PROVE  Tools!Bracketed' /\ DOMAIN session' = Trees
<1> DEFINE call == commands[1]
           v == call.todo[1].op
           c == IF call.todo[1].sha = 0 THEN Tools!head(inMain) ELSE call.todo[1].sha
           before == session[inMain]
           s == Tools!Marked(before, v, c)
           wrong == \/ call.by = "start" /\ v # Tools!Tested(c)
                    \/ call.by = "mark" /\ ~call.sure
           culprit == IF before = None THEN None ELSE Tools!Culprit(s)
<1>1. /\ commands # <<>> /\ v \in Tools!Verdicts
      /\ session' = IF before = None THEN session ELSE [session EXCEPT ![inMain] = s]
      /\ spoilt' = IF wrong THEN spoilt \cup {inMain} ELSE spoilt
  BY DEF Tools!bisectGoodOrBad, Tools!Asks
<1>2. \/ /\ Tools!Answers("start") \/ Tools!Answers("mark")
         /\ output' = culprit /\ doubt' = (inMain \in spoilt')
         /\ wizard' = IF Tools!Answers("start") THEN "running" ELSE IF culprit # None THEN "done" ELSE wizard
      \/ UNCHANGED <<output, wizard, doubt>>
  BY DEF Tools!bisectGoodOrBad
<1>3. call \in ToolsCalls /\ ToolsSure(1, call, Tools!head(inMain), wizard) /\ call.todo[1] \in ToolsCommands
  BY <1>1, ToolsFirst
<1>4. Tools!head(inMain) \in Tools!Line /\ inMain \in Trees
  BY ToolsHead DEF ToolsInv
<1>5. c \in Tools!Line /\ (call.todo[1].sha = 0 => c = Tools!head(inMain)) /\ (call.todo[1].sha # 0 => c = call.todo[1].sha)
  BY <1>3, <1>4, ToolsAssumption DEF ToolsCommands, Tools!Line
<1>6. ~wrong => v = Tools!Tested(c)
  <2>1. call.by \in {"start", "mark", "reset", "menu"}
    BY <1>3 DEF ToolsCalls
  <2>2. call.by # "reset"
    BY <1>1, <1>3 DEF ToolsCalls, Tools!Verdicts
  <2>3. ASSUME call.by = "mark", call.sure PROVE v = Tools!Tested(c)
    BY <1>3, <1>5, <2>3 DEF ToolsCalls, ToolsSure
  <2>4. ASSUME call.by = "menu" PROVE v = Tools!Tested(c)
    <3>1. call.todo[1].sha \in Tools!Line /\ v = Tools!Tested(call.todo[1].sha)
      BY <1>3, <2>4 DEF ToolsCalls
    <3>2. call.todo[1].sha # 0
      BY <3>1, ToolsAssumption DEF Tools!Line
    <3> QED
      BY <1>5, <3>1, <3>2
  <2> QED
    BY <2>1, <2>2, <2>3, <2>4
<1>7. before # None => ToolsSession(before, inMain \notin spoilt)
  BY <1>4 DEF ToolsInv, Tools!Bracketed, ToolsSession
<1>8. before # None => /\ ToolsSession(s, inMain \notin spoilt /\ ~wrong)
                       /\ inMain \notin spoilt /\ ~wrong /\ Tools!Culprit(s) # None => Tools!Culprit(s) = FirstBad
  <2> SUFFICES ASSUME before # None
               PROVE  /\ ToolsSession(s, inMain \notin spoilt /\ ~wrong)
                      /\ inMain \notin spoilt /\ ~wrong /\ Tools!Culprit(s) # None => Tools!Culprit(s) = FirstBad
    OBVIOUS
  <2>1. (~wrong) \in BOOLEAN /\ (inMain \notin spoilt) \in BOOLEAN
    OBVIOUS
  <2>2. ToolsSession(before, inMain \notin spoilt)
    BY <1>7
  <2> HIDE DEF wrong, c, v, before
  <2> QED
    BY <1>1, <1>5, <1>6, <2>1, <2>2, ToolsNarrows
<1>9. inMain \notin spoilt' <=> inMain \notin spoilt /\ ~wrong
  BY <1>1
<1>10. ASSUME wizard' = "done", ~doubt' PROVE output' = FirstBad
  <2>1. CASE UNCHANGED <<output, wizard, doubt>>
    BY <1>10, <2>1 DEF ToolsInv, Tools!Bracketed
  <2>2. CASE /\ Tools!Answers("start") \/ Tools!Answers("mark")
             /\ output' = culprit /\ doubt' = (inMain \in spoilt')
             /\ wizard' = IF Tools!Answers("start") THEN "running" ELSE IF culprit # None THEN "done" ELSE wizard
    <3>1. ~Tools!Answers("start") /\ Tools!Answers("mark") /\ inMain \notin spoilt /\ ~wrong
      BY <1>9, <1>10, <2>2
    <3>2. call.by = "mark" /\ call.live /\ call.sure
      BY <3>1 DEF Tools!Answers
    <3>3. wizard = "running"
      BY <1>3, <3>2 DEF ToolsSure
    <3>4. culprit # None /\ output' = culprit
      BY <1>10, <2>2, <3>1, <3>3
    <3>5. before # None /\ output' = Tools!Culprit(s) /\ Tools!Culprit(s) # None
      BY <3>4
    <3> HIDE DEF wrong, before, s, culprit
    <3> QED
      BY <1>8, <3>1, <3>5
  <2> QED
    BY <1>2, <2>1, <2>2
<1>11. CASE before = None
  <2>1. session' = session /\ spoilt \subseteq spoilt'
    BY <1>1, <1>11
  <2>2. ASSUME NEW t \in Trees, session[t] # None
        PROVE  ToolsSession(session[t], t \notin spoilt')
    BY <2>1, <2>2 DEF ToolsInv, Tools!Bracketed, ToolsSession
  <2>3. ASSUME NEW t \in Trees, session'[t] # None
        PROVE  ToolsSession(session'[t], t \notin spoilt')
    BY <2>1, <2>2, <2>3
  <2>4. Tools!Bracketed'
    BY <1>10, <2>3 DEF Tools!Bracketed, ToolsSession, Tools!Line
  <2> QED
    BY <2>1, <2>4 DEF ToolsInv
<1>12. CASE before # None
  <2>1. session' = [session EXCEPT ![inMain] = s]
    BY <1>1, <1>12
  <2>2. ToolsSession(s, inMain \notin spoilt')
    BY <1>8, <1>9, <1>12 DEF ToolsSession
  <2> HIDE DEF s
  <2> QED
    BY <1>1, <1>10, <2>1, <2>2, ToolsOthers
<1> QED
  BY <1>11, <1>12

\* The sessions, step by step.
LEMMA ToolsBrackets ==
  ASSUME ToolsInv, [Tools!Next]_toolsVars
  PROVE  Tools!Bracketed' /\ DOMAIN session' = Trees
<1>1. CASE UNCHANGED <<session, spoilt, doubt>> /\ (UNCHANGED <<wizard, output>> \/ wizard' = "idle")
  BY <1>1 DEF ToolsInv, Tools!Bracketed
<1>2. CASE Tools!OpenReflog \/ Tools!ClosePanel \/ Tools!OpenBisect
  BY <1>2, <1>1 DEF Tools!OpenReflog, Tools!ClosePanel, Tools!OpenBisect, Tools!CloseWizard
<1>3. CASE \/ Tools!setRepoPath \/ UNCHANGED toolsVars
           \/ \E x \in readings : Tools!ReflogRead(x) \/ Tools!ReflogShown(x)
           \/ \E i \in DOMAIN rows : Tools!AskRestore(i)
           \/ Tools!doRestore \/ \E t \in Trees : Tools!openPath(t) \/ \E c \in {1, Commits} : Tools!HeadMoves(t, c)
  BY <1>3, <1>1 DEF Tools!setRepoPath, Tools!ReflogRead, Tools!ReflogShown, Tools!AskRestore, Tools!bisect, toolsVars,
                    Tools!doRestore, Tools!openPath, Tools!HeadMoves
<1>4. CASE Tools!Wizard
  BY <1>4, <1>1 DEF Tools!Wizard, Tools!mark, Tools!handleStart, Tools!handleReset, Tools!bisectMark
<1>5. CASE Tools!bisectStart
  <2> DEFINE s == [from |-> Tools!Begun(session[inMain]), good |-> 0, bad |-> Commits + 1]
  <2>1. session' = [session EXCEPT ![inMain] = s] /\ spoilt' = spoilt \ {inMain} /\ UNCHANGED <<wizard, output, doubt>>
    BY <1>5 DEF Tools!bisectStart
  <2>2. ToolsSession(s, TRUE)
    BY ToolsBegun, ToolsAssumption DEF ToolsSession
  <2>3. ToolsSession(s, inMain \notin spoilt')
    BY <2>2 DEF ToolsSession
  <2> HIDE DEF s
  <2>4. wizard' = "done" /\ ~doubt' => output' = FirstBad
    BY <2>1 DEF ToolsInv, Tools!Bracketed
  <2> QED
    BY <2>1, <2>3, <2>4, ToolsOthers
<1>6. CASE Tools!bisectReset
  <2>1. session' = [session EXCEPT ![inMain] = None] /\ spoilt' = spoilt /\ UNCHANGED doubt
        /\ (UNCHANGED <<wizard, output>> \/ wizard' = "idle")
    BY <1>6 DEF Tools!bisectReset
  <2>2. wizard' = "done" /\ ~doubt' => output' = FirstBad
    BY <2>1 DEF ToolsInv, Tools!Bracketed
  <2> QED
    BY <2>1, <2>2, ToolsOthers
<1>7. CASE \E stays \in BOOLEAN : Tools!bisectGoodOrBad(stays)
  BY <1>7, ToolsVerdict
<1> QED
  BY <1>2, <1>3, <1>4, <1>5, <1>6, <1>7 DEF Tools!Next, Tools!Bisect, Tools!Reflog

\* CulpritIsTheFirstBad, for every line of commits, every fault in it, any number of worktrees and of clicks.
THEOREM BisectFindsTheFault == SideBySide => []CulpritIsTheFirstBad
<1>1. Start => ToolsInv
  <2> SUFFICES ASSUME Tools!Init PROVE ToolsInv
    BY DEF Start
  <2>1. Tools!Listed
    <3>1. /\ inMain \in Trees /\ arriving = <<>> /\ rows = <<>> /\ readings = {} /\ confirmSha = 0
          /\ logs \in [Trees -> {<<c>> : c \in {1, Commits}}]
      BY DEF Tools!Init
    <3>2. \A c \in {1, Commits} : <<c>> # <<>> /\ <<c>> \in Seq(Tools!Line)
      <4>1. \A c \in {1, Commits} : c \in Tools!Line
        BY ToolsAssumption DEF Tools!Line
      <4> QED
        BY <4>1
    <3>3. logs \in [Trees -> Seq(Tools!Line) \ {<<>>}]
      BY <3>1, <3>2
    <3> QED
      BY <3>1, <3>3, ToolsAssumption DEF Tools!Listed
  <2>2. session = [t \in Trees |-> None] /\ wizard = "idle" /\ commands = <<>>
    BY DEF Tools!Init
  <2>3. Tools!Bracketed /\ DOMAIN session = Trees
    BY <2>2 DEF Tools!Bracketed
  <2>4. ToolsQueued
    BY <2>2 DEF ToolsQueued
  <2> QED
    BY <2>1, <2>3, <2>4 DEF ToolsInv
<1>2. ToolsInv /\ [Step]_<<focus, windowVars, shellVars, dockVars, toolsVars, accountsVars, updaterVars,
                          serverVars, phoneVars, reviewVars, handsetVars>> => ToolsInv'
  <2>1. [Step]_<<focus, windowVars, shellVars, dockVars, toolsVars, accountsVars, updaterVars, serverVars, phoneVars,
                 reviewVars, handsetVars>> => [Tools!Next]_toolsVars
    BY DEF Step
  <2> QED
    BY <2>1, ToolsLists, ToolsBrackets, ToolsQueues DEF ToolsInv
<1>3. ToolsInv => CulpritIsTheFirstBad
  BY DEF ToolsInv, Tools!Bracketed, CulpritIsTheFirstBad, Tools!CulpritIsTheFirstBad
<1> QED
  BY <1>1, <1>2, <1>3, PTL DEF SideBySide

----------------------------------------------------------------------------
\* The console.

\* What happens to the events that are alike when some are added or the first is taken.
DockAlike(s, e) == {i \in DOMAIN s : s[i] = e}

LEMMA DockAlikeFinite ==
  ASSUME NEW S, NEW s \in Seq(S), NEW e
  PROVE  IsFiniteSet(DockAlike(s, e)) /\ Cardinality(DockAlike(s, e)) \in Nat
<1>1. Len(s) \in Nat /\ DOMAIN s = 1..Len(s)
  OBVIOUS
<1>2. IsFiniteSet(1..Len(s))
  BY <1>1, FS_Interval
<1>3. DockAlike(s, e) \in SUBSET (1..Len(s))
  BY <1>1 DEF DockAlike
<1>4. IsFiniteSet(DockAlike(s, e))
  BY <1>2, <1>3, FS_Subset
<1> QED
  BY <1>4, FS_CardinalityType

LEMMA DockTakes ==
  ASSUME NEW S, NEW s \in Seq(S), s # <<>>, NEW e
  PROVE  Cardinality(DockAlike(Tail(s), e)) = Cardinality(DockAlike(s, e)) - (IF Head(s) = e THEN 1 ELSE 0)
<1> DEFINE A == DockAlike(Tail(s), e)
           B == DockAlike(s, e) \ {1}
           f == [i \in A |-> i + 1]
<1>1. /\ Len(s) \in Nat /\ Len(s) # 0 /\ DOMAIN s = 1..Len(s) /\ Head(s) = s[1]
      /\ Tail(s) \in Seq(S) /\ DOMAIN Tail(s) = 1..(Len(s) - 1)
      /\ \A i \in 1..(Len(s) - 1) : Tail(s)[i] = s[i + 1]
  OBVIOUS
<1>2. f \in Bijection(A, B)
  <2>1. ASSUME NEW i \in A PROVE i + 1 \in B /\ i \in Int
    BY <1>1 DEF DockAlike
  <2>2. ASSUME NEW j \in B PROVE j - 1 \in A /\ f[j - 1] = j
    <3>1. j \in 1..Len(s) /\ j # 1 /\ s[j] = e
      BY <1>1 DEF DockAlike
    <3>2. j - 1 \in 1..(Len(s) - 1) /\ (j - 1) + 1 = j
      BY <3>1, <1>1
    <3>3. j - 1 \in A
      BY <3>1, <3>2, <1>1 DEF DockAlike
    <3> QED
      BY <3>2, <3>3
  <2> HIDE DEF A, B
  <2>3. f \in [A -> B]
    BY <2>1
  <2>4. \A x, y \in A : f[x] = f[y] => x = y
    BY <2>1
  <2>5. \A j \in B : \E i \in A : f[i] = j
    BY <2>2
  <2> QED
    BY <2>3, <2>4, <2>5 DEF Bijection, Injection, Surjection, IsInjective
<1>3. IsFiniteSet(A) /\ IsFiniteSet(DockAlike(s, e)) /\ Cardinality(DockAlike(s, e)) \in Nat
  BY <1>1, DockAlikeFinite
<1>4. Cardinality(B) = Cardinality(A)
  <2>1. ExistsBijection(A, B)
    BY <1>2 DEF ExistsBijection
  <2> HIDE DEF A, B
  <2> QED
    BY <1>3, <2>1, FS_Bijection
<1>5. Cardinality(B) = IF 1 \in DockAlike(s, e) THEN Cardinality(DockAlike(s, e)) - 1 ELSE Cardinality(DockAlike(s, e))
  BY <1>3, FS_RemoveElement
<1>6. 1 \in DockAlike(s, e) <=> Head(s) = e
  BY <1>1 DEF DockAlike
<1> QED
  BY <1>3, <1>4, <1>5, <1>6

LEMMA DockAdds ==
  ASSUME NEW S, NEW s \in Seq(S), NEW t \in Seq(S), Len(t) # 0, NEW e, \A i \in DOMAIN t : t[i] = e => i = 1
  PROVE  Cardinality(DockAlike(s \o t, e)) = Cardinality(DockAlike(s, e)) + (IF t[1] = e THEN 1 ELSE 0)
<1> DEFINE n == Len(s) + 1
           A == DockAlike(s, e)
<1>1. /\ Len(s) \in Nat /\ Len(t) \in Nat /\ DOMAIN s = 1..Len(s) /\ DOMAIN t = 1..Len(t)
      /\ s \o t \in Seq(S) /\ DOMAIN (s \o t) = 1..(Len(s) + Len(t))
      /\ \A i \in 1..Len(s) : (s \o t)[i] = s[i]
      /\ \A i \in 1..Len(t) : (s \o t)[Len(s) + i] = t[i]
  OBVIOUS
<1>2. \A i \in DOMAIN (s \o t) : i \in 1..Len(s) \/ (i - Len(s) \in 1..Len(t) /\ i = Len(s) + (i - Len(s)))
  BY <1>1
<1>3. DockAlike(s \o t, e) = IF t[1] = e THEN A \cup {n} ELSE A
  <2>1. ASSUME NEW i \in DockAlike(s \o t, e) PROVE i \in A \/ (i = n /\ t[1] = e)
    <3>1. CASE i \in 1..Len(s)
      BY <3>1, <1>1 DEF DockAlike
    <3>2. CASE i - Len(s) \in 1..Len(t) /\ i = Len(s) + (i - Len(s))
      <4>1. t[i - Len(s)] = e
        BY <3>2, <1>1 DEF DockAlike
      <4>2. i - Len(s) = 1
        BY <3>2, <4>1, <1>1
      <4> QED
        BY <3>2, <4>1, <4>2
    <3> QED
      BY <1>2, <3>1, <3>2 DEF DockAlike
  <2>2. ASSUME NEW i \in A PROVE i \in DockAlike(s \o t, e)
    BY <1>1 DEF DockAlike
  <2>3. t[1] = e => n \in DockAlike(s \o t, e)
    BY <1>1 DEF DockAlike
  <2> HIDE DEF A, n
  <2> QED
    BY <2>1, <2>2, <2>3
<1>4. n \notin A /\ IsFiniteSet(A) /\ Cardinality(A) \in Nat
  <2>1. n \notin A
    BY <1>1 DEF DockAlike
  <2> QED
    BY <2>1, DockAlikeFinite
<1> HIDE DEF n, A
<1>5. Cardinality(A \cup {n}) = Cardinality(A) + 1
  BY <1>4, FS_AddElement
<1> QED
  BY <1>3, <1>4, <1>5 DEF A

\* A run as the console and the main process have it.
DockOrder(w, id) == \A i, j \in DOMAIN w : w[i] = Dock!Done(id) /\ w[j] = Dock!Chunk(id) => j < i
DockRun(id) ==
  /\ Dock!Says("done", id) \/ id \in dead => id \notin DOMAIN procs
  /\ DockOrder(wire, id)
  /\ id > typedRuns => /\ id \notin sinceReset \cup dead \cup DOMAIN procs
                       /\ ~Dock!Says("chunk", id) /\ ~Dock!Says("done", id) /\ said[id] = 0 /\ heard[id] = 0
  /\ id \in sinceReset => /\ id \in DOMAIN procs \/ Dock!Says("chunk", id) => queued = id /\ runIdRef = id
                          /\ said[id] = heard[id] + Cardinality(DockAlike(wire, Dock!Chunk(id)))
DockTyped ==
  /\ typedRuns \in Nat /\ wire \in Seq(Dock!Events) /\ said \in [Dock!Ids -> Nat] /\ heard \in [Dock!Ids -> Nat]
  /\ sinceReset \subseteq Dock!Ids /\ dead \subseteq Dock!Ids
DockInv == Dock!Numbered /\ Dock!DoneIsLast /\ Dock!Awaited /\ Dock!WholeOutput

LEMMA DockRuns == DockInv <=> DockTyped /\ \A id \in Dock!Ids : DockRun(id)
<1>1. \A S : Dock!Cardinality(S) = Cardinality(S)
  BY DEF Dock!Cardinality, Cardinality
<1>2. \A id : Dock!OnWire(Dock!Chunk(id)) = Cardinality(DockAlike(wire, Dock!Chunk(id)))
  BY <1>1 DEF Dock!OnWire, DockAlike
<1>3. DockInv => DockTyped
  BY DEF DockInv, Dock!Numbered, DockTyped
<1>4. ASSUME DockInv, NEW id \in Dock!Ids PROVE DockRun(id)
  BY <1>2, <1>4, Zenon DEF DockInv, Dock!Numbered, Dock!DoneIsLast, Dock!Awaited, Dock!WholeOutput, DockRun, DockOrder
<1>5. ASSUME DockTyped, \A id \in Dock!Ids : DockRun(id) PROVE DockInv
  <2>1. Dock!Numbered
    BY <1>5, Zenon DEF Dock!Numbered, DockTyped, DockRun
  <2>2. Dock!DoneIsLast
    BY <1>5, Zenon DEF Dock!DoneIsLast, DockRun, DockOrder
  <2>3. \A id \in sinceReset : id \in Dock!Ids
    BY <1>5 DEF DockTyped
  <2>4. Dock!Awaited
    BY <1>5, <2>3, Zenon DEF Dock!Awaited, DockRun
  <2>5. Dock!WholeOutput
    BY <1>2, <1>5, <2>3, Zenon DEF Dock!WholeOutput, DockRun
  <2> QED
    BY <2>1, <2>2, <2>4, <2>5 DEF DockInv
<1> QED
  BY <1>3, <1>4, <1>5

\* What the wire says once more has been sent.
DockSays(t, type, id) == \E i \in DOMAIN t : t[i] = [type |-> type, of |-> id]
LEMMA DockSent ==
  ASSUME DockTyped, NEW t \in Seq(Dock!Events), wire' = wire \o t
  PROVE  /\ wire' \in Seq(Dock!Events)
         /\ \A type, id : Dock!Says(type, id)' <=> Dock!Says(type, id) \/ DockSays(t, type, id)
         /\ \A id : DockOrder(wire, id) /\ DockOrder(t, id) /\ (DockSays(t, "chunk", id) => ~Dock!Says("done", id))
                    => DockOrder(wire', id)
<1> DEFINE n == Len(wire)
<1>1. /\ n \in Nat /\ Len(t) \in Nat /\ DOMAIN wire = 1..n /\ DOMAIN t = 1..Len(t)
      /\ wire' \in Seq(Dock!Events) /\ DOMAIN wire' = 1..(n + Len(t))
      /\ \A i \in 1..n : wire'[i] = wire[i]
      /\ \A i \in 1..Len(t) : wire'[n + i] = t[i]
  BY DEF DockTyped
<1> HIDE DEF n
<1>2. \A i \in DOMAIN wire' : i \in 1..n \/ (i - n \in 1..Len(t) /\ i = n + (i - n) /\ wire'[i] = t[i - n])
  BY <1>1
<1>3. ASSUME NEW type, NEW id PROVE Dock!Says(type, id)' <=> Dock!Says(type, id) \/ DockSays(t, type, id)
  <2> DEFINE e == [type |-> type, of |-> id]
  <2> HIDE DEF e
  <2>1. (\E i \in DOMAIN wire' : wire'[i] = e) => (\E i \in DOMAIN wire : wire[i] = e) \/ (\E i \in DOMAIN t : t[i] = e)
    BY <1>1, <1>2
  <2>2. (\E i \in DOMAIN wire : wire[i] = e) => (\E i \in DOMAIN wire' : wire'[i] = e)
    BY <1>1
  <2>3. ASSUME NEW i \in DOMAIN t, t[i] = e PROVE \E j \in DOMAIN wire' : wire'[j] = e
    <3>1. n + i \in DOMAIN wire' /\ wire'[n + i] = e
      BY <1>1, <2>3
    <3> QED
      BY <3>1
  <2> QED
    BY <2>1, <2>2, <2>3 DEF Dock!Says, DockSays, e
<1>4. ASSUME NEW id,
             \A i, j \in DOMAIN wire : wire[i] = Dock!Done(id) /\ wire[j] = Dock!Chunk(id) => j < i,
             \A i, j \in DOMAIN t : t[i] = Dock!Done(id) /\ t[j] = Dock!Chunk(id) => j < i,
             DockSays(t, "chunk", id) => ~Dock!Says("done", id),
             NEW i \in DOMAIN wire', NEW j \in DOMAIN wire', wire'[i] = Dock!Done(id), wire'[j] = Dock!Chunk(id)
      PROVE  j < i
  <2>1. CASE i \in 1..n /\ j \in 1..n
    BY <2>1, <1>1, <1>4
  <2>2. CASE i \in 1..n /\ j - n \in 1..Len(t) /\ wire'[j] = t[j - n]
    <3>1. Dock!Says("done", id) /\ DockSays(t, "chunk", id)
      BY <2>2, <1>1, <1>4 DEF Dock!Says, DockSays, Dock!Done, Dock!Chunk
    <3> QED
      BY <3>1, <1>4
  <2>3. CASE i - n \in 1..Len(t) /\ j \in 1..n
    BY <2>3, <1>1
  <2>4. CASE i - n \in 1..Len(t) /\ wire'[i] = t[i - n] /\ j - n \in 1..Len(t) /\ wire'[j] = t[j - n]
    <3>1. j - n < i - n
      BY <2>4, <1>1, <1>4
    <3> QED
      BY <3>1, <1>1
  <2> QED
    BY <1>2, <2>1, <2>2, <2>3, <2>4
<1> QED
  BY <1>1, <1>3, <1>4 DEF DockOrder

\* The same for one event, and for all that a run says that could not start.
LEMMA DockSendsOne ==
  ASSUME DockTyped, NEW x \in Dock!Events, wire' = wire \o <<x>>, NEW id
  PROVE  /\ wire' \in Seq(Dock!Events)
         /\ Dock!Says("chunk", id)' <=> Dock!Says("chunk", id) \/ x = Dock!Chunk(id)
         /\ Dock!Says("done", id)' <=> Dock!Says("done", id) \/ x = Dock!Done(id)
         /\ Cardinality(DockAlike(wire', Dock!Chunk(id)))
              = Cardinality(DockAlike(wire, Dock!Chunk(id))) + (IF x = Dock!Chunk(id) THEN 1 ELSE 0)
         /\ DockOrder(wire, id) /\ (x = Dock!Chunk(id) => ~Dock!Says("done", id)) => DockOrder(wire', id)
<1> DEFINE t == <<x>>
<1>1. t \in Seq(Dock!Events) /\ Len(t) # 0 /\ DOMAIN t = {1} /\ t[1] = x
  OBVIOUS
<1> HIDE DEF t
<1>2. \A type : DockSays(t, type, id) <=> x = [type |-> type, of |-> id]
  BY <1>1 DEF DockSays
<1>3. DockOrder(t, id)
  <2>1. Dock!Done(id) # Dock!Chunk(id)
    BY DEF Dock!Done, Dock!Chunk
  <2> QED
    BY <1>1, <2>1 DEF DockOrder
<1>4. wire \in Seq(Dock!Events) /\ wire' = wire \o t
  BY DEF DockTyped, t
<1>5. Cardinality(DockAlike(wire \o t, Dock!Chunk(id)))
        = Cardinality(DockAlike(wire, Dock!Chunk(id))) + (IF t[1] = Dock!Chunk(id) THEN 1 ELSE 0)
  BY <1>1, <1>4, DockAdds
<1> QED
  BY <1>1, <1>2, <1>3, <1>4, <1>5, DockSent DEF Dock!Chunk, Dock!Done

LEMMA DockSendsAll ==
  ASSUME DockTyped, NEW n \in Dock!Ids, wire' = wire \o <<Dock!Chunk(n), Dock!Done(n), Dock!Reply(n)>>, NEW id
  PROVE  /\ wire' \in Seq(Dock!Events)
         /\ Dock!Says("chunk", id)' <=> Dock!Says("chunk", id) \/ id = n
         /\ Dock!Says("done", id)' <=> Dock!Says("done", id) \/ id = n
         /\ Cardinality(DockAlike(wire', Dock!Chunk(id)))
              = Cardinality(DockAlike(wire, Dock!Chunk(id))) + (IF id = n THEN 1 ELSE 0)
         /\ DockOrder(wire, id) /\ (id = n => ~Dock!Says("done", id)) => DockOrder(wire', id)
<1> DEFINE c == Dock!Chunk(n)
           d1 == Dock!Done(n)
           y == Dock!Reply(n)
           t == <<c, d1, y>>
<1>1. c \in Dock!Events /\ d1 \in Dock!Events /\ y \in Dock!Events
  BY DEF Dock!Events, Dock!Chunk, Dock!Done, Dock!Reply
<1>2. /\ \A type : c = [type |-> type, of |-> id] <=> type = "chunk" /\ id = n
      /\ \A type : d1 = [type |-> type, of |-> id] <=> type = "done" /\ id = n
      /\ \A type : y = [type |-> type, of |-> id] <=> type = "reply" /\ id = n
  BY DEF Dock!Chunk, Dock!Done, Dock!Reply
<1> HIDE DEF c, d1, y
<1>3. t \in Seq(Dock!Events) /\ Len(t) # 0 /\ DOMAIN t = {1, 2, 3} /\ t[1] = c /\ t[2] = d1 /\ t[3] = y
  BY <1>1
<1> HIDE DEF t
<1>4. /\ DockSays(t, "chunk", id) <=> id = n
      /\ DockSays(t, "done", id) <=> id = n
      /\ DockOrder(t, id)
      /\ \A i \in DOMAIN t : t[i] = Dock!Chunk(id) => i = 1
      /\ t[1] = Dock!Chunk(id) <=> id = n
  <2>1. /\ c = Dock!Chunk(id) <=> id = n
        /\ d1 = Dock!Done(id) <=> id = n
        /\ d1 # Dock!Chunk(id) /\ y # Dock!Chunk(id) /\ c # Dock!Done(id) /\ y # Dock!Done(id)
    BY <1>2 DEF Dock!Chunk, Dock!Done
  <2>2. DockOrder(t, id)
    BY <1>3, <2>1 DEF DockOrder
  <2>3. DockSays(t, "chunk", id) <=> id = n
    BY <1>3, <2>1 DEF DockSays, Dock!Chunk
  <2>4. DockSays(t, "done", id) <=> id = n
    BY <1>3, <2>1 DEF DockSays, Dock!Done
  <2> QED
    BY <1>3, <2>1, <2>2, <2>3, <2>4
<1>5. wire \in Seq(Dock!Events) /\ wire' = wire \o t
  BY DEF DockTyped, t, c, d1, y
<1>6. Cardinality(DockAlike(wire \o t, Dock!Chunk(id)))
        = Cardinality(DockAlike(wire, Dock!Chunk(id))) + (IF t[1] = Dock!Chunk(id) THEN 1 ELSE 0)
  <2> DEFINE e == Dock!Chunk(id)
  <2> HIDE DEF e
  <2>1. \A i \in DOMAIN t : t[i] = e => i = 1
    BY <1>4 DEF e
  <2>2. Cardinality(DockAlike(wire \o t, e)) = Cardinality(DockAlike(wire, e)) + (IF t[1] = e THEN 1 ELSE 0)
    BY <1>3, <1>5, <2>1, DockAdds
  <2> QED
    BY <2>2 DEF e
<1> QED
  BY <1>3, <1>4, <1>5, <1>6, DockSent

\* And for one that is taken.
LEMMA DockTaken ==
  ASSUME DockTyped, wire # <<>>, wire' = Tail(wire), NEW id
  PROVE  /\ wire' \in Seq(Dock!Events) /\ Head(wire) \in Dock!Events
         /\ Dock!Says("chunk", id)' => Dock!Says("chunk", id)
         /\ Dock!Says("done", id)' => Dock!Says("done", id)
         /\ Head(wire) = Dock!Chunk(id) => Dock!Says("chunk", id)
         /\ Head(wire) = Dock!Done(id) => Dock!Says("done", id)
         /\ Cardinality(DockAlike(wire', Dock!Chunk(id)))
              = Cardinality(DockAlike(wire, Dock!Chunk(id))) - (IF Head(wire) = Dock!Chunk(id) THEN 1 ELSE 0)
         /\ DockOrder(wire, id) => DockOrder(wire', id) /\ (Head(wire) = Dock!Done(id) => ~Dock!Says("chunk", id))
<1>1. /\ wire \in Seq(Dock!Events) /\ wire' \in Seq(Dock!Events)
      /\ Head(wire) \in Dock!Events /\ 1 \in DOMAIN wire /\ Head(wire) = wire[1]
      /\ \A i \in DOMAIN wire : i >= 1 /\ i \in Int
      /\ \A i \in DOMAIN wire' : i + 1 \in DOMAIN wire /\ i \in Int /\ wire'[i] = wire[i + 1]
  BY DEF DockTyped
<1>2. Cardinality(DockAlike(wire', Dock!Chunk(id)))
        = Cardinality(DockAlike(wire, Dock!Chunk(id))) - (IF Head(wire) = Dock!Chunk(id) THEN 1 ELSE 0)
  BY <1>1, DockTakes
<1>3. \A type : (\E i \in DOMAIN wire' : wire'[i] = [type |-> type, of |-> id]) => \E i \in DOMAIN wire : wire[i] = [type |-> type, of |-> id]
  BY <1>1
<1>4. /\ Head(wire) = Dock!Chunk(id) => Dock!Says("chunk", id)
      /\ Head(wire) = Dock!Done(id) => Dock!Says("done", id)
  BY <1>1 DEF Dock!Says, Dock!Chunk, Dock!Done
<1>5. ASSUME DockOrder(wire, id) PROVE DockOrder(wire', id)
  <2>1. ASSUME NEW i \in DOMAIN wire', NEW j \in DOMAIN wire', wire'[i] = Dock!Done(id), wire'[j] = Dock!Chunk(id)
        PROVE  j < i
    <3>1. j + 1 < i + 1
      BY <1>1, <1>5, <2>1 DEF DockOrder
    <3> QED
      BY <3>1, <1>1
  <2> QED
    BY <2>1 DEF DockOrder
<1>6. ASSUME DockOrder(wire, id), Head(wire) = Dock!Done(id), Dock!Says("chunk", id) PROVE FALSE
  <2>1. PICK j \in DOMAIN wire : wire[j] = Dock!Chunk(id)
    BY <1>6 DEF Dock!Says, Dock!Chunk
  <2>2. j < 1
    BY <1>1, <1>6, <2>1 DEF DockOrder
  <2> QED
    BY <1>1, <2>2
<1> QED
  BY <1>1, <1>2, <1>3, <1>4, <1>5, <1>6, Zenon DEF Dock!Says

\* Every step of a run, of the console and of the window keeps what is said until it is heard.
LEMMA DockStep ==
  ASSUME DockInv, [Dock!Next]_dockVars
  PROVE  DockInv'
<1> USE DEF Dock!main, Dock!window, Dock!console, Dock!past, Dock!Send
<1> DEFINE K(w, id) == Cardinality(DockAlike(w, Dock!Chunk(id)))
<1>a. DockTyped /\ \A id \in Dock!Ids : DockRun(id)
  BY DockRuns
<1>b. ASSUME DockTyped', \A id \in Dock!Ids : DockRun(id)' PROVE DockInv'
  <2>1. (DockTyped /\ \A id \in Dock!Ids : DockRun(id))' => DockInv'
    BY DockRuns, PTL
  <2> QED
    BY <1>b, <2>1
<1>c. \A id : K(wire, id) \in Nat
  BY <1>a, DockAlikeFinite DEF DockTyped
<1>d. ASSUME NEW id, ~Dock!Says("chunk", id) PROVE K(wire, id) = 0
  <2>1. DockAlike(wire, Dock!Chunk(id)) = {}
    BY <1>d DEF Dock!Says, DockAlike, Dock!Chunk
  <2> QED
    BY <2>1, FS_EmptySet
<1>1. CASE UNCHANGED <<procs, dead, wire, queued, runIdRef, sinceReset, said, heard, typedRuns>>
  BY <1>1, <1>a, <1>b DEF DockTyped, DockRun, Dock!Says
<1>2. CASE Dock!Clear \/ Dock!LandingFails \/ \E r \in Consoles : Dock!openPath(r)
  <2>1. UNCHANGED <<procs, dead, wire, queued, runIdRef, sinceReset, said, heard, typedRuns>>
    BY <1>2 DEF Dock!Clear, Dock!LandingFails, Dock!openPath
  <2> QED
    BY <2>1, <1>1
<1>3. ASSUME NEW x \in Dock!Events, wire' = wire \o <<x>>, \A id : x # Dock!Chunk(id),
             UNCHANGED <<queued, runIdRef, sinceReset, said, heard, typedRuns>>,
             DOMAIN procs' \subseteq DOMAIN procs, dead' \subseteq dead,
             \A id \in Dock!Ids : x = Dock!Done(id) => id \notin DOMAIN procs' /\ id \in DOMAIN procs \cup dead
      PROVE  DockInv'
  <2>1. DockTyped'
    BY <1>3, <1>a, DockSendsOne DEF DockTyped
  <2>2. ASSUME NEW id \in Dock!Ids PROVE DockRun(id)'
    <3>1. /\ Dock!Says("chunk", id)' <=> Dock!Says("chunk", id)
          /\ Dock!Says("done", id)' <=> Dock!Says("done", id) \/ x = Dock!Done(id)
          /\ K(wire', id) = K(wire, id)
          /\ DockOrder(wire, id) => DockOrder(wire', id)
      BY <1>3, <1>a, <1>c, DockSendsOne
    <3> QED
      BY <3>1, <1>3, <1>a DEF DockRun
  <2> QED
    BY <2>1, <2>2, <1>b
<1>4. ASSUME NEW r \in Consoles, Dock!Activity(r)
      PROVE  DockInv'
  <2>1. UNCHANGED <<procs, dead, queued, runIdRef, sinceReset, said, heard, typedRuns>>
        /\ (UNCHANGED wire \/ wire' = wire \o <<Dock!Record(r)>>)
    BY <1>4 DEF Dock!Activity
  <2>2. Dock!Record(r) \in Dock!Events /\ \A id : Dock!Record(r) # Dock!Chunk(id) /\ Dock!Record(r) # Dock!Done(id)
    BY DEF Dock!Record, Dock!Events, Dock!Chunk, Dock!Done
  <2> QED
    BY <2>1, <2>2, <1>1, <1>3
<1>5. ASSUME NEW n \in Dock!Ids, Dock!Closes(n) \/ Dock!ClosesDead(n)
      PROVE  DockInv'
  <2>1. /\ wire' = wire \o <<Dock!Done(n)>> /\ UNCHANGED <<queued, runIdRef, sinceReset, said, heard, typedRuns>>
        /\ DOMAIN procs' \subseteq DOMAIN procs /\ dead' \subseteq dead /\ n \in DOMAIN procs \cup dead
        /\ n \in DOMAIN procs => n \notin DOMAIN procs' \/ n \in dead
    BY <1>5 DEF Dock!Closes, Dock!ClosesDead, Dock!Without
  <2>2. n \notin DOMAIN procs'
    BY <2>1, <1>a DEF DockRun
  <2>3. /\ Dock!Done(n) \in Dock!Events /\ \A id : Dock!Done(n) # Dock!Chunk(id)
        /\ \A id : Dock!Done(n) = Dock!Done(id) => id = n
    BY DEF Dock!Done, Dock!Events, Dock!Chunk
  <2> QED
    BY <2>1, <2>2, <2>3, <1>3
<1>6. ASSUME NEW n \in Dock!Ids, Dock!Prints(n)
      PROVE  DockInv'
  <2>1. /\ wire' = wire \o <<Dock!Chunk(n)>> /\ n \in DOMAIN procs /\ said' = [said EXCEPT ![n] = @ + 1]
        /\ UNCHANGED <<procs, dead, queued, runIdRef, sinceReset, heard, typedRuns>>
    BY <1>6 DEF Dock!Prints
  <2>2. /\ Dock!Chunk(n) \in Dock!Events /\ \A id : Dock!Chunk(n) # Dock!Done(id)
        /\ \A id : Dock!Chunk(n) = Dock!Chunk(id) <=> id = n
    BY DEF Dock!Done, Dock!Events, Dock!Chunk
  <2>3. DockTyped'
    BY <2>1, <2>2, <1>a, DockSendsOne DEF DockTyped
  <2>4. ASSUME NEW id \in Dock!Ids PROVE DockRun(id)'
    <3>1. /\ Dock!Says("chunk", id)' <=> Dock!Says("chunk", id) \/ id = n
          /\ Dock!Says("done", id)' <=> Dock!Says("done", id)
          /\ K(wire', id) = K(wire, id) + (IF id = n THEN 1 ELSE 0)
          /\ DockOrder(wire, id) /\ (id = n => ~Dock!Says("done", id)) => DockOrder(wire', id)
      BY <2>1, <2>2, <1>a, DockSendsOne
    <3>2. said'[id] = IF id = n THEN said[id] + 1 ELSE said[id]
      BY <2>1, <1>a DEF DockTyped
    <3>3. said[id] \in Nat /\ heard[id] \in Nat /\ K(wire, id) \in Nat
      BY <1>a, <1>c DEF DockTyped
    <3>4. DockRun(id)
      BY <1>a
    <3> HIDE DEF K
    <3>5. id \in sinceReset => said'[id] = heard[id] + K(wire', id)
      BY <3>1, <3>2, <3>3, <3>4 DEF DockRun, K
    <3>6. id > typedRuns => id # n
      BY <2>1, <3>4 DEF DockRun
    <3> QED
      BY <2>1, <3>1, <3>2, <3>4, <3>5, <3>6 DEF DockRun, K
  <2> QED
    BY <2>3, <2>4, <1>b
<1>7. ASSUME NEW n \in Dock!Ids, Dock!Errs(n)
      PROVE  DockInv'
  <2>1. /\ wire' = wire \o <<Dock!Chunk(n), Dock!Done(n), Dock!Reply(n)>> /\ n \in DOMAIN procs /\ said[n] = 0
        /\ said' = [said EXCEPT ![n] = 1] /\ dead' = dead \cup {n} /\ DOMAIN procs' = DOMAIN procs \ {n}
        /\ UNCHANGED <<queued, runIdRef, sinceReset, heard, typedRuns>>
    BY <1>7 DEF Dock!Errs, Dock!Without
  <2>3. DockTyped'
    BY <2>1, <1>a, DockSendsAll DEF DockTyped
  <2>4. ASSUME NEW id \in Dock!Ids PROVE DockRun(id)'
    <3>1. /\ Dock!Says("chunk", id)' <=> Dock!Says("chunk", id) \/ id = n
          /\ Dock!Says("done", id)' <=> Dock!Says("done", id) \/ id = n
          /\ K(wire', id) = K(wire, id) + (IF id = n THEN 1 ELSE 0)
          /\ DockOrder(wire, id) /\ (id = n => ~Dock!Says("done", id)) => DockOrder(wire', id)
      BY <2>1, <1>a, DockSendsAll
    <3>2. said'[id] = IF id = n THEN said[id] + 1 ELSE said[id]
      BY <2>1, <1>a DEF DockTyped
    <3>3. said[id] \in Nat /\ heard[id] \in Nat /\ K(wire, id) \in Nat
      BY <1>a, <1>c DEF DockTyped
    <3>4. DockRun(id)
      BY <1>a
    <3> HIDE DEF K
    <3>5. id \in sinceReset => said'[id] = heard[id] + K(wire', id)
      BY <3>1, <3>2, <3>3, <3>4 DEF DockRun, K
    <3>6. id > typedRuns => id # n
      BY <2>1, <3>4 DEF DockRun
    <3> QED
      BY <2>1, <3>1, <3>2, <3>4, <3>5, <3>6 DEF DockRun, K
  <2> QED
    BY <2>3, <2>4, <1>b
<1>8. CASE Dock!Render
  <2>1. UNCHANGED <<procs, dead, wire, queued, sinceReset, said, heard, typedRuns>> /\ runIdRef' = queued
    BY <1>8 DEF Dock!Render
  <2>2. DockTyped'
    BY <2>1, <1>a DEF DockTyped
  <2>3. ASSUME NEW id \in Dock!Ids PROVE DockRun(id)'
    BY <2>1, <1>a DEF DockRun, Dock!Says
  <2> QED
    BY <2>2, <2>3, <1>b
<1>9. CASE Dock!setRepoPath
  <2>1. UNCHANGED <<procs, dead, wire, said, heard, typedRuns>> /\ sinceReset' = {}
    BY <1>9 DEF Dock!setRepoPath
  <2>2. DockTyped'
    BY <2>1, <1>a DEF DockTyped
  <2>3. ASSUME NEW id \in Dock!Ids PROVE DockRun(id)'
    BY <2>1, <1>a DEF DockRun, Dock!Says
  <2> QED
    BY <2>2, <2>3, <1>b
<1>10. CASE Dock!run
  <2> DEFINE n == typedRuns + 1
  <2>1. /\ typedRuns < MaxRuns /\ queued = None
        /\ typedRuns' = n /\ queued' = n /\ runIdRef' = n /\ sinceReset' = sinceReset \cup {n}
        /\ UNCHANGED <<dead, heard>>
        /\ \/ /\ wire' = wire \o <<Dock!Chunk(n), Dock!Done(n), Dock!Reply(n)>> /\ said' = [said EXCEPT ![n] = 1]
              /\ UNCHANGED procs
           \/ DOMAIN procs' = DOMAIN procs \cup {n} /\ UNCHANGED <<wire, said>>
    BY <1>10 DEF Dock!run, Dock!RefFor
  <2>2. n \in Dock!Ids /\ n > typedRuns /\ typedRuns \in Nat /\ n \in Nat
    BY <2>1, <1>a, DockAssumption DEF Dock!Ids, DockTyped
  <2>3. \A id \in Dock!Ids : id \in Int /\ id # None
    BY DockAssumption DEF Dock!Ids
  <2> HIDE DEF n
  <2>4. DockRun(n) /\ n \notin sinceReset \cup dead \cup DOMAIN procs /\ ~Dock!Says("chunk", n) /\ ~Dock!Says("done", n)
        /\ said[n] = 0 /\ heard[n] = 0 /\ K(wire, n) = 0
    BY <2>2, <1>a, <1>d DEF DockRun
  <2>5. ASSUME NEW id \in sinceReset, id \in Dock!Ids PROVE id \notin DOMAIN procs /\ ~Dock!Says("chunk", id)
    BY <2>1, <2>3, <2>5, <1>a DEF DockRun
  <2>6. CASE wire' = wire \o <<Dock!Chunk(n), Dock!Done(n), Dock!Reply(n)>> /\ said' = [said EXCEPT ![n] = 1] /\ UNCHANGED procs
    <3>1. DockTyped'
      BY <2>1, <2>2, <2>6, <1>a, DockSendsAll DEF DockTyped
    <3>2. ASSUME NEW id \in Dock!Ids PROVE DockRun(id)'
      <4>1. /\ Dock!Says("chunk", id)' <=> Dock!Says("chunk", id) \/ id = n
            /\ Dock!Says("done", id)' <=> Dock!Says("done", id) \/ id = n
            /\ K(wire', id) = K(wire, id) + (IF id = n THEN 1 ELSE 0)
            /\ DockOrder(wire, id) /\ (id = n => ~Dock!Says("done", id)) => DockOrder(wire', id)
        BY <2>2, <2>6, <1>a, DockSendsAll
      <4>2. said'[id] = IF id = n THEN 1 ELSE said[id]
        BY <2>6, <1>a DEF DockTyped
      <4>3. DockRun(id) /\ K(wire, id) \in Nat /\ id \in Int
        BY <1>a, <1>c, <2>3
      <4> HIDE DEF K
      <4>4. id \in sinceReset' => said'[id] = heard[id] + K(wire', id)
        BY <2>1, <2>4, <4>1, <4>2, <4>3 DEF DockRun, K
      <4>5. id > typedRuns' => id > typedRuns /\ id # n
        BY <2>1, <2>2, <4>3 DEF n
      <4>6. id \in sinceReset' /\ (id \in DOMAIN procs' \/ Dock!Says("chunk", id)') => queued' = id /\ runIdRef' = id
        BY <2>1, <2>5, <2>6, <4>1
      <4>7. Dock!Says("done", id)' \/ id \in dead' => id \notin DOMAIN procs'
        BY <2>1, <2>4, <2>6, <4>1, <4>3 DEF DockRun
      <4> QED
        BY <2>1, <2>4, <2>6, <4>1, <4>2, <4>3, <4>4, <4>5, <4>6, <4>7 DEF DockRun, K
    <3> QED
      BY <3>1, <3>2, <1>b
  <2>7. CASE DOMAIN procs' = DOMAIN procs \cup {n} /\ UNCHANGED <<wire, said>>
    <3>1. DockTyped'
      BY <2>1, <2>2, <2>7, <1>a DEF DockTyped
    <3>2. ASSUME NEW id \in Dock!Ids PROVE DockRun(id)'
      <4>1. Dock!Says("chunk", id)' = Dock!Says("chunk", id) /\ Dock!Says("done", id)' = Dock!Says("done", id)
        BY <2>7 DEF Dock!Says
      <4>2. DockRun(id) /\ id \in Int
        BY <1>a, <2>3
      <4>3. id > typedRuns' => id > typedRuns /\ id # n
        BY <2>1, <2>2, <4>2 DEF n
      <4>4. id \in sinceReset' => said'[id] = heard[id] + K(wire', id)
        BY <2>1, <2>4, <2>7, <4>2 DEF DockRun
      <4> QED
        BY <2>1, <2>4, <2>5, <2>7, <4>1, <4>2, <4>3, <4>4 DEF DockRun
    <3> QED
      BY <3>1, <3>2, <1>b
  <2> QED
    BY <2>1, <2>6, <2>7
<1>11. CASE Dock!onConsoleOutput \/ Dock!onGitActivity
  <2> DEFINE e == Head(wire)
  <2>1. /\ wire # <<>> /\ wire' = Tail(wire) /\ UNCHANGED <<procs, dead, sinceReset, said, runIdRef, typedRuns>>
        /\ \/ e.type = "chunk" /\ e.of = runIdRef /\ heard' = [heard EXCEPT ![e.of] = @ + 1] /\ UNCHANGED queued
           \/ e.type = "done" /\ e.of = runIdRef /\ queued' = None /\ UNCHANGED heard
           \/ e.type \in {"chunk", "done"} /\ e.of # runIdRef /\ UNCHANGED <<heard, queued>>
           \/ e.type \in {"reply", "activity"} /\ UNCHANGED <<heard, queued>>
    BY <1>11 DEF Dock!onConsoleOutput, Dock!onGitActivity, Dock!IsItsOwn
  <2>2. /\ wire' \in Seq(Dock!Events) /\ e \in Dock!Events
    BY <2>1, <1>a, DockTaken
  <2>3. /\ e = [type |-> e.type, of |-> e.of]
        /\ \A id : e = Dock!Chunk(id) <=> e.type = "chunk" /\ e.of = id
        /\ \A id : e = Dock!Done(id) <=> e.type = "done" /\ e.of = id
    BY <2>2 DEF Dock!Events, Dock!Chunk, Dock!Done
  <2> HIDE DEF e
  <2>4. DockTyped'
    <3>1. heard' \in [Dock!Ids -> Nat]
      BY <2>1, <1>a DEF DockTyped
    <3> QED
      BY <2>1, <2>2, <3>1, <1>a DEF DockTyped
  <2>5. ASSUME NEW id \in Dock!Ids PROVE DockRun(id)'
    <3>1. /\ Dock!Says("chunk", id)' => Dock!Says("chunk", id)
          /\ Dock!Says("done", id)' => Dock!Says("done", id)
          /\ e = Dock!Chunk(id) => Dock!Says("chunk", id)
          /\ e = Dock!Done(id) => Dock!Says("done", id)
          /\ K(wire', id) = K(wire, id) - (IF e = Dock!Chunk(id) THEN 1 ELSE 0)
          /\ DockOrder(wire, id) => DockOrder(wire', id) /\ (e = Dock!Done(id) => ~Dock!Says("chunk", id))
      BY <2>1, <1>a, DockTaken DEF e
    <3>2. heard'[id] = IF e = Dock!Chunk(id) /\ id = runIdRef THEN heard[id] + 1 ELSE heard[id]
      BY <2>1, <2>3, <1>a DEF DockTyped
    <3>3. said[id] \in Nat /\ heard[id] \in Nat /\ K(wire, id) \in Nat
      BY <1>a, <1>c DEF DockTyped
    <3>4. DockRun(id)
      BY <1>a
    <3> HIDE DEF K
    <3>5. id \in sinceReset => said[id] = heard'[id] + K(wire', id)
      BY <3>1, <3>2, <3>3, <3>4 DEF DockRun, K
    <3>6. id > typedRuns => heard'[id] = 0
      BY <3>1, <3>2, <3>4 DEF DockRun
    <3>7. ASSUME id \in sinceReset, id \in DOMAIN procs \/ Dock!Says("chunk", id)'
          PROVE  queued' = id /\ runIdRef' = id
      <4>1. queued = id /\ runIdRef = id
        BY <3>1, <3>4, <3>7 DEF DockRun
      <4>2. ~(e.type = "done" /\ e.of = runIdRef)
        BY <4>1, <2>3, <3>1, <3>4, <3>7 DEF DockRun
      <4> QED
        BY <2>1, <4>1, <4>2
    <3> QED
      BY <2>1, <3>1, <3>4, <3>5, <3>6, <3>7 DEF DockRun, K
  <2> QED
    BY <2>4, <2>5, <1>b
<1>12. CASE UNCHANGED dockVars
  BY <1>12, <1>1 DEF dockVars
<1> HIDE DEF K
<1> QED
  BY <1>2, <1>4, <1>5, <1>6, <1>7, <1>8, <1>9, <1>10, <1>11, <1>12 DEF Dock!Next

\* WholeOutput, for every set of repositories, any number of runs and any length of their output.
THEOREM NoOutputIsLost == SideBySide => []WholeOutput
<1>1. Start => DockInv
  <2> SUFFICES ASSUME Dock!Init PROVE DockInv
    BY DEF Start
  <2>1. /\ procs = <<>> /\ dead = {} /\ wire = <<>> /\ typedRuns = 0 /\ sinceReset = {}
        /\ said = [id \in Dock!Ids |-> 0] /\ heard = [id \in Dock!Ids |-> 0]
    BY DEF Dock!Init
  <2>2. DOMAIN procs = {} /\ DOMAIN wire = {} /\ wire \in Seq(Dock!Events)
    BY <2>1
  <2>3. DockTyped
    BY <2>1, <2>2 DEF DockTyped
  <2>4. \A id \in Dock!Ids : DockRun(id)
    BY <2>1, <2>2 DEF DockRun, DockOrder, Dock!Says
  <2> QED
    BY <2>3, <2>4, DockRuns
<1>2. DockInv /\ [Step]_<<focus, windowVars, shellVars, dockVars, toolsVars, accountsVars, updaterVars,
                         serverVars, phoneVars, reviewVars, handsetVars>> => DockInv'
  <2>1. [Step]_<<focus, windowVars, shellVars, dockVars, toolsVars, accountsVars, updaterVars, serverVars, phoneVars,
                 reviewVars, handsetVars>> => [Dock!Next]_dockVars
    BY DEF Step
  <2> QED
    BY <2>1, DockStep
<1>3. DockInv => WholeOutput
  BY DEF DockInv, WholeOutput
<1> QED
  BY <1>1, <1>2, <1>3, PTL DEF SideBySide
----------------------------------------------------------------------------
\* Gerrit mode.

ReviewTypes ==
  /\ repository \in Projects /\ path \in Projects
  /\ DOMAIN mirror = Projects /\ DOMAIN switch = Projects
\* As long as nothing met and nothing failed. A mode that is being loaded waits for nothing else;
\* whatever is under way is of the repository on screen, in the mode that is on;
ReviewWindow ==
  /\ fetching => repository = path /\ mode = None /\ listings = {} /\ syncs = {} /\ write = None
  /\ mode # None => mode = [of |-> path, enabled |-> mode.enabled]
  /\ listings # {} \/ syncs # {} => Review!Enabled /\ repository = path
  /\ \A l \in listings : l = [seq |-> l.seq, of |-> path, answer |-> l.answer]
\* a write under way is of the mode shown, clears what an enabled mode had mirrored, and nothing else is;
ReviewWrite ==
  write # None =>
    /\ write = [enabled |-> write.enabled, clears |-> write.clears, written |-> write.written]
    /\ write.enabled \in {"on", "off"} /\ write.clears \in BOOLEAN /\ write.written \in BOOLEAN
    /\ repository = path /\ mode # None /\ write.enabled = mode.enabled
    /\ write.clears => write.enabled = "off" /\ listings = {} /\ syncs = {}
    /\ write.written => write.clears /\ switch[path] = write.enabled
    /\ write.enabled = "on" \/ write.clears \/ mirror[path] = {}
\* the one synchronisation under way has what was listed last; without one, that is what is mirrored, as soon as
\* anything was;
ReviewSync ==
  /\ queue = lastSync \/ ~mirrored
  /\ syncs = {} \/ \E s \in syncs : syncs = {s}
  /\ \A s \in syncs : /\ s = [at |-> path, of |-> path, entries |-> lastSync, pruned |-> s.pruned]
                      /\ mirrored
                      /\ s.pruned => \A ref \in mirror[path] : Review!Name(ref) \in Review!Names(lastSync)
  /\ syncs = {} /\ mirrored => mirror[path] = Review!Specs(lastSync)
\* and a repository is mirrored only while its mode is on, or being turned on or off.
ReviewConfig ==
  /\ \A r \in Projects : switch[r] \in {"unset", "on", "off"}
  /\ mode # None /\ write = None => switch[path] = mode.enabled
  /\ \A r \in Projects : switch[r] # "on" => mirror[r] = {} \/ (r = path /\ write # None)
ReviewInv ==
  /\ ReviewTypes
  /\ ~crossed => ReviewWindow /\ ReviewWrite /\ ReviewSync /\ ReviewConfig

\* What is noted as crossed stays so.
LEMMA ReviewMet ==
  ASSUME NEW failed, Review!Noted(failed), ~crossed'
  PROVE  ~crossed /\ ~failed /\ ~Review!Meet'
BY Zenon DEF Review!Noted

\* A second synchronisation is one too many.
LEMMA ReviewSecond ==
  ASSUME NEW s, NEW t, s # t
  PROVE  Review!Cardinality({s} \cup {t}) > 1
<1>1. Cardinality({s}) = 1 /\ IsFiniteSet({s})
  BY FS_Singleton
<1>2. Cardinality({s} \cup {t}) = 2
  BY <1>1, FS_AddElement
<1>3. Review!Cardinality({s} \cup {t}) = Cardinality({s} \cup {t})
  BY DEF Review!Cardinality, Cardinality
<1> QED
  BY <1>2, <1>3

\* A mode, or the write of one, is there.
LEMMA ReviewNone ==
  /\ \A r \in Projects : \A e \in {"unset", "on", "off"} : None # [of |-> r, enabled |-> e]
  /\ \A e \in {"on", "off"} : \A c, w \in BOOLEAN : None # [enabled |-> e, clears |-> c, written |-> w]
BY ReviewAssumption

\* The records that are under way.
LEMMA ReviewRecords ==
  ASSUME NEW x, NEW y, NEW z, NEW w, NEW r, NEW v
  PROVE  /\ r = [of |-> x, enabled |-> y] => /\ [r EXCEPT !.enabled = v] = [of |-> x, enabled |-> v]
                                            /\ r.of = x /\ r.enabled = y
         /\ r = [enabled |-> x, clears |-> y, written |-> z]
              => /\ [r EXCEPT !.written = v] = [enabled |-> x, clears |-> y, written |-> v]
                 /\ r.enabled = x /\ r.clears = y /\ r.written = z
         /\ r = [seq |-> x, of |-> y, answer |-> z]
              => [r EXCEPT !.answer = v] = [seq |-> x, of |-> y, answer |-> v] /\ r.seq = x /\ r.of = y /\ r.answer = z
         /\ r = [at |-> x, of |-> y, entries |-> z, pruned |-> w]
              => /\ [r EXCEPT !.pruned = v] = [at |-> x, of |-> y, entries |-> z, pruned |-> v]
                 /\ r.at = x /\ r.of = y /\ r.entries = z /\ r.pruned = w
OBVIOUS

\* Whatever was crossed, repositories stay repositories.
LEMMA ReviewTyped ==
  ASSUME ReviewTypes, [Review!Next]_reviewVars
  PROVE  ReviewTypes'
<1> USE DEF ReviewTypes, Review!repository, Review!window
<1>1. CASE UNCHANGED <<repository, path, mirror, switch>>
  BY <1>1
<1>2. ASSUME NEW r \in Projects, Review!switchRepo(r) PROVE ReviewTypes'
  BY <1>2 DEF Review!switchRepo
<1>3. CASE Review!LoadMode
  BY <1>3 DEF Review!LoadMode
<1>4. CASE Review!ModeLoaded \/ Review!Refresh
  BY <1>1, <1>4 DEF Review!ModeLoaded, Review!Refresh
<1>5. ASSUME NEW l, Review!Answered(l) \/ Review!Ignored(l) \/ Review!Listed(l) PROVE ReviewTypes'
  BY <1>1, <1>5 DEF Review!Answered, Review!Ignored, Review!Listed
<1>6. CASE Review!enable \/ Review!dismiss \/ Review!disable
  BY <1>1, <1>6 DEF Review!enable, Review!dismiss, Review!disable, Review!writeMode
<1>7. ASSUME NEW ok \in BOOLEAN, Review!setConfig(ok) PROVE ReviewTypes'
  BY <1>7 DEF Review!setConfig
<1>8. CASE Review!clearGerritChangeRefs
  BY <1>8 DEF Review!clearGerritChangeRefs
<1>9. ASSUME NEW s, Review!Prune(s) \/ \E ok \in BOOLEAN : Review!Fetch(s, ok) PROVE ReviewTypes'
  BY <1>9 DEF Review!Prune, Review!Fetch
<1> QED
  BY <1>1, <1>2, <1>3, <1>4, <1>5, <1>6, <1>7, <1>8, <1>9 DEF Review!Next, reviewVars

\* What holds as long as nothing is crossed.
Undisturbed == ReviewWindow /\ ReviewWrite /\ ReviewSync /\ ReviewConfig

\* The window: another repository, its mode, and what is asked for then.
LEMMA ReviewWindows ==
  ASSUME ReviewTypes, Undisturbed, ~crossed',
         (\E r \in Projects : Review!switchRepo(r)) \/ Review!LoadMode \/ Review!ModeLoaded \/ Review!Refresh
  PROVE  Undisturbed'
<1> USE DEF Undisturbed, Review!repository, Review!window
<1>1. ASSUME NEW r \in Projects, Review!switchRepo(r) PROVE Undisturbed'
  <2>1. ~Review!Meet' /\ repository' = r /\ r # repository
        /\ UNCHANGED <<gerrit, switch, mirror, path, fetching, mode, queue, lastSync, mirrored, listings, fetchSeq, syncs, write>>
    BY <1>1, ReviewMet DEF Review!switchRepo
  <2>2. repository' # path => ~fetching /\ listings = {} /\ syncs = {} /\ write = None
    BY <2>1 DEF Review!Meet, Review!Busy
  <2>3. repository' = path => listings = {} /\ syncs = {} /\ write = None
    BY <2>1 DEF ReviewWindow, ReviewWrite
  <2> QED
    BY <2>1, <2>2, <2>3 DEF ReviewWindow, ReviewWrite, ReviewSync, ReviewConfig
<1>2. CASE Review!LoadMode
  <2>1. /\ path # repository /\ path' = repository /\ repository' = repository /\ mode' = None
        /\ ~mirrored' /\ UNCHANGED <<switch, mirror, listings, syncs, write>>
    BY <1>2 DEF Review!LoadMode
  <2>2. listings = {} /\ syncs = {} /\ write = None
    BY <2>1 DEF ReviewWindow, ReviewWrite
  <2>3. \A r \in Projects : switch[r] # "on" => mirror[r] = {}
    BY <2>2 DEF ReviewConfig
  <2> QED
    BY <2>1, <2>2, <2>3 DEF ReviewWindow, ReviewWrite, ReviewSync, ReviewConfig
<1>3. CASE Review!ModeLoaded
  <2>1. /\ fetching /\ ~fetching' /\ mode' = [of |-> repository, enabled |-> switch[repository]]
        /\ \/ switch[repository] = "on"
              /\ listings' = listings \cup {[seq |-> fetchSeq + 1, of |-> repository, answer |-> None]}
           \/ listings' = listings
        /\ UNCHANGED <<repository, switch, mirror, path, queue, lastSync, mirrored, syncs, write>>
    BY <1>3 DEF Review!ModeLoaded, Review!Asks
  <2>2. listings = {} /\ syncs = {} /\ write = None /\ repository = path
    BY <2>1 DEF ReviewWindow
  <2>3. \A l \in listings' : l = [seq |-> l.seq, of |-> path, answer |-> l.answer]
    BY <2>1, <2>2, ReviewRecords
  <2>4. mode' # None /\ mode'.enabled = switch[path] /\ mode' = [of |-> path, enabled |-> mode'.enabled]
    BY <2>1, <2>2, ReviewNone DEF ReviewTypes, ReviewConfig
  <2>5. ReviewWindow'
    BY <2>1, <2>2, <2>3, <2>4 DEF ReviewWindow, Review!Enabled
  <2> QED
    BY <2>1, <2>2, <2>4, <2>5 DEF ReviewWrite, ReviewSync, ReviewConfig
<1>4. CASE Review!Refresh
  <2>1. /\ Review!Enabled /\ ~Review!Meet'
        /\ listings' = listings \cup {[seq |-> fetchSeq + 1, of |-> mode.of, answer |-> None]}
        /\ UNCHANGED <<repository, switch, mirror, path, fetching, mode, queue, lastSync, mirrored, syncs, write>>
    BY <1>4, ReviewMet DEF Review!Refresh, Review!Asks
  <2>2. repository = path
    BY <2>1 DEF Review!Meet, Review!Busy
  <2>3. mode # None /\ mode.enabled = "on" /\ mode.of = path /\ ~fetching
    BY <2>1 DEF ReviewWindow, Review!Enabled
  <2>4. \A l \in listings' : l = [seq |-> l.seq, of |-> path, answer |-> l.answer]
    BY <2>1, <2>3, ReviewRecords DEF ReviewWindow
  <2>5. ReviewWindow'
    BY <2>1, <2>2, <2>3, <2>4 DEF ReviewWindow, Review!Enabled
  <2> QED
    BY <2>1, <2>3, <2>5 DEF ReviewWrite, ReviewSync, ReviewConfig
<1> QED
  BY <1>1, <1>2, <1>3, <1>4

\* The listings: the host's answers, those that came too late, and the one that counts.
LEMMA ReviewListings ==
  ASSUME ReviewTypes, Undisturbed, ~crossed',
         NEW l \in listings, Review!Answered(l) \/ Review!Ignored(l) \/ Review!Listed(l)
  PROVE  Undisturbed'
<1> USE DEF Undisturbed, Review!repository, Review!window
<1>1. /\ Review!Enabled /\ repository = path /\ ~fetching
      /\ write # None => ~write.clears
    BY DEF ReviewWindow, ReviewWrite
<1>2. l = [seq |-> l.seq, of |-> path, answer |-> l.answer]
  BY DEF ReviewWindow
<1>3. CASE Review!Answered(l)
  <2>1. PICK v : listings' = (listings \ {l}) \cup {[l EXCEPT !.answer = v]}
    BY <1>3 DEF Review!Answered
  <2>2. UNCHANGED <<repository, switch, mirror, path, fetching, mode, queue, lastSync, mirrored, syncs, write>>
    BY <1>3 DEF Review!Answered
  <2>3. [l EXCEPT !.answer = v] = [seq |-> l.seq, of |-> path, answer |-> v]
    BY <1>2, ReviewRecords
  <2>4. \A m \in listings' : m = [seq |-> m.seq, of |-> path, answer |-> m.answer]
    BY <2>1, <2>3, ReviewRecords DEF ReviewWindow
  <2>5. ReviewWindow'
    BY <1>1, <2>2, <2>4 DEF ReviewWindow, Review!Enabled
  <2> QED
    BY <1>1, <2>2, <2>5 DEF ReviewWrite, ReviewSync, ReviewConfig
<1>4. CASE Review!Ignored(l)
  <2>1. /\ listings' = listings \ {l}
        /\ UNCHANGED <<repository, switch, mirror, path, fetching, mode, queue, lastSync, mirrored, syncs, write>>
    BY <1>4 DEF Review!Ignored
  <2>2. ReviewWindow'
    BY <1>1, <2>1 DEF ReviewWindow, Review!Enabled
  <2> QED
    BY <1>1, <2>1, <2>2 DEF ReviewWrite, ReviewSync, ReviewConfig
<1>5. CASE Review!Listed(l)
  <2> DEFINE s == [at |-> path, of |-> path, entries |-> l.answer, pruned |-> FALSE]
  <2>1. /\ ~Review!Meet' /\ listings' = listings \ {l} /\ l.answer # None /\ queue' = l.answer /\ lastSync' = l.answer
        /\ UNCHANGED <<repository, switch, mirror, path, fetching, mode, write>>
    BY <1>5, ReviewMet DEF Review!Listed, Review!Signature
  <2>2. l.of = path
    BY <1>2, ReviewRecords
  <2>3. syncs' = syncs \cup (IF lastSync = l.answer THEN {} ELSE {s})
    BY <1>5, <1>1, <2>2 DEF Review!Listed, Review!Signature
  <2>9. mirrored' <=> (mirrored \/ lastSync # l.answer)
    BY <1>5 DEF Review!Listed, Review!Signature
  <2>4. ReviewWindow'
    BY <1>1, <2>1, <2>3 DEF ReviewWindow, Review!Enabled
  <2>5. ReviewWrite' /\ ReviewConfig'
    BY <1>1, <2>1 DEF ReviewWrite, ReviewConfig
  <2>6. CASE lastSync = l.answer
    <3>1. UNCHANGED <<syncs, lastSync>> /\ (mirrored' <=> mirrored)
      BY <2>1, <2>3, <2>6, <2>9
    <3> QED
      BY <2>1, <2>4, <2>5, <3>1 DEF ReviewSync
  <2>7. CASE lastSync # l.answer
    <3>1. /\ s.entries = l.answer /\ s.pruned = FALSE
          /\ s = [at |-> path, of |-> path, entries |-> l.answer, pruned |-> s.pruned]
      OBVIOUS
    <3>2. ASSUME NEW t, syncs = {t} PROVE FALSE
      <4>1. t = [at |-> path, of |-> path, entries |-> lastSync, pruned |-> t.pruned]
        BY <3>2 DEF ReviewSync
      <4>2. t.entries = lastSync
        BY <4>1, ReviewRecords
      <4>3. t # s
        BY <4>2, <3>1, <2>7
      <4>4. syncs' = {t} \cup {s}
        BY <3>2, <2>3, <2>7
      <4>5. Review!Cardinality(syncs') > 1
        BY <4>3, <4>4, ReviewSecond
      <4> QED
        BY <4>5, <2>1 DEF Review!Meet
    <3>3. syncs = {}
      BY <3>2 DEF ReviewSync
    <3>4. syncs' = {s}
      BY <3>3, <2>3, <2>7
    <3> HIDE DEF s
    <3>5. ReviewSync'
      BY <3>1, <3>4, <2>1, <2>7, <2>9 DEF ReviewSync
    <3> QED
      BY <2>4, <2>5, <3>5
  <2> QED
    BY <2>6, <2>7
<1> QED
  BY <1>3, <1>4, <1>5

\* The mode, turned on or off, and what is written and cleared of it.
LEMMA ReviewWrites ==
  ASSUME ReviewTypes, Undisturbed, ~crossed',
         Review!enable \/ Review!dismiss \/ Review!disable
  PROVE  Undisturbed'
<1> USE DEF Undisturbed, Review!repository, Review!window
<1>1. PICK e \in {"on", "off"}, c \in BOOLEAN :
           /\ Review!writeMode(e, c)
           /\ e = "on" => ~c
           /\ e = "off" => IF c THEN Review!Enabled ELSE mode.enabled = "unset"
  BY DEF Review!enable, Review!dismiss, Review!disable
<1> DEFINE w == [enabled |-> e, clears |-> c, written |-> FALSE]
           m == [of |-> path, enabled |-> e]
<1>2. mode # None /\ mode.enabled # e /\ write = None /\ write' = w /\ mode' = [mode EXCEPT !.enabled = e] /\ ~Review!Meet'
  BY <1>1, ReviewMet DEF Review!writeMode
<1>3. UNCHANGED <<repository, switch, mirror, path, fetching, queue, lastSync, mirrored, syncs>>
  BY <1>1 DEF Review!writeMode
<1>4. /\ e = "on" => listings' = listings \cup {[seq |-> fetchSeq + 1, of |-> mode.of, answer |-> None]}
      /\ e = "off" => listings' = listings
  BY <1>1 DEF Review!writeMode, Review!Asks
<1>5. mode' = m /\ mode.of = path
  BY <1>2, ReviewRecords DEF ReviewWindow
<1>6. m # None /\ w # None
  BY ReviewNone DEF ReviewTypes
<1>7. m.enabled = e /\ m = [of |-> path, enabled |-> m.enabled]
      /\ w.enabled = e /\ w.clears = c /\ w.written = FALSE
      /\ w = [enabled |-> w.enabled, clears |-> w.clears, written |-> w.written]
  OBVIOUS
<1> HIDE DEF m, w
<1>8. repository = path /\ ~fetching
  BY <1>2, <1>3, <1>6 DEF Review!Meet, Review!Busy, ReviewWindow
<1>9. e = "off" => listings = {} /\ syncs = {}
  BY <1>1, <1>2, <1>3, <1>4, <1>5, <1>6, <1>7 DEF Review!Meet, Review!Enabled, ReviewWindow
<1>10. ~c => e = "on" \/ mirror[path] = {}
  BY <1>1, <1>2 DEF ReviewConfig, ReviewTypes
<1>11. \A l \in listings' : l = [seq |-> l.seq, of |-> path, answer |-> l.answer]
  BY <1>4, <1>5, ReviewRecords DEF ReviewWindow
<1>12. ReviewWindow'
  BY <1>2, <1>3, <1>4, <1>5, <1>6, <1>7, <1>8, <1>9, <1>11 DEF ReviewWindow, Review!Enabled
<1>13. ReviewWrite'
  BY <1>1, <1>2, <1>3, <1>4, <1>5, <1>6, <1>7, <1>8, <1>9, <1>10 DEF ReviewWrite
<1>14. ReviewConfig'
  BY <1>2, <1>3, <1>6 DEF ReviewConfig
<1> QED
  BY <1>3, <1>12, <1>13, <1>14 DEF ReviewSync

\* The write itself: the setting, and the clearing that may follow it.
LEMMA ReviewWritten ==
  ASSUME ReviewTypes, Undisturbed, ~crossed',
         (\E ok \in BOOLEAN : Review!setConfig(ok)) \/ Review!clearGerritChangeRefs
  PROVE  Undisturbed'
<1> USE DEF Undisturbed, Review!repository, Review!window
<1>1. CASE \E ok \in BOOLEAN : Review!setConfig(ok)
  <2>1. PICK ok \in BOOLEAN : Review!setConfig(ok)
    BY <1>1
  <2>2. ok = TRUE
    BY <2>1, ReviewMet, Zenon DEF Review!setConfig
  <2> DEFINE w == [enabled |-> write.enabled, clears |-> write.clears, written |-> TRUE]
  <2>3. /\ write # None /\ switch' = [switch EXCEPT ![repository] = write.enabled]
        /\ write' = IF write.clears THEN [write EXCEPT !.written = TRUE] ELSE None
        /\ UNCHANGED <<repository, mirror, path, fetching, mode, queue, lastSync, mirrored, listings, syncs>>
    BY <2>1, <2>2 DEF Review!setConfig
  <2>4. /\ repository = path /\ mode # None /\ write.enabled = mode.enabled /\ write.enabled \in {"on", "off"}
        /\ write.clears \in BOOLEAN
        /\ write.clears => write.enabled = "off" /\ listings = {} /\ syncs = {}
        /\ write.enabled = "on" \/ write.clears \/ mirror[path] = {}
    BY <2>3 DEF ReviewWrite
  <2>5. write.clears => write' = w /\ w # None
    BY <2>3, <2>4, ReviewRecords, ReviewNone DEF ReviewWrite
  <2>6. w.enabled = write.enabled /\ w.clears = write.clears /\ w.written = TRUE
        /\ w = [enabled |-> w.enabled, clears |-> w.clears, written |-> w.written]
    OBVIOUS
  <2> HIDE DEF w
  <2>7. switch'[path] = write.enabled /\ \A r \in Projects : r # path => switch'[r] = switch[r]
    BY <2>3, <2>4 DEF ReviewTypes
  <2>8. ReviewWindow'
    BY <2>3, <2>5 DEF ReviewWindow, Review!Enabled
  <2>9. ReviewWrite'
    BY <2>3, <2>4, <2>5, <2>6, <2>7 DEF ReviewWrite
  <2>10. ReviewConfig'
    BY <2>3, <2>4, <2>5, <2>6, <2>7 DEF ReviewConfig, ReviewTypes
  <2> QED
    BY <2>3, <2>8, <2>9, <2>10 DEF ReviewSync
<1>2. CASE Review!clearGerritChangeRefs
  <2>1. /\ write # None /\ write.written /\ ~mirrored' /\ mirror' = [mirror EXCEPT ![repository] = {}] /\ write' = None
        /\ UNCHANGED <<repository, switch, path, fetching, mode, queue, listings, syncs>>
    BY <1>2 DEF Review!clearGerritChangeRefs
  <2>2. repository = path /\ mode # None /\ listings = {} /\ syncs = {} /\ switch[path] = mode.enabled
    BY <2>1 DEF ReviewWrite
  <2>3. mirror'[path] = {} /\ \A r \in Projects : r # path => mirror'[r] = mirror[r]
    BY <2>1, <2>2 DEF ReviewTypes
  <2>4. ReviewWindow'
    BY <2>1, <2>2 DEF ReviewWindow
  <2>5. ReviewConfig'
    BY <2>1, <2>2, <2>3 DEF ReviewConfig
  <2> QED
    BY <2>1, <2>2, <2>4, <2>5 DEF ReviewWrite, ReviewSync
<1> QED
  BY <1>1, <1>2

\* The synchronisation: refs are pruned, then fetched.
LEMMA ReviewSyncs ==
  ASSUME ReviewTypes, Undisturbed, ~crossed',
         NEW s \in syncs, Review!Prune(s) \/ \E ok \in BOOLEAN : Review!Fetch(s, ok)
  PROVE  Undisturbed'
<1> USE DEF Undisturbed, Review!repository, Review!window
<1>1. /\ Review!Enabled /\ repository = path /\ ~fetching
      /\ mode # None /\ mode.enabled = "on"
      /\ write # None => write.enabled = "on" /\ ~write.clears
  BY DEF ReviewWindow, ReviewWrite, Review!Enabled
<1>2. syncs = {s} /\ s = [at |-> path, of |-> path, entries |-> lastSync, pruned |-> s.pruned] /\ mirrored
  BY DEF ReviewSync
<1>3. s.at = path /\ s.of = path /\ s.entries = lastSync
  BY <1>2, ReviewRecords
<1>4. CASE Review!Prune(s)
  <2> DEFINE t == [at |-> path, of |-> path, entries |-> lastSync, pruned |-> TRUE]
  <2>1. /\ mirror' = [mirror EXCEPT ![path] = {ref \in @ : Review!Name(ref) \in Review!Names(lastSync)}]
        /\ UNCHANGED <<repository, switch, path, fetching, mode, queue, lastSync, mirrored, listings, write>>
    BY <1>3, <1>4 DEF Review!Prune, Review!changeRefKeepSet
  <2>2. syncs' = {t}
    BY <1>2, <1>4, ReviewRecords DEF Review!Prune
  <2>3. t.pruned = TRUE /\ t = [at |-> path, of |-> path, entries |-> lastSync, pruned |-> t.pruned]
    OBVIOUS
  <2> HIDE DEF t
  <2>4. mirror'[path] = {ref \in mirror[path] : Review!Name(ref) \in Review!Names(lastSync)}
        /\ \A r \in Projects : r # path => mirror'[r] = mirror[r]
    BY <2>1 DEF ReviewTypes
  <2>5. ReviewWindow'
    BY <1>1, <2>1 DEF ReviewWindow, Review!Enabled
  <2>6. ReviewWrite' /\ ReviewConfig'
    BY <1>1, <2>1, <2>4 DEF ReviewWrite, ReviewConfig
  <2>7. ReviewSync'
    BY <1>2, <2>1, <2>2, <2>3, <2>4 DEF ReviewSync
  <2> QED
    BY <2>5, <2>6, <2>7
<1>5. CASE \E ok \in BOOLEAN : Review!Fetch(s, ok)
  <2>1. PICK ok \in BOOLEAN : Review!Fetch(s, ok)
    BY <1>5
  <2>2. ok = TRUE
    BY <2>1, ReviewMet, Zenon DEF Review!Fetch
  <2>3. /\ s.pruned /\ syncs' = {}
        /\ mirror' = [mirror EXCEPT ![path] = {ref \in @ : Review!Name(ref) \notin Review!Names(lastSync)}
                                              \cup Review!Specs(lastSync)]
        /\ UNCHANGED <<repository, switch, path, fetching, mode, queue, lastSync, mirrored, listings, write>>
    BY <1>2, <1>3, <2>1, <2>2 DEF Review!Fetch
  <2>4. mirror'[path] = {ref \in mirror[path] : Review!Name(ref) \notin Review!Names(lastSync)} \cup Review!Specs(lastSync)
        /\ \A r \in Projects : r # path => mirror'[r] = mirror[r]
    BY <2>3 DEF ReviewTypes
  <2>5. mirror'[path] = Review!Specs(lastSync)
    BY <2>3, <2>4 DEF ReviewSync
  <2>6. ReviewWindow'
    BY <1>1, <2>3 DEF ReviewWindow, Review!Enabled
  <2>7. ReviewWrite'
    BY <1>1, <2>3 DEF ReviewWrite
  <2>8. write = None => switch[path] = "on"
    BY <1>1 DEF ReviewConfig
  <2>9. ASSUME NEW r \in Projects, switch[r] # "on" PROVE mirror'[r] = {} \/ (r = path /\ write # None)
    BY <2>4, <2>8, <2>9 DEF ReviewConfig
  <2>10. ReviewConfig'
    BY <1>1, <2>3, <2>9 DEF ReviewConfig
  <2> QED
    BY <2>3, <2>5, <2>6, <2>7, <2>10 DEF ReviewSync
<1> QED
  BY <1>4, <1>5

\* Every step, as long as nothing is crossed.
LEMMA ReviewStep ==
  ASSUME ReviewInv, [Review!Next]_reviewVars
  PROVE  ReviewInv'
<1>1. ReviewTypes'
  BY ReviewTyped DEF ReviewInv
<1> SUFFICES ASSUME ~crossed' PROVE Undisturbed'
  BY <1>1 DEF ReviewInv, Undisturbed
<1>2. CASE UNCHANGED reviewVars
  BY <1>2 DEF ReviewInv, Undisturbed, reviewVars, ReviewWindow, ReviewWrite, ReviewSync, ReviewConfig, Review!Enabled
<1>3. CASE Review!Next
  <2>1. ~crossed
    BY <1>3, ReviewMet DEF Review!Next, Review!switchRepo, Review!LoadMode, Review!ModeLoaded, Review!Refresh,
       Review!Answered, Review!Ignored, Review!Listed, Review!enable, Review!dismiss, Review!disable, Review!writeMode,
       Review!setConfig, Review!clearGerritChangeRefs, Review!Prune, Review!Fetch
  <2>2. ReviewTypes /\ Undisturbed
    BY <2>1 DEF ReviewInv, Undisturbed
  <2> QED
    BY <1>3, <2>2, ReviewWindows, ReviewListings, ReviewWrites, ReviewWritten, ReviewSyncs DEF Review!Next
<1> QED
  BY <1>2, <1>3

\* MirrorIsTheListing, for every set of repositories and changes, and any number of listings, of
\* changes of the repository and of its mode.
THEOREM MirrorsAgree == SideBySide => []MirrorIsTheListing
<1>1. Start => ReviewInv
  BY DEF Start, Review!Init, ReviewInv, ReviewTypes, ReviewWindow, ReviewWrite, ReviewSync, ReviewConfig, Review!Enabled
<1>2. ReviewInv /\ [Step]_<<focus, windowVars, shellVars, dockVars, toolsVars, accountsVars, updaterVars,
                           serverVars, phoneVars, reviewVars, handsetVars>> => ReviewInv'
  <2>1. [Step]_<<focus, windowVars, shellVars, dockVars, toolsVars, accountsVars, updaterVars, serverVars, phoneVars,
                 reviewVars, handsetVars>> => [Review!Next]_reviewVars
    BY DEF Step
  <2> QED
    BY <2>1, ReviewStep
<1>3. ReviewInv => MirrorIsTheListing
  BY DEF ReviewInv, ReviewWindow, ReviewSync, ReviewConfig, ReviewTypes, MirrorIsTheListing,
         Review!MirrorIsTheListing, Review!Quiet, Review!Busy, Review!Enabled
<1> QED
  BY <1>1, <1>2, <1>3, PTL DEF SideBySide

----------------------------------------------------------------------------
\* The window.

\* The tabs of a list.
WindowTabs(ts) == {ts[i] : i \in DOMAIN ts}
\* One tab per repository.
WindowDistinct(ts) == \A t, u \in WindowTabs(ts) : t.main = u.main => t = u
\* Lists of tabs, and the paths with null.
WindowList == Seq(Window!Tab)
WindowPlace == Paths \cup {None}

\* What the hook and the file of tabs hold at any time.
WindowHeld ==
  /\ tabs \in WindowList /\ WindowDistinct(tabs)
  /\ saved \in [tabs : WindowList, active : WindowPlace] /\ WindowDistinct(saved.tabs)
  /\ active \in WindowPlace /\ repoPath \in WindowPlace /\ mainPath \in WindowPlace
  /\ settled \in BOOLEAN
  /\ mainPath # None => repoPath # None

\* The operations that are ever under way: their stages, and what they carry by then.
WindowShape(o) ==
  \/ o.kind = "load" /\ o.stage = "opening" /\ o.path \in Paths
  \/ o.kind = "load" /\ o.stage \in {"resolving", "reading"} /\ o.path \in Paths /\ o.main \in Paths /\ o.ok = TRUE
  \/ o.kind = "tab" /\ o.stage \in {"opening", "falling"} /\ o.path \in Paths /\ o.main \in Paths
  \/ o.kind = "tab" /\ o.stage = "reading" /\ o.path \in Paths /\ o.main \in Paths /\ o.ok = TRUE
  \/ o.kind = "worktree" /\ o.stage = "opening" /\ o.path \in Paths /\ o.main \in Paths
  \/ o.kind = "worktree" /\ o.stage = "reading" /\ o.path \in Paths /\ o.main \in Paths /\ o.ok = TRUE
  \/ o.kind = "fallback" /\ o.stage \in {"opening", "reading"} /\ o.path \in Paths /\ o.main \in Paths
  \/ o.kind = "close" /\ o.stage = "closing" /\ o.main \in Paths
  \/ o.kind = "restore" /\ o.stage \in {"adding", "reading"} /\ o.ok = None
  \/ o.kind = "refresh" /\ o.stage = "reading"

WindowFormed == \A s \in Window!Busy : ops[s] \in Window!Op /\ WindowShape(ops[s])

\* What an operation that has run alone since it began can count on: once its service is open it is the
\* active one, its tab is there, and the log it has read is its own.
WindowLed(o, x, T) ==
  /\ o.ok = TRUE => x = o.path
  /\ o.kind = "tab" => \E t \in T : t.main = o.main
  /\ o.kind = "fallback" /\ o.stage = "opening" => [main |-> o.main, worktree |-> o.path] \in T
  /\ o.kind \in {"load", "tab"} /\ o.stage = "reading" => o.read \in {o.path, None}

WindowLone == \A s \in Window!Busy : ops[s].alone => Window!Busy = {s}
  /\ WindowLed(ops[s], active, WindowTabs(tabs))

\* The service, the shown path and the only tab of the shown repository are one.
WindowHere(x, r, m, T) ==
  /\ x = r
  /\ \E t \in T : t.main = m
  /\ \A t \in T : t.main = m => t.worktree = r
\* What is shown was read there, or nothing was.
WindowRead(sh, r) == sh.log \in {r, None} /\ sh.rest \in {r, None}

\* What the one operation that may still be under way when all before it has settled leaves agreed.
\* A load and a switch of tabs are never it: they unsettle the window until they are stored.
WindowCalm(o, x, r, m, T, sh) ==
  /\ o.kind \notin {"load", "tab"} /\ o.stage # "adding"
  /\ o.kind = "worktree" /\ o.stage = "opening" =>
       /\ o.ok # TRUE /\ r # None => WindowHere(x, r, m, T) /\ WindowRead(sh, r)
       /\ o.alone => o.main = m /\ \E t \in T : t.main = m
  /\ o.stage = "closing" /\ o.main # o.base /\ r # None => WindowHere(x, r, m, T) /\ WindowRead(sh, r) /\ m = o.base
  /\ o.stage = "reading" /\ o.alone => WindowHere(x, r, m, T) /\ o.read \in {r, None}

\* A settled window has at most one operation, and agrees once it is done.
WindowAgreed ==
  settled =>
    /\ \A s \in Window!Busy : Window!Busy = {s}
         /\ WindowCalm(ops[s], active, repoPath, mainPath, WindowTabs(tabs), shown)
    /\ Window!Busy = {} /\ repoPath # None =>
         WindowHere(active, repoPath, mainPath, WindowTabs(tabs)) /\ WindowRead(shown, repoPath)

\* The invariant of the window.
WindowInv == WindowHeld /\ WindowFormed /\ WindowLone /\ WindowAgreed

\* What filter() has kept of the first n tabs.
WindowKept(ts, K, f, n) ==
  f = [i \in 0..n |->
         IF i = 0 THEN <<>> ELSE IF ts[i] \in K THEN Append(f[i - 1], ts[i]) ELSE f[i - 1]]

\* filter() keeps something of the first n tabs, by induction on n.
LEMMA WindowFilterIsDefined ==
  ASSUME NEW ts, NEW K, NEW n \in Nat
  PROVE  \E f : WindowKept(ts, K, f, n)
<1> DEFINE Bad == {m \in Nat : ~\E f : WindowKept(ts, K, f, m)}
<1> SUFFICES ASSUME Bad # {} PROVE FALSE
  OBVIOUS
<1>1. PICK m \in Bad : \A k \in Bad : <<k, m>> \notin OpToRel(<, Nat)
  BY WFMin, NatLessThanWellFounded, Zenon
<1>2. m \in Nat /\ (~\E f : WindowKept(ts, K, f, m)) /\ \A k \in Nat : k < m => \E f : WindowKept(ts, K, f, k)
  BY <1>1, Zenon DEF OpToRel
<1>3. m # 0
  <2>1. WindowKept(ts, K, [i \in 0..0 |-> <<>>], 0)
    BY DEF WindowKept
  <2> QED
    BY <1>2, <2>1
<1>4. PICK g : WindowKept(ts, K, g, m - 1)
  BY <1>2, <1>3
<1> DEFINE h == [i \in 0..m |-> IF i < m THEN g[i]
                                ELSE IF ts[m] \in K THEN Append(g[m - 1], ts[m]) ELSE g[m - 1]]
<1>5. ASSUME NEW i \in 0..m
      PROVE  h[i] = IF i = 0 THEN <<>> ELSE IF ts[i] \in K THEN Append(h[i - 1], ts[i]) ELSE h[i - 1]
  <2>1. CASE i < m
    <3>1. g[i] = IF i = 0 THEN <<>> ELSE IF ts[i] \in K THEN Append(g[i - 1], ts[i]) ELSE g[i - 1]
      <4>1. i \in 0..(m - 1)
        BY <1>2, <2>1
      <4> QED
        BY <1>4, <4>1 DEF WindowKept
    <3>2. h[i] = g[i] /\ (i # 0 => h[i - 1] = g[i - 1])
      BY <1>2, <2>1
    <3> QED
      BY <3>1, <3>2
  <2>2. CASE i = m
    <3>1. h[m - 1] = g[m - 1] /\ h[m] = IF ts[m] \in K THEN Append(g[m - 1], ts[m]) ELSE g[m - 1]
      BY <1>2, <1>3
    <3> QED
      BY <1>3, <2>2, <3>1
  <2> QED
    BY <1>2, <2>1, <2>2
<1>6. WindowKept(ts, K, h, m)
  <2> HIDE DEF h
  <2>1. DOMAIN h = 0..m /\ h = [i \in 0..m |-> h[i]]
    BY DEF h
  <2> QED
    BY <1>5, <2>1 DEF WindowKept
<1> QED
  BY <1>2, <1>6

\* And it is what Filter returns.
LEMMA WindowFilterKeeps ==
  ASSUME NEW ts \in Seq(Window!Tab), NEW K
  PROVE  \E f : WindowKept(ts, K, f, Len(ts)) /\ Window!Filter(ts, K) = f[Len(ts)]
<1>1. PICK f : WindowKept(ts, K, f, Len(ts))
  <2>1. Len(ts) \in Nat
    OBVIOUS
  <2> QED
    BY <2>1, WindowFilterIsDefined
<1> DEFINE g == CHOOSE e : WindowKept(ts, K, e, Len(ts))
<1>2. WindowKept(ts, K, g, Len(ts))
  BY <1>1
<1>3. Window!Filter(ts, K) = g[Len(ts)]
  BY DEF Window!Filter, WindowKept
<1> HIDE DEF g
<1> QED
  BY <1>2, <1>3

\* What is kept of a list of tabs are the tabs in K.
LEMMA WindowFilterTabs ==
  ASSUME NEW ts \in Seq(Window!Tab), NEW K
  PROVE  Window!Filter(ts, K) \in Seq(Window!Tab) /\ WindowTabs(Window!Filter(ts, K)) = WindowTabs(ts) \cap K
<1>1. PICK f : WindowKept(ts, K, f, Len(ts)) /\ Window!Filter(ts, K) = f[Len(ts)]
  BY WindowFilterKeeps
<1>2. \A i \in 0..Len(ts) :
        f[i] = IF i = 0 THEN <<>> ELSE IF ts[i] \in K THEN Append(f[i - 1], ts[i]) ELSE f[i - 1]
  BY <1>1 DEF WindowKept
<1> DEFINE Good(m) == f[m] \in Seq(Window!Tab) /\ WindowTabs(f[m]) = {ts[i] : i \in 1..m} \cap K
           Bad == {m \in Nat : m <= Len(ts) /\ ~Good(m)}
<1>3. Bad = {}
  <2> SUFFICES ASSUME Bad # {} PROVE FALSE
    OBVIOUS
  <2>1. PICK m \in Bad : \A k \in Bad : <<k, m>> \notin OpToRel(<, Nat)
    BY WFMin, NatLessThanWellFounded, Zenon
  <2>2. m \in Nat /\ m <= Len(ts) /\ ~Good(m)
    BY <2>1
  <2>3. \A k \in Bad : ~(k < m)
    BY <2>1, Zenon DEF OpToRel
  <2>4. m # 0
    <3>1. Good(0)
      <4>1. f[0] = <<>>
        BY <1>2
      <4> QED
        BY <4>1 DEF WindowTabs
    <3> QED
      BY <2>2, <3>1
  <2>5. m - 1 \in Nat /\ m - 1 <= Len(ts) /\ m - 1 < m /\ m \in 1..Len(ts) /\ m \in 0..Len(ts)
    BY <2>2, <2>4
  <2>6. Good(m - 1)
    BY <2>3, <2>5
  <2>7. f[m] = IF ts[m] \in K THEN Append(f[m - 1], ts[m]) ELSE f[m - 1]
    BY <1>2, <2>4, <2>5
  <2>8. {ts[i] : i \in 1..m} = {ts[i] : i \in 1..(m - 1)} \cup {ts[m]}
    BY <2>5
  <2>9. CASE ts[m] \in K
    <3>1. f[m] = Append(f[m - 1], ts[m]) /\ ts[m] \in Window!Tab
      BY <2>5, <2>7, <2>9
    <3>2. f[m] \in Seq(Window!Tab) /\ WindowTabs(f[m]) = WindowTabs(f[m - 1]) \cup {ts[m]}
      <4> DEFINE s == f[m - 1]
      <4>1. s \in Seq(Window!Tab)
        BY <2>6
      <4> HIDE DEF s
      <4>2. Append(s, ts[m]) \in Seq(Window!Tab) /\ DOMAIN Append(s, ts[m]) = 1..(Len(s) + 1)
              /\ DOMAIN s = 1..Len(s)
            /\ \A i \in 1..Len(s) : Append(s, ts[m])[i] = s[i]
            /\ Append(s, ts[m])[Len(s) + 1] = ts[m]
        BY <3>1, <4>1
      <4>3. WindowTabs(Append(s, ts[m])) = WindowTabs(s) \cup {ts[m]}
        BY <4>1, <4>2 DEF WindowTabs
      <4> QED
        BY <3>1, <4>2, <4>3 DEF s
    <3> QED
      BY <2>2, <2>6, <2>8, <2>9, <3>2
  <2>10. CASE ts[m] \notin K
    BY <2>2, <2>6, <2>7, <2>8, <2>10
  <2> QED
    BY <2>9, <2>10
<1>4. Good(Len(ts))
  <2>1. Len(ts) \in Nat /\ Len(ts) <= Len(ts)
    OBVIOUS
  <2> QED
    BY <1>3, <2>1
<1>5. {ts[i] : i \in 1..Len(ts)} = WindowTabs(ts)
  BY DEF WindowTabs
<1> QED
  BY <1>1, <1>4, <1>5

\* A tab has two paths, and the repositories of a list are those of its tabs.
LEMMA WindowTabsAre ==
  /\ Window!Tab = [main : Paths, worktree : Paths]
  /\ \A ts \in WindowList : WindowTabs(ts) \subseteq Window!Tab /\ \A m : m \in Window!Mains(ts)
       <=> \E t \in WindowTabs(ts) : t.main = m
<1>1. Window!Maps \subseteq Paths
  BY WindowAssumption DEF Window!Maps
<1>2. Window!Tab = [main : Paths, worktree : Paths]
  BY <1>1 DEF Window!Tab
<1>3. ASSUME NEW ts \in WindowList
      PROVE  WindowTabs(ts) \subseteq Window!Tab /\ \A m : m \in Window!Mains(ts)
               <=> \E t \in WindowTabs(ts) : t.main = m
  BY <1>3 DEF WindowList, WindowTabs, Window!Mains
<1> QED
  BY <1>2, <1>3

\* TabOf finds the tab of its repository.
LEMMA WindowTabOf ==
  ASSUME NEW ts \in WindowList, NEW m \in Window!Mains(ts)
  PROVE  Window!TabOf(ts, m) \in WindowTabs(ts) /\ Window!TabOf(ts, m).main = m
<1> DEFINE i == CHOOSE k \in DOMAIN ts : ts[k].main = m
<1>1. i \in DOMAIN ts /\ ts[i].main = m
  BY DEF Window!Mains
<1>2. Window!TabOf(ts, m) = ts[i]
  BY DEF Window!TabOf
<1> HIDE DEF i
<1> QED
  BY <1>1, <1>2 DEF WindowTabs

\* The tab closeTab falls back to is one of those left.
LEMMA WindowLastTab ==
  ASSUME NEW ts \in WindowList, ts # <<>>
  PROVE  ts[Len(ts)] \in WindowTabs(ts)
<1>1. Len(ts) \in DOMAIN ts
  BY DEF WindowList
<1> QED
  BY <1>1 DEF WindowTabs

\* A tab with its worktree replaced if it is of m, as map() does.
WindowRewritten(t, m, p) == IF t.main = m THEN [t EXCEPT !.worktree = p] ELSE t

\* It stays a tab of its repository.
LEMMA WindowRewrittenIs ==
  ASSUME NEW t \in Window!Tab, NEW m, NEW p \in Paths
  PROVE  /\ WindowRewritten(t, m, p) \in Window!Tab
         /\ WindowRewritten(t, m, p).main = t.main
         /\ WindowRewritten(t, m, p).worktree = IF t.main = m THEN p ELSE t.worktree
BY WindowTabsAre DEF WindowRewritten

\* The tabs of WithWorktree are the rewritten ones.
LEMMA WindowWithWorktree ==
  ASSUME NEW ts \in WindowList, NEW m, NEW p \in Paths
  PROVE  Window!WithWorktree(ts, m, p) \in WindowList
           /\ WindowTabs(Window!WithWorktree(ts, m, p)) = {WindowRewritten(t, m, p) : t \in WindowTabs(ts)}
<1> DEFINE us == Window!WithWorktree(ts, m, p)
<1>1. us = [i \in DOMAIN ts |-> WindowRewritten(ts[i], m, p)]
  BY DEF Window!WithWorktree, WindowRewritten
<1>2. \A i \in DOMAIN ts : ts[i] \in Window!Tab /\ WindowRewritten(ts[i], m, p) \in Window!Tab
  BY WindowRewrittenIs DEF WindowList
<1> HIDE DEF us
<1>3. us \in WindowList
  BY <1>1, <1>2 DEF WindowList
<1>4. WindowTabs(us) = {WindowRewritten(t, m, p) : t \in WindowTabs(ts)}
  BY <1>1 DEF WindowTabs
<1> QED
  BY <1>3, <1>4 DEF us

\* The tab of m is in p, alone.
WindowPlaced(T, m, p) == (\E t \in T : t.main = m) /\ \A t \in T : t.main = m => t.worktree = p

\* WithWorktree keeps one tab per repository and puts that of m in p.
LEMMA WindowSwitched ==
  ASSUME NEW ts \in WindowList, NEW m, NEW p \in Paths, WindowDistinct(ts)
  PROVE  /\ Window!WithWorktree(ts, m, p) \in WindowList /\ WindowDistinct(Window!WithWorktree(ts, m, p))
         /\ (\E t \in WindowTabs(ts) : t.main = m) => WindowPlaced(WindowTabs(Window!WithWorktree(ts, m, p)), m, p)
<1> DEFINE us == Window!WithWorktree(ts, m, p)
           T == WindowTabs(ts)
<1>1. us \in WindowList /\ WindowTabs(us) = {WindowRewritten(t, m, p) : t \in T}
  BY WindowWithWorktree
<1>2. T \subseteq Window!Tab
  BY WindowTabsAre
<1>3. \A t \in T : /\ WindowRewritten(t, m, p).main = t.main
                   /\ t.main = m => WindowRewritten(t, m, p).worktree = p
  BY <1>2, WindowRewrittenIs
<1>4. \A t, u \in T : t.main = u.main => t = u
  BY DEF WindowDistinct
<1> HIDE DEF us, T
<1>5. WindowDistinct(us)
  BY <1>1, <1>3, <1>4 DEF WindowDistinct
<1>6. (\E t \in T : t.main = m) => WindowPlaced(WindowTabs(us), m, p)
  BY <1>1, <1>3 DEF WindowPlaced
<1> QED
  BY <1>1, <1>5, <1>6 DEF us, T

\* So does Upsert, which adds the tab if there is none.
LEMMA WindowUpserted ==
  ASSUME NEW ts \in WindowList, NEW m \in Paths, NEW p \in Paths, WindowDistinct(ts)
  PROVE  /\ Window!Upsert(ts, m, p) \in WindowList /\ WindowDistinct(Window!Upsert(ts, m, p))
         /\ WindowPlaced(WindowTabs(Window!Upsert(ts, m, p)), m, p)
<1>1. CASE m \in Window!Mains(ts)
  <2>1. Window!Upsert(ts, m, p) = Window!WithWorktree(ts, m, p)
    BY <1>1 DEF Window!Upsert
  <2>2. \E t \in WindowTabs(ts) : t.main = m
    BY <1>1, WindowTabsAre
  <2> QED
    BY <2>1, <2>2, WindowSwitched
<1>2. CASE m \notin Window!Mains(ts)
  <2> DEFINE t == [main |-> m, worktree |-> p]
             us == Append(ts, t)
  <2>1. t \in Window!Tab /\ t.main = m /\ t.worktree = p
    BY WindowTabsAre
  <2>2. Window!Upsert(ts, m, p) = us
    BY <1>2 DEF Window!Upsert
  <2>3. \A u \in WindowTabs(ts) : u.main # m
    BY <1>2, WindowTabsAre
  <2> HIDE DEF t
  <2>4. us \in WindowList /\ WindowTabs(us) = WindowTabs(ts) \cup {t}
    <3>1. us \in Seq(Window!Tab) /\ DOMAIN us = 1..(Len(ts) + 1) /\ DOMAIN ts = 1..Len(ts)
          /\ \A i \in 1..Len(ts) : us[i] = ts[i]
          /\ us[Len(ts) + 1] = t /\ Len(ts) \in Nat
      BY <2>1 DEF WindowList
    <3> QED
      BY <3>1 DEF WindowTabs, WindowList
  <2> HIDE DEF us
  <2>5. WindowDistinct(us) /\ WindowPlaced(WindowTabs(us), m, p)
    BY <2>1, <2>3, <2>4 DEF WindowDistinct, WindowPlaced
  <2> QED
    BY <2>2, <2>4, <2>5
<1> QED
  BY <1>1, <1>2

\* WithoutTab drops the tab of m and no other.
LEMMA WindowWithout ==
  ASSUME NEW ts \in WindowList, NEW m, WindowDistinct(ts)
  PROVE  /\ Window!WithoutTab(ts, m) \in WindowList /\ WindowDistinct(Window!WithoutTab(ts, m))
         /\ WindowTabs(Window!WithoutTab(ts, m)) = {t \in WindowTabs(ts) : t.main # m}
<1> DEFINE K == {t \in Window!Tab : t.main # m}
<1>1. Window!Filter(ts, K) \in Seq(Window!Tab) /\ WindowTabs(Window!Filter(ts, K)) = WindowTabs(ts) \cap K
  BY WindowFilterTabs DEF WindowList
<1>2. WindowTabs(ts) \cap K = {t \in WindowTabs(ts) : t.main # m}
  BY WindowTabsAre
<1>3. Window!WithoutTab(ts, m) = Window!Filter(ts, K)
  BY DEF Window!WithoutTab
<1> HIDE DEF K
<1> QED
  BY <1>1, <1>2, <1>3 DEF WindowDistinct, WindowList

\* A reordering has the same tabs.
LEMMA WindowMovedIs ==
  ASSUME NEW ts \in WindowList, NEW i \in DOMAIN ts, NEW j \in DOMAIN ts
  PROVE  Window!Moved(ts, i, j) \in WindowList /\ WindowTabs(Window!Moved(ts, i, j)) = WindowTabs(ts)
<1>1. PICK n \in Nat : n = Len(ts) /\ DOMAIN ts = 1..n /\ \A k \in 1..n : ts[k] \in Window!Tab
  BY DEF WindowList
<1>2. i \in 1..n /\ j \in 1..n
  BY <1>1
<1> DEFINE rest == [k \in 1..(n - 1) |-> IF k < i THEN ts[k] ELSE ts[k + 1]]
           us == [k \in 1..n |-> IF k < j THEN rest[k] ELSE IF k = j THEN ts[i] ELSE rest[k - 1]]
<1>3. Window!Moved(ts, i, j) = us
  BY <1>1 DEF Window!Moved
<1>4. \A k \in 1..(n - 1) : rest[k] = IF k < i THEN ts[k] ELSE ts[k + 1]
  OBVIOUS
<1> HIDE DEF rest
<1>5. DOMAIN us = 1..n /\ \A k \in 1..n : us[k] = IF k < j THEN rest[k] ELSE IF k = j THEN ts[i] ELSE rest[k - 1]
  OBVIOUS
<1>6. us = [k \in 1..n |-> us[k]]
  OBVIOUS
<1> HIDE DEF us
<1>7. ASSUME NEW k \in 1..n
      PROVE  \E l \in 1..n : us[k] = ts[l]
  <2>1. CASE k < j
    <3>1. k \in 1..(n - 1) /\ k + 1 \in 1..n
      BY <1>1, <1>2, <2>1
    <3> QED
      BY <1>4, <1>5, <2>1, <3>1
  <2>2. CASE k = j
    BY <1>2, <1>5, <2>2
  <2>3. CASE k > j
    <3>1. k - 1 \in 1..(n - 1) /\ (k - 1) + 1 = k /\ k - 1 \in 1..n /\ ~(k < j) /\ k # j
      BY <1>1, <1>2, <2>3
    <3> QED
      BY <1>4, <1>5, <3>1
  <2> QED
    BY <1>1, <1>2, <2>1, <2>2, <2>3
<1>8. ASSUME NEW l \in 1..n
      PROVE  \E k \in 1..n : ts[l] = us[k]
  <2>1. CASE l = i
    BY <1>2, <1>5, <2>1
  <2>2. ASSUME NEW e \in 1..(n - 1), rest[e] = ts[l]
        PROVE  \E k \in 1..n : ts[l] = us[k]
    <3>1. CASE e < j
      BY <1>1, <1>5, <2>2, <3>1
    <3>2. CASE ~(e < j)
      <4>1. e + 1 \in 1..n /\ ~(e + 1 < j) /\ e + 1 # j /\ (e + 1) - 1 = e
        BY <1>1, <1>2, <3>2
      <4> QED
        BY <1>5, <2>2, <4>1
    <3> QED
      BY <3>1, <3>2
  <2>3. CASE l < i
    <3>1. l \in 1..(n - 1)
      BY <1>1, <1>2, <2>3
    <3> QED
      BY <1>4, <2>2, <2>3, <3>1
  <2>4. CASE l > i
    <3>1. l - 1 \in 1..(n - 1) /\ ~(l - 1 < i) /\ (l - 1) + 1 = l
      BY <1>1, <1>2, <2>4
    <3> QED
      BY <1>4, <2>2, <3>1
  <2> QED
    BY <1>1, <1>2, <2>1, <2>3, <2>4
<1>9. us \in WindowList
  BY <1>1, <1>5, <1>6, <1>7 DEF WindowList
<1>10. WindowTabs(us) = WindowTabs(ts)
  <2>1. WindowTabs(us) = {us[k] : k \in 1..n} /\ WindowTabs(ts) = {ts[k] : k \in 1..n}
    BY <1>1, <1>5 DEF WindowTabs
  <2> QED
    BY <1>7, <1>8, <2>1
<1> QED
  BY <1>3, <1>9, <1>10

\* The list a restart comes back with has one tab per repository.
LEMMA WindowRestoredIs ==
  ASSUME saved.tabs \in WindowList, WindowDistinct(saved.tabs)
  PROVE  Window!Restored \in WindowList /\ WindowDistinct(Window!Restored)
<1> DEFINE K == {t \in Window!Tab : Window!Addable(t.worktree) \/ Window!Addable(t.main)}
           remain == Window!Filter(saved.tabs, K)
           G(t) == IF Window!Addable(t.worktree) THEN t ELSE [t EXCEPT !.worktree = t.main]
<1>1. remain \in WindowList /\ WindowTabs(remain) = WindowTabs(saved.tabs) \cap K
  BY WindowFilterTabs DEF WindowList
<1>2. Window!Restored = [i \in DOMAIN remain |-> G(remain[i])]
  BY DEF Window!Restored
<1> HIDE DEF remain, K
<1>3. \A t \in Window!Tab : G(t) \in Window!Tab /\ G(t).main = t.main
  BY WindowTabsAre
<1> HIDE DEF G
<1>4. \A i \in DOMAIN remain : remain[i] \in Window!Tab
  BY <1>1 DEF WindowList
<1>5. Window!Restored \in WindowList
  BY <1>1, <1>2, <1>3, <1>4 DEF WindowList
<1>6. WindowTabs(Window!Restored) = {G(t) : t \in WindowTabs(remain)}
  BY <1>2 DEF WindowTabs
<1>7. WindowTabs(remain) \subseteq Window!Tab /\ \A t, u \in WindowTabs(remain) : t.main = u.main => t = u
  BY <1>1, WindowTabsAre DEF WindowDistinct
<1> QED
  BY <1>3, <1>5, <1>6, <1>7 DEF WindowDistinct

\* Operations under way.

\* Two operations that differ at most in whether they have run alone.
WindowAlike(p, q) ==
  /\ p.kind = q.kind /\ p.stage = q.stage /\ p.path = q.path /\ p.main = q.main /\ p.base = q.base
  /\ p.ok = q.ok /\ p.read = q.read

\* An operation that runs beside others is the same operation.
LEMMA WindowNoticed ==
  ASSUME NEW o \in Window!Op, NEW v \in BOOLEAN
  PROVE  /\ [o EXCEPT !.alone = v] \in Window!Op /\ [o EXCEPT !.alone = v].alone = v
         /\ WindowAlike([o EXCEPT !.alone = v], o)
         /\ WindowShape(o) => WindowShape([o EXCEPT !.alone = v])
         /\ \A x, T : WindowLed(o, x, T) => WindowLed([o EXCEPT !.alone = v], x, T)
<1> DEFINE q == [o EXCEPT !.alone = v]
<1>1. q \in Window!Op /\ q.alone = v
  BY DEF Window!Op
<1>2. WindowAlike(q, o)
  BY DEF Window!Op, WindowAlike
<1> HIDE DEF q
<1>3. WindowShape(o) => WindowShape(q)
  BY <1>2 DEF WindowAlike, WindowShape
<1>4. \A x, T : WindowLed(o, x, T) => WindowLed(q, x, T)
  BY <1>2 DEF WindowAlike, WindowLed
<1> QED
  BY <1>1, <1>2, <1>3, <1>4 DEF q

\* Begin: the new operation is formed, is alone only if none is under way, and if the window stays
\* settled it is the one that may run then.
LEMMA WindowBegun ==
  ASSUME NEW o \in Window!Op, WindowShape(o), WindowFormed, WindowLone, Window!Begin(o),
         o.alone = TRUE,
         Window!Busy = {} => WindowLed(o, active', WindowTabs(tabs')),
         settled' => Window!Busy = {} /\ WindowCalm(o, active', repoPath', mainPath', WindowTabs(tabs'), shown')
  PROVE  WindowFormed' /\ WindowLone' /\ WindowAgreed'
<1> DEFINE first == [o EXCEPT !.alone = Window!Busy = {}]
           Stirred(q) == [q EXCEPT !.alone = FALSE]
<1>1. DOMAIN ops' = Window!Busy \cup {Window!Free}
        /\ \A x \in DOMAIN ops' : ops'[x] = IF x = Window!Free THEN first ELSE Stirred(ops[x])
  BY DEF Window!Begin
<1>2. first \in Window!Op /\ WindowShape(first) /\ (first.alone <=> Window!Busy = {})
      /\ \A x, T : WindowLed(o, x, T) => WindowLed(first, x, T)
  <2>1. (Window!Busy = {}) \in BOOLEAN
    OBVIOUS
  <2> QED
    BY <2>1, WindowNoticed
<1>3. \A q \in Window!Op : WindowShape(q) => Stirred(q) \in Window!Op /\ WindowShape(Stirred(q))
        /\ ~Stirred(q).alone
  BY WindowNoticed
<1>4. Window!Busy = {} => first = o
  <2>1. [o EXCEPT !.alone = TRUE] = o
    BY DEF Window!Op
  <2>2. Window!Busy = {} => first = [o EXCEPT !.alone = TRUE]
    OBVIOUS
  <2> QED
    BY <2>1, <2>2
<1> HIDE DEF first, Stirred
<1>5. WindowFormed'
  BY <1>1, <1>2, <1>3 DEF WindowFormed, Window!Busy
<1>6. WindowLone'
  BY <1>1, <1>2, <1>3 DEF WindowFormed, WindowLone, Window!Busy
<1>7. WindowAgreed'
  BY <1>1, <1>4 DEF WindowAgreed, Window!Busy
<1> QED
  BY <1>5, <1>6, <1>7

\* Continue: the same for the next stage of the operation in slot s.
LEMMA WindowContinued ==
  ASSUME NEW s \in Window!Busy, NEW q \in Window!Op, WindowShape(q), WindowFormed, WindowLone,
           Window!Continue(s, q),
         q.alone = ops[s].alone,
         q.alone => WindowLed(q, active', WindowTabs(tabs')),
         settled' => Window!Busy = {s} /\ WindowCalm(q, active', repoPath', mainPath', WindowTabs(tabs'), shown')
  PROVE  WindowFormed' /\ WindowLone' /\ WindowAgreed'
<1>1. DOMAIN ops' = Window!Busy /\ \A x \in Window!Busy : ops'[x] = IF x = s THEN q ELSE ops[x]
  BY DEF Window!Continue, Window!Busy
<1>2. WindowFormed'
  BY <1>1 DEF WindowFormed, Window!Busy
<1>3. WindowLone'
  BY <1>1 DEF WindowLone, Window!Busy
<1>4. WindowAgreed'
  BY <1>1 DEF WindowAgreed, Window!Busy
<1> QED
  BY <1>2, <1>3, <1>4

\* Finish: the last operation of a settled window leaves it agreed.
LEMMA WindowFinished ==
  ASSUME NEW s \in Window!Busy, WindowFormed, WindowLone, Window!Finish(s),
         settled' => /\ Window!Busy = {s}
                     /\ repoPath' # None => /\ WindowHere(active', repoPath', mainPath', WindowTabs(tabs'))
                                                /\ WindowRead(shown', repoPath')
  PROVE  WindowFormed' /\ WindowLone' /\ WindowAgreed'
<1>1. DOMAIN ops' = Window!Busy \ {s} /\ \A x \in Window!Busy \ {s} : ops'[x] = ops[x]
  BY DEF Window!Finish
<1>2. WindowFormed'
  BY <1>1 DEF WindowFormed, Window!Busy
<1>3. WindowLone'
  BY <1>1 DEF WindowLone, Window!Busy
<1>4. WindowAgreed'
  BY <1>1 DEF WindowAgreed, Window!Busy
<1> QED
  BY <1>2, <1>3, <1>4

\* What a disturbance leaves of a settled operation.
LEMMA WindowDisturbed ==
  ASSUME WindowFormed, WindowLone, Window!Disturb,
         settled' => /\ \A s \in Window!Busy :
                          /\ Window!Busy = {s}
                          /\ \A q \in Window!Op : WindowAlike(q, ops[s]) /\ ~q.alone =>
                               WindowCalm(q, active', repoPath', mainPath', WindowTabs(tabs'), shown')
                     /\ Window!Busy = {} /\ repoPath' # None =>
                          WindowHere(active', repoPath', mainPath', WindowTabs(tabs'))
                            /\ WindowRead(shown', repoPath')
  PROVE  WindowFormed' /\ WindowLone' /\ WindowAgreed'
<1> DEFINE Stirred(q) == [q EXCEPT !.alone = FALSE]
<1>1. DOMAIN ops' = Window!Busy /\ \A x \in Window!Busy : ops'[x] = Stirred(ops[x])
  BY DEF Window!Disturb
<1>2. \A q \in Window!Op : WindowShape(q) => Stirred(q) \in Window!Op /\ WindowShape(Stirred(q))
        /\ ~Stirred(q).alone /\ WindowAlike(Stirred(q), q)
  BY WindowNoticed
<1> HIDE DEF Stirred
<1>3. WindowFormed'
  BY <1>1, <1>2 DEF WindowFormed, Window!Busy
<1>4. WindowLone'
  BY <1>1, <1>2 DEF WindowFormed, WindowLone, Window!Busy
<1>5. WindowAgreed'
  BY <1>1, <1>2 DEF WindowAgreed, WindowFormed, Window!Busy
<1> QED
  BY <1>3, <1>4, <1>5

\* A step of none of these.
LEMMA WindowRested ==
  ASSUME WindowFormed, WindowLone, WindowAgreed, UNCHANGED <<ops, active, repoPath, mainPath, shown, settled>>,
           WindowTabs(tabs') = WindowTabs(tabs)
  PROVE  WindowFormed' /\ WindowLone' /\ WindowAgreed'
<1>1. WindowFormed'
  BY DEF WindowFormed, Window!Busy
<1>2. WindowLone'
  BY DEF WindowLone, Window!Busy
<1>3. WindowAgreed'
  BY DEF WindowAgreed, Window!Busy
<1> QED
  BY <1>1, <1>2, <1>3

\* Restart: there is at most the restoring of the tabs.
LEMMA WindowRestarted ==
  ASSUME NEW o \in Window!Op, WindowShape(o), ops' = <<>> \/ ops' = [s \in {1} |-> o], ~settled',
           WindowLed(o, active', WindowTabs(tabs'))
  PROVE  WindowFormed' /\ WindowLone' /\ WindowAgreed'
<1>1. CASE ops' = <<>>
  <2>1. DOMAIN ops' = {}
    BY <1>1
  <2> QED
    BY <2>1 DEF WindowFormed, WindowLone, WindowAgreed, Window!Busy
<1>2. CASE ops' = [s \in {1} |-> o]
  <2>1. DOMAIN ops' = {1} /\ ops'[1] = o
    BY <1>2
  <2> QED
    BY <2>1 DEF WindowFormed, WindowLone, WindowAgreed, Window!Busy
<1> QED
  BY <1>1, <1>2

\* What the opening of a path does.
LEMMA WindowOpens ==
  ASSUME WindowHeld, NEW o \in Window!Op, NEW p \in Paths, o.path = p, Window!OpenPath(p)
  PROVE  /\ Window!Opening(o) \in Window!Op
         /\ Window!Opening(o).kind = o.kind /\ Window!Opening(o).stage = o.stage /\ Window!Opening(o).path = o.path
         /\ Window!Opening(o).main = o.main /\ Window!Opening(o).base = o.base /\ Window!Opening(o).read = o.read
         /\ Window!Opening(o).alone = o.alone
         /\ active' \in WindowPlace
         /\ Window!Opening(o).ok = TRUE => active' = o.path
         /\ Window!Opening(o).ok # TRUE => active' = active
BY WindowAssumption DEF Window!Opening, Window!Op, WindowHeld, WindowPlace, Window!OpenPath

\* What the next read of an operation answers is of the active service, or nothing.
LEMMA WindowReads ==
  ASSUME WindowHeld, NEW o \in Window!Op
  PROVE  /\ Window!Answer \in {active, None} /\ Window!Answer \in WindowPlace
         /\ Window!Reading(o) \in Window!Op
         /\ Window!Reading(o).kind = o.kind /\ Window!Reading(o).stage = "reading"
              /\ Window!Reading(o).path = o.path
         /\ Window!Reading(o).main = o.main /\ Window!Reading(o).base = o.base
              /\ Window!Reading(o).read = Window!Answer
         /\ Window!Reading(o).alone = o.alone /\ Window!Reading(o).ok = o.ok
<1>1. Window!Answer \in {active, None} /\ Window!Answer \in WindowPlace
  BY DEF Window!Answer, WindowHeld, WindowPlace
<1> DEFINE w == Window!Answer
<1>2. w \in WindowPlace /\ Window!Reading(o) = [o EXCEPT !.stage = "reading", !.read = w]
  BY <1>1 DEF Window!Reading
<1> HIDE DEF w
<1>3. [o EXCEPT !.stage = "reading", !.read = w] \in Window!Op
  BY <1>2 DEF Window!Op, Window!Stages, WindowPlace
<1> QED
  BY <1>1, <1>2, <1>3 DEF Window!Op, w

\* loadRepo.
LEMMA WindowLoadRepoStep ==
  ASSUME WindowInv, NEW p \in Paths, Window!LoadRepo(p)
  PROVE  WindowInv'
<1> DEFINE n == Window!NewOp("load", "opening", p, None)
           q == Window!Opening(n)
<1>1. n \in Window!Op /\ n.kind = "load" /\ n.stage = "opening" /\ n.path = p /\ n.alone = TRUE
  <2>1. WindowHeld /\ "load" \in Window!Kinds /\ "opening" \in Window!Stages
    BY DEF WindowInv, Window!Kinds, Window!Stages
  <2>2. p \in WindowPlace /\ None \in WindowPlace
    BY DEF WindowInv, WindowHeld, WindowPlace
  <2> QED
    BY <2>1, <2>2 DEF Window!NewOp, Window!Op, WindowHeld, WindowPlace
<1>2. Window!Begin(q) /\ Window!OpenPath(p) /\ settled' = FALSE
        /\ UNCHANGED <<saved, repoPath, mainPath, tabs, shown>>
  BY DEF Window!LoadRepo
<1> HIDE DEF n
<1>3. /\ q \in Window!Op /\ q.kind = "load" /\ q.stage = "opening" /\ q.path = p /\ q.alone = TRUE
      /\ active' \in WindowPlace /\ (q.ok = TRUE => active' = q.path)
  BY <1>1, <1>2, WindowOpens DEF WindowInv
<1> HIDE DEF q
<1>4. WindowShape(q) /\ WindowLed(q, active', WindowTabs(tabs'))
  BY <1>3 DEF WindowShape, WindowLed
<1>5. WindowFormed' /\ WindowLone' /\ WindowAgreed'
  BY <1>2, <1>3, <1>4, WindowBegun DEF WindowInv
<1>6. WindowHeld'
  BY <1>2, <1>3 DEF WindowHeld, WindowInv
<1> QED
  BY <1>5, <1>6 DEF WindowInv

\* switchTab.
LEMMA WindowSwitchTabStep ==
  ASSUME WindowInv, NEW m \in Paths, Window!SwitchTab(m)
  PROVE  WindowInv'
<1> DEFINE p == Window!TabOf(tabs, m).worktree
           n == Window!NewOp("tab", "opening", p, m)
           q == Window!Opening(n)
<1>1. p \in Paths /\ \E t \in WindowTabs(tabs) : t.main = m
  BY WindowTabOf, WindowTabsAre DEF WindowInv, WindowHeld, Window!SwitchTab
<1>2. Window!Begin(q) /\ Window!OpenPath(p) /\ settled' = FALSE
        /\ UNCHANGED <<saved, repoPath, mainPath, tabs, shown>>
  BY DEF Window!SwitchTab
<1> HIDE DEF p
<1>3. n \in Window!Op /\ n.kind = "tab" /\ n.stage = "opening" /\ n.path = p /\ n.main = m /\ n.alone = TRUE
  <2>1. WindowHeld /\ "tab" \in Window!Kinds /\ "opening" \in Window!Stages
    BY DEF WindowInv, Window!Kinds, Window!Stages
  <2>2. p \in WindowPlace /\ m \in WindowPlace
    BY <1>1 DEF WindowInv, WindowHeld, WindowPlace
  <2> QED
    BY <2>1, <2>2 DEF Window!NewOp, Window!Op, WindowHeld, WindowPlace
<1> HIDE DEF n
<1>4. /\ q \in Window!Op /\ q.kind = "tab" /\ q.stage = "opening" /\ q.path = p /\ q.main = m /\ q.alone = TRUE
      /\ active' \in WindowPlace /\ (q.ok = TRUE => active' = q.path)
  BY <1>1, <1>2, <1>3, WindowOpens DEF WindowInv
<1> HIDE DEF q
<1>5. WindowShape(q) /\ WindowLed(q, active', WindowTabs(tabs'))
  BY <1>1, <1>2, <1>4 DEF WindowShape, WindowLed
<1>6. WindowFormed' /\ WindowLone' /\ WindowAgreed'
  BY <1>2, <1>4, <1>5, WindowBegun DEF WindowInv
<1>7. WindowHeld'
  BY <1>2, <1>4 DEF WindowHeld, WindowInv
<1> QED
  BY <1>6, <1>7 DEF WindowInv

\* switchWorktree: alone, it starts from the tab that is shown.
LEMMA WindowSwitchWorktreeStep ==
  ASSUME WindowInv, NEW p \in Paths, Window!SwitchWorktree(p)
  PROVE  WindowInv'
<1> DEFINE n == Window!NewOp("worktree", "opening", p, mainPath)
           q == Window!Opening(n)
<1>1. n \in Window!Op /\ n.kind = "worktree" /\ n.stage = "opening" /\ n.path = p /\ n.main = mainPath
        /\ n.alone = TRUE
  <2>1. WindowHeld /\ "worktree" \in Window!Kinds /\ "opening" \in Window!Stages
    BY DEF WindowInv, Window!Kinds, Window!Stages
  <2>2. p \in WindowPlace /\ mainPath \in WindowPlace
    BY DEF WindowInv, WindowHeld, WindowPlace
  <2> QED
    BY <2>1, <2>2 DEF Window!NewOp, Window!Op, WindowHeld, WindowPlace
<1>2. Window!Begin(q) /\ Window!OpenPath(p) /\ settled' = (settled /\ Window!Busy = {})
        /\ UNCHANGED <<saved, repoPath, mainPath, tabs, shown>>
  BY DEF Window!SwitchWorktree
<1>3. mainPath \in Paths /\ repoPath # None
  BY DEF WindowInv, WindowHeld, Window!SwitchWorktree, WindowPlace
<1> HIDE DEF n
<1>4. /\ q \in Window!Op /\ q.kind = "worktree" /\ q.stage = "opening" /\ q.path = p /\ q.main = mainPath
           /\ q.alone = TRUE
      /\ active' \in WindowPlace /\ (q.ok = TRUE => active' = q.path) /\ (q.ok # TRUE => active' = active)
  BY <1>1, <1>2, WindowOpens DEF WindowInv
<1> HIDE DEF q
<1>5. WindowShape(q) /\ WindowLed(q, active', WindowTabs(tabs'))
  BY <1>3, <1>4 DEF WindowShape, WindowLed
<1>6. ASSUME settled'
      PROVE  Window!Busy = {} /\ WindowCalm(q, active', repoPath', mainPath', WindowTabs(tabs'), shown')
  <2>1. settled /\ Window!Busy = {}
    BY <1>2, <1>6
  <2>2. WindowHere(active, repoPath, mainPath, WindowTabs(tabs)) /\ WindowRead(shown, repoPath)
    BY <1>3, <2>1 DEF WindowInv, WindowAgreed
  <2>3. WindowCalm(q, active', repoPath, mainPath, WindowTabs(tabs), shown)
    BY <1>4, <2>2 DEF WindowCalm, WindowHere
  <2> QED
    BY <1>2, <2>1, <2>3
<1>7. WindowFormed' /\ WindowLone' /\ WindowAgreed'
  BY <1>4, <1>5, <1>6, <1>2, WindowBegun DEF WindowInv
<1>8. WindowHeld'
  BY <1>2, <1>4 DEF WindowHeld, WindowInv
<1> QED
  BY <1>7, <1>8 DEF WindowInv

\* closeTab.
LEMMA WindowCloseTabStep ==
  ASSUME WindowInv, NEW m \in Paths, Window!CloseTab(m)
  PROVE  WindowInv'
<1> DEFINE q == Window!NewOp("close", "closing", None, m)
           disposed == {m, Window!TabOf(tabs, m).worktree}
<1>1. /\ q \in Window!Op /\ q.kind = "close" /\ q.stage = "closing" /\ q.main = m /\ q.base = mainPath
           /\ q.ok = None
      /\ q.alone = TRUE
  <2>1. WindowHeld /\ "close" \in Window!Kinds /\ "closing" \in Window!Stages
    BY DEF WindowInv, Window!Kinds, Window!Stages
  <2>2. None \in WindowPlace /\ m \in WindowPlace
    BY DEF WindowInv, WindowHeld, WindowPlace
  <2> QED
    BY <2>1, <2>2 DEF Window!NewOp, Window!Op, WindowHeld, WindowPlace
<1>2. /\ Window!Begin(q) /\ active' = IF active \in disposed THEN None ELSE active
      /\ settled' = (settled /\ Window!Busy = {} /\ (active \in disposed <=> m = mainPath))
      /\ UNCHANGED <<saved, repoPath, mainPath, tabs, shown>>
  BY DEF Window!CloseTab
<1> HIDE DEF q, disposed
<1>3. WindowShape(q) /\ WindowLed(q, active', WindowTabs(tabs'))
  BY <1>1, WindowAssumption DEF WindowShape, WindowLed
<1>4. ASSUME settled'
      PROVE  Window!Busy = {} /\ WindowCalm(q, active', repoPath', mainPath', WindowTabs(tabs'), shown')
  <2>1. settled /\ Window!Busy = {} /\ (active \in disposed <=> m = mainPath)
    BY <1>2, <1>4
  <2>2. repoPath # None => WindowHere(active, repoPath, mainPath, WindowTabs(tabs)) /\ WindowRead(shown, repoPath)
    BY <2>1 DEF WindowInv, WindowAgreed
  <2>3. m # mainPath => active' = active
    BY <1>2, <2>1
  <2>4. WindowCalm(q, active', repoPath, mainPath, WindowTabs(tabs), shown)
    BY <1>1, <2>2, <2>3 DEF WindowCalm
  <2> QED
    BY <1>2, <2>1, <2>4
<1>5. WindowFormed' /\ WindowLone' /\ WindowAgreed'
  BY <1>1, <1>2, <1>3, <1>4, WindowBegun DEF WindowInv
<1>6. active' \in WindowPlace /\ settled' \in BOOLEAN
  BY <1>2 DEF WindowHeld, WindowInv, WindowPlace
<1>7. WindowHeld'
  BY <1>2, <1>6 DEF WindowHeld, WindowInv
<1> QED
  BY <1>5, <1>7 DEF WindowInv

\* reorderTabs.
LEMMA WindowReorderTabsStep ==
  ASSUME WindowInv, NEW i \in DOMAIN tabs, NEW j \in DOMAIN tabs, Window!ReorderTabs(i, j)
  PROVE  WindowInv'
<1>1. /\ tabs' = Window!Moved(tabs, i, j) /\ saved' = [tabs |-> tabs', active |-> mainPath]
      /\ UNCHANGED <<active, repoPath, mainPath, shown, ops, settled>>
  BY DEF Window!ReorderTabs, Window!SetTabs, Window!Persist
<1>2. Window!Moved(tabs, i, j) \in WindowList /\ WindowTabs(Window!Moved(tabs, i, j)) = WindowTabs(tabs)
  BY WindowMovedIs DEF WindowInv, WindowHeld
<1>3. tabs' \in WindowList /\ WindowTabs(tabs') = WindowTabs(tabs)
  BY <1>1, <1>2
<1>4. WindowFormed' /\ WindowLone' /\ WindowAgreed'
  BY <1>1, <1>3, WindowRested DEF WindowInv
<1>5. WindowDistinct(tabs')
  BY <1>3 DEF WindowInv, WindowHeld, WindowDistinct
<1>6. WindowHeld'
  BY <1>1, <1>3, <1>5 DEF WindowHeld, WindowInv
<1> QED
  BY <1>4, <1>6 DEF WindowInv

\* The refresh of what is shown.
LEMMA WindowRefreshStep ==
  ASSUME WindowInv, Window!Refresh
  PROVE  WindowInv'
<1> DEFINE n == Window!NewOp("refresh", "reading", None, None)
           q == Window!Reading(n)
<1>1. n \in Window!Op /\ n.kind = "refresh" /\ n.stage = "reading" /\ n.ok = None /\ n.alone = TRUE
  <2>1. WindowHeld /\ "refresh" \in Window!Kinds /\ "reading" \in Window!Stages
    BY DEF WindowInv, Window!Kinds, Window!Stages
  <2>2. None \in WindowPlace /\ None \in WindowPlace
    BY DEF WindowInv, WindowHeld, WindowPlace
  <2> QED
    BY <2>1, <2>2 DEF Window!NewOp, Window!Op, WindowHeld, WindowPlace
<1>2. /\ Window!Begin(q) /\ settled' = (settled /\ Window!Busy = {}) /\ repoPath # None
      /\ UNCHANGED <<active, saved, repoPath, mainPath, tabs, shown>>
  BY DEF Window!Refresh, Window!state
<1> HIDE DEF n
<1>3. /\ q \in Window!Op /\ q.kind = "refresh" /\ q.stage = "reading" /\ q.ok = None /\ q.alone = TRUE
      /\ q.read \in {active, None}
  BY <1>1, WindowReads DEF WindowInv
<1> HIDE DEF q
<1>4. WindowShape(q) /\ WindowLed(q, active', WindowTabs(tabs'))
  BY <1>3, WindowAssumption DEF WindowShape, WindowLed
<1>5. ASSUME settled'
      PROVE  Window!Busy = {} /\ WindowCalm(q, active', repoPath', mainPath', WindowTabs(tabs'), shown')
  <2>1. settled /\ Window!Busy = {}
    BY <1>2, <1>5
  <2>2. WindowHere(active, repoPath, mainPath, WindowTabs(tabs))
    BY <1>2, <2>1 DEF WindowInv, WindowAgreed
  <2>3. WindowCalm(q, active, repoPath, mainPath, WindowTabs(tabs), shown)
    BY <1>3, <2>2 DEF WindowCalm, WindowHere
  <2> QED
    BY <1>2, <2>1, <2>3
<1>6. WindowFormed' /\ WindowLone' /\ WindowAgreed'
  BY <1>2, <1>3, <1>4, <1>5, WindowBegun DEF WindowInv
<1>7. WindowHeld'
  BY <1>2 DEF WindowHeld, WindowInv
<1> QED
  BY <1>6, <1>7 DEF WindowInv

\* What a settled operation leaves agreed does not depend on whether it has run alone when it claims less.
LEMMA WindowCalmStays ==
  ASSUME NEW o, NEW q, WindowAlike(q, o), ~q.alone, NEW x, NEW r, NEW m, NEW T, NEW sh,
           WindowCalm(o, x, r, m, T, sh)
  PROVE  WindowCalm(q, x, r, m, T, sh) /\ WindowCalm(q, x, None, None, T, sh)
BY DEF WindowCalm, WindowAlike

\* The way back to the start page.
LEMMA WindowGoHomeStep ==
  ASSUME WindowInv, Window!GoHome
  PROVE  WindowInv'
<1>1. /\ Window!Disturb /\ repoPath' = None /\ mainPath' = None
      /\ UNCHANGED <<active, saved, tabs, shown, settled>>
  BY DEF Window!GoHome
<1>2. ASSUME settled', NEW s \in Window!Busy
      PROVE  /\ Window!Busy = {s}
             /\ \A q \in Window!Op : WindowAlike(q, ops[s]) /\ ~q.alone
                  => WindowCalm(q, active', repoPath', mainPath', WindowTabs(tabs'), shown')
  BY <1>1, <1>2, WindowCalmStays DEF WindowInv, WindowAgreed
<1>3. WindowFormed' /\ WindowLone' /\ WindowAgreed'
  BY <1>1, <1>2, WindowDisturbed DEF WindowInv
<1>4. WindowHeld'
  BY <1>1 DEF WindowHeld, WindowInv, WindowPlace
<1> QED
  BY <1>3, <1>4 DEF WindowInv

\* A path vanishes from the disk, or from its machine.
LEMMA WindowVanishStep ==
  ASSUME WindowInv, NEW p \in Paths, Window!Vanish(p)
  PROVE  WindowInv'
<1>1. Window!Disturb /\ UNCHANGED <<active, saved, tabs, shown, settled, repoPath, mainPath>>
  BY DEF Window!Vanish, Window!state
<1>2. ASSUME settled', NEW s \in Window!Busy
      PROVE  /\ Window!Busy = {s}
             /\ \A q \in Window!Op : WindowAlike(q, ops[s]) /\ ~q.alone
                  => WindowCalm(q, active', repoPath', mainPath', WindowTabs(tabs'), shown')
  BY <1>1, <1>2, WindowCalmStays DEF WindowInv, WindowAgreed
<1>3. settled' /\ Window!Busy = {} /\ repoPath' # None =>
        WindowHere(active', repoPath', mainPath', WindowTabs(tabs')) /\ WindowRead(shown', repoPath')
  BY <1>1 DEF WindowInv, WindowAgreed
<1>4. WindowFormed' /\ WindowLone' /\ WindowAgreed'
  BY <1>1, <1>2, <1>3, WindowDisturbed DEF WindowInv
<1>5. WindowHeld'
  BY <1>1 DEF WindowHeld, WindowInv
<1> QED
  BY <1>4, <1>5 DEF WindowInv

\* A path comes back.
LEMMA WindowReturnStep ==
  ASSUME WindowInv, NEW p \in Paths, Window!Return(p)
  PROVE  WindowInv'
<1>1. UNCHANGED <<active, saved, tabs, shown, settled, repoPath, mainPath, ops>>
  BY DEF Window!Return, Window!state
<1>2. WindowFormed' /\ WindowLone' /\ WindowAgreed'
  BY <1>1, WindowRested DEF WindowInv
<1>3. WindowHeld'
  BY <1>1 DEF WindowHeld, WindowInv
<1> QED
  BY <1>2, <1>3 DEF WindowInv

\* A list of no tabs.
LEMMA WindowEmptyList == <<>> \in WindowList /\ WindowTabs(<<>>) = {} /\ WindowDistinct(<<>>)
BY DEF WindowList, WindowTabs, WindowDistinct

\* A restart of the app.
LEMMA WindowRestartStep ==
  ASSUME WindowInv, Window!Restart
  PROVE  WindowInv'
<1> DEFINE n == Window!NewOp("restore", "adding", None, None)
           q == [n EXCEPT !.base = None]
<1>1. n \in Window!Op /\ n.kind = "restore" /\ n.stage = "adding" /\ n.ok = None
  <2>1. WindowHeld /\ "restore" \in Window!Kinds /\ "adding" \in Window!Stages
    BY DEF WindowInv, Window!Kinds, Window!Stages
  <2>2. None \in WindowPlace /\ None \in WindowPlace
    BY DEF WindowInv, WindowHeld, WindowPlace
  <2> QED
    BY <2>1, <2>2 DEF Window!NewOp, Window!Op, WindowHeld, WindowPlace
<1>2. /\ active' = None /\ repoPath' = None /\ mainPath' = None /\ tabs' = <<>> /\ settled' = FALSE
      /\ saved' = saved /\ (ops' = <<>> \/ ops' = [s \in {1} |-> q])
  BY DEF Window!Restart
<1> HIDE DEF n
<1>3. q \in Window!Op /\ q.kind = "restore" /\ q.stage = "adding" /\ q.ok = None
  BY <1>1 DEF Window!Op
<1> HIDE DEF q
<1>4. WindowShape(q) /\ WindowLed(q, active', WindowTabs(tabs'))
  BY <1>3, WindowAssumption DEF WindowShape, WindowLed
<1>5. WindowFormed' /\ WindowLone' /\ WindowAgreed'
  BY <1>2, <1>3, <1>4, WindowRestarted
<1>6. WindowHeld'
  BY <1>2, WindowEmptyList DEF WindowHeld, WindowInv, WindowPlace
<1> QED
  BY <1>5, <1>6 DEF WindowInv

\* An operation under way, and what holds of it.
LEMMA WindowOfOp ==
  ASSUME WindowInv, NEW s \in Window!Busy
  PROVE  /\ ops[s] \in Window!Op /\ WindowShape(ops[s])
         /\ ops[s].alone => Window!Busy = {s} /\ WindowLed(ops[s], active, WindowTabs(tabs))
         /\ settled => Window!Busy = {s} /\ WindowCalm(ops[s], active, repoPath, mainPath, WindowTabs(tabs), shown)
         /\ ops[s].path \in WindowPlace /\ ops[s].main \in WindowPlace /\ ops[s].base \in WindowPlace
              /\ ops[s].read \in WindowPlace
         /\ ops[s].alone \in BOOLEAN /\ ops[s].ok \in BOOLEAN \cup {None}
BY DEF WindowInv, WindowFormed, WindowLone, WindowAgreed, Window!Op, WindowPlace

\* The probe of a path that is loaded.
LEMMA WindowProbedStep ==
  ASSUME WindowInv, NEW s \in Window!Busy, Window!Probed(s)
  PROVE  WindowInv'
<1> DEFINE ok == ops[s].path \notin gone
           q == [ops[s] EXCEPT !.ok = ok]
<1>1. PICK o \in Window!Op : o = ops[s]
  BY WindowOfOp
<1>2. /\ WindowShape(o) /\ (o.alone => Window!Busy = {s} /\ WindowLed(o, active, WindowTabs(tabs)))
      /\ settled => Window!Busy = {s} /\ WindowCalm(o, active, repoPath, mainPath, WindowTabs(tabs), shown)
  BY <1>1, WindowOfOp
<1>3. /\ o.stage \in {"opening", "falling"} /\ o.ok = None
      /\ active' = IF ok THEN o.path ELSE active
      /\ Window!Continue(s, q) /\ UNCHANGED <<saved, repoPath, mainPath, tabs, shown, settled>>
  BY <1>1 DEF Window!Probed
<1>4. o.path \in Paths
  BY <1>2, <1>3 DEF WindowShape
<1>5. ok \in BOOLEAN
  OBVIOUS
<1> HIDE DEF ok
<1>6. /\ q \in Window!Op /\ q.kind = o.kind /\ q.stage = o.stage /\ q.path = o.path /\ q.main = o.main
           /\ q.base = o.base
      /\ q.ok = ok /\ q.read = o.read /\ q.alone = o.alone
  BY <1>1, <1>5 DEF Window!Op
<1> HIDE DEF q
<1>7. WindowShape(q)
  BY <1>2, <1>3, <1>6, WindowAssumption DEF WindowShape
<1>8. ASSUME q.alone
      PROVE  WindowLed(q, active', WindowTabs(tabs'))
  BY <1>2, <1>3, <1>6, <1>8 DEF WindowLed
<1>9. ASSUME settled'
      PROVE  Window!Busy = {s} /\ WindowCalm(q, active', repoPath', mainPath', WindowTabs(tabs'), shown')
  <2>1. Window!Busy = {s} /\ WindowCalm(o, active, repoPath, mainPath, WindowTabs(tabs), shown)
    BY <1>2, <1>3, <1>9
  <2>2. q.ok # TRUE => active' = active
    BY <1>3, <1>5, <1>6
  <2>3. o.ok # TRUE
    BY <1>3, WindowAssumption
  <2>4. WindowCalm(q, active', repoPath, mainPath, WindowTabs(tabs), shown)
    BY <1>3, <1>6, <2>1, <2>2, <2>3 DEF WindowCalm
  <2> QED
    BY <1>3, <2>1, <2>4
<1>10. WindowFormed' /\ WindowLone' /\ WindowAgreed'
  BY <1>1, <1>3, <1>6, <1>7, <1>8, <1>9, WindowContinued DEF WindowInv
<1>11. active' \in WindowPlace
  BY <1>3, <1>4 DEF WindowHeld, WindowInv, WindowPlace
<1>12. WindowHeld'
  BY <1>3, <1>11 DEF WindowHeld, WindowInv
<1> QED
  BY <1>10, <1>12 DEF WindowInv

\* The main worktree of a loaded path is asked for.
LEMMA WindowResolveStep ==
  ASSUME WindowInv, NEW s \in Window!Busy, Window!Resolve(s)
  PROVE  WindowInv'
<1> DEFINE m == IF Window!Answer = None THEN ops[s].path ELSE MainOf[active]
           q == [ops[s] EXCEPT !.stage = "resolving", !.main = m]
<1>1. PICK o \in Window!Op : o = ops[s]
  BY WindowOfOp
<1>2. /\ WindowShape(o) /\ (o.alone => Window!Busy = {s} /\ WindowLed(o, active, WindowTabs(tabs)))
      /\ settled => Window!Busy = {s} /\ WindowCalm(o, active, repoPath, mainPath, WindowTabs(tabs), shown)
  BY <1>1, WindowOfOp
<1>3. /\ o.kind = "load" /\ o.stage = "opening" /\ o.ok = TRUE
      /\ Window!Continue(s, q) /\ UNCHANGED <<active, saved, repoPath, mainPath, tabs, shown, settled>>
  BY <1>1 DEF Window!Resolve
<1>4. o.path \in Paths
  BY <1>2, <1>3 DEF WindowShape
<1>5. m \in Paths
  BY <1>1, <1>4, WindowAssumption DEF Window!Answer, WindowInv, WindowHeld, WindowPlace
<1> HIDE DEF m
<1>6. /\ q \in Window!Op /\ q.kind = o.kind /\ q.stage = "resolving" /\ q.path = o.path /\ q.main = m
      /\ q.ok = o.ok /\ q.alone = o.alone
  BY <1>1, <1>5 DEF Window!Op, Window!Stages
<1> HIDE DEF q
<1>7. WindowShape(q)
  BY <1>3, <1>4, <1>5, <1>6 DEF WindowShape
<1>8. ASSUME q.alone
      PROVE  WindowLed(q, active', WindowTabs(tabs'))
  BY <1>2, <1>3, <1>6, <1>8 DEF WindowLed
<1>9. ~settled'
  BY <1>2, <1>3 DEF WindowCalm
<1>10. WindowFormed' /\ WindowLone' /\ WindowAgreed'
  BY <1>1, <1>3, <1>6, <1>7, <1>8, <1>9, WindowContinued DEF WindowInv
<1>11. WindowHeld'
  BY <1>3 DEF WindowHeld, WindowInv
<1> QED
  BY <1>10, <1>11 DEF WindowInv

\* An operation whose service is open goes on to read it.
LEMMA WindowReadingStep ==
  ASSUME WindowInv, NEW s \in Window!Busy, ops[s].kind \in {"load", "tab"}, ops[s].ok = TRUE,
         ops[s].path \in Paths, ops[s].main \in Paths,
         Window!Continue(s, Window!Reading(ops[s])),
           UNCHANGED <<active, saved, repoPath, mainPath, tabs, shown, settled>>
  PROVE  WindowInv'
<1> DEFINE q == Window!Reading(ops[s])
<1>1. PICK o \in Window!Op : o = ops[s]
  BY WindowOfOp
<1>2. /\ WindowShape(o) /\ (o.alone => Window!Busy = {s} /\ WindowLed(o, active, WindowTabs(tabs)))
      /\ settled => Window!Busy = {s} /\ WindowCalm(o, active, repoPath, mainPath, WindowTabs(tabs), shown)
  BY <1>1, WindowOfOp
<1>3. /\ q \in Window!Op /\ q.kind = o.kind /\ q.stage = "reading" /\ q.path = o.path /\ q.main = o.main
      /\ q.ok = o.ok /\ q.alone = o.alone /\ q.read \in {active, None}
  BY <1>1, WindowReads DEF WindowInv
<1>4. Window!Continue(s, q)
  OBVIOUS
<1> HIDE DEF q
<1>5. WindowShape(q)
  BY <1>1, <1>3 DEF WindowShape
<1>6. ASSUME q.alone
      PROVE  WindowLed(q, active', WindowTabs(tabs'))
  BY <1>1, <1>2, <1>3, <1>6 DEF WindowLed
<1>7. ~settled'
  BY <1>1, <1>2 DEF WindowCalm
<1>8. WindowFormed' /\ WindowLone' /\ WindowAgreed'
  BY <1>1, <1>3, <1>4, <1>5, <1>6, <1>7, WindowContinued DEF WindowInv
<1>9. WindowHeld'
  BY DEF WindowHeld, WindowInv
<1> QED
  BY <1>8, <1>9 DEF WindowInv

\* The main worktree is known.
LEMMA WindowResolvedStep ==
  ASSUME WindowInv, NEW s \in Window!Busy, Window!Resolved(s)
  PROVE  WindowInv'
<1>1. /\ ops[s].stage = "resolving" /\ Window!Continue(s, Window!Reading(ops[s]))
      /\ UNCHANGED <<active, saved, repoPath, mainPath, tabs, shown, settled>>
  BY DEF Window!Resolved, Window!state
<1>2. WindowShape(ops[s])
  BY WindowOfOp
<1>3. ops[s].kind \in {"load", "tab"} /\ ops[s].ok = TRUE /\ ops[s].path \in Paths /\ ops[s].main \in Paths
  BY <1>1, <1>2 DEF WindowShape
<1> QED
  BY <1>1, <1>3, WindowReadingStep

\* The worktree of a tab is open.
LEMMA WindowTabOpenedStep ==
  ASSUME WindowInv, NEW s \in Window!Busy, Window!TabOpened(s)
  PROVE  WindowInv'
<1>1. /\ ops[s].kind = "tab" /\ ops[s].stage \in {"opening", "falling"} /\ ops[s].ok = TRUE
      /\ Window!Continue(s, Window!Reading(ops[s]))
      /\ UNCHANGED <<active, saved, repoPath, mainPath, tabs, shown, settled>>
  BY DEF Window!TabOpened
<1>2. WindowShape(ops[s])
  BY WindowOfOp
<1>3. ops[s].path \in Paths /\ ops[s].main \in Paths
  BY <1>1, <1>2 DEF WindowShape
<1> QED
  BY <1>1, <1>3, WindowReadingStep

\* It is gone, and its main worktree is tried.
LEMMA WindowFallBackToMainStep ==
  ASSUME WindowInv, NEW s \in Window!Busy, Window!FallBackToMain(s)
  PROVE  WindowInv'
<1> DEFINE n == [ops[s] EXCEPT !.stage = "falling", !.path = ops[s].main]
           q == Window!Opening(n)
<1>1. PICK o \in Window!Op : o = ops[s]
  BY WindowOfOp
<1>2. /\ WindowShape(o) /\ (o.alone => Window!Busy = {s} /\ WindowLed(o, active, WindowTabs(tabs)))
      /\ settled => Window!Busy = {s} /\ WindowCalm(o, active, repoPath, mainPath, WindowTabs(tabs), shown)
  BY <1>1, WindowOfOp
<1>3. /\ o.kind = "tab" /\ o.stage = "opening"
      /\ Window!Continue(s, q) /\ Window!OpenPath(o.main)
           /\ UNCHANGED <<saved, repoPath, mainPath, tabs, shown, settled>>
  BY <1>1 DEF Window!FallBackToMain
<1>4. o.main \in Paths
  BY <1>2, <1>3 DEF WindowShape
<1>5. n \in Window!Op /\ n.kind = "tab" /\ n.stage = "falling" /\ n.path = o.main /\ n.main = o.main
        /\ n.alone = o.alone
  BY <1>1, <1>3, <1>4 DEF Window!Op, Window!Stages
<1> HIDE DEF n
<1>6. /\ q \in Window!Op /\ q.kind = "tab" /\ q.stage = "falling" /\ q.path = o.main /\ q.main = o.main
      /\ q.alone = o.alone /\ active' \in WindowPlace /\ (q.ok = TRUE => active' = q.path)
  BY <1>3, <1>4, <1>5, WindowOpens DEF WindowInv
<1> HIDE DEF q
<1>7. WindowShape(q)
  BY <1>4, <1>6 DEF WindowShape
<1>8. ASSUME q.alone
      PROVE  WindowLed(q, active', WindowTabs(tabs'))
  BY <1>2, <1>3, <1>6, <1>8 DEF WindowLed
<1>9. ~settled'
  BY <1>2, <1>3 DEF WindowCalm
<1>10. WindowFormed' /\ WindowLone' /\ WindowAgreed'
  BY <1>1, <1>3, <1>6, <1>7, <1>8, <1>9, WindowContinued DEF WindowInv
<1>11. WindowHeld'
  BY <1>3, <1>6 DEF WindowHeld, WindowInv
<1> QED
  BY <1>10, <1>11 DEF WindowInv

\* Nothing opens: the operation ends and the window stays where it was.
LEMMA WindowOpenFailedStep ==
  ASSUME WindowInv, NEW s \in Window!Busy, Window!OpenFailed(s)
  PROVE  WindowInv'
<1>1. PICK o \in Window!Op : o = ops[s]
  BY WindowOfOp
<1>2. /\ WindowShape(o)
      /\ settled => Window!Busy = {s} /\ WindowCalm(o, active, repoPath, mainPath, WindowTabs(tabs), shown)
  BY <1>1, WindowOfOp
<1>3. /\ o.kind \in {"load", "tab", "worktree"} /\ o.ok = FALSE /\ Window!Finish(s)
      /\ UNCHANGED <<active, saved, repoPath, mainPath, tabs, shown, settled>>
  BY <1>1 DEF Window!OpenFailed
<1>4. ASSUME settled'
      PROVE  /\ Window!Busy = {s}
             /\ repoPath' # None => /\ WindowHere(active', repoPath', mainPath', WindowTabs(tabs'))
                                       /\ WindowRead(shown', repoPath')
  <2>1. Window!Busy = {s} /\ WindowCalm(o, active, repoPath, mainPath, WindowTabs(tabs), shown)
    BY <1>2, <1>3, <1>4
  <2>2. o.kind = "worktree" /\ o.stage = "opening" /\ o.ok # TRUE
    BY <1>2, <1>3, <2>1 DEF WindowCalm, WindowShape
  <2>3. repoPath # None => WindowHere(active, repoPath, mainPath, WindowTabs(tabs)) /\ WindowRead(shown, repoPath)
    BY <2>1, <2>2 DEF WindowCalm
  <2> QED
    BY <1>3, <2>1, <2>3
<1>5. WindowFormed' /\ WindowLone' /\ WindowAgreed'
  BY <1>3, <1>4, WindowFinished DEF WindowInv
<1>6. WindowHeld'
  BY <1>3 DEF WindowHeld, WindowInv
<1> QED
  BY <1>5, <1>6 DEF WindowInv

\* A worktree is open, or is not.
LEMMA WindowWorktreeOpenedStep ==
  ASSUME WindowInv, NEW s \in Window!Busy, Window!WorktreeOpened(s)
  PROVE  WindowInv'
<1> DEFINE q == Window!Reading(ops[s])
<1>1. PICK o \in Window!Op : o = ops[s]
  BY WindowOfOp
<1>2. /\ WindowShape(o) /\ (o.alone => Window!Busy = {s} /\ WindowLed(o, active, WindowTabs(tabs)))
      /\ settled => Window!Busy = {s} /\ WindowCalm(o, active, repoPath, mainPath, WindowTabs(tabs), shown)
  BY <1>1, WindowOfOp
<1>3. /\ o.kind = "worktree" /\ o.stage = "opening" /\ o.ok = TRUE
      /\ repoPath' = o.path /\ tabs' = Window!WithWorktree(tabs, o.main, o.path)
           /\ saved' = [tabs |-> tabs', active |-> o.main]
      /\ Window!Continue(s, q) /\ UNCHANGED <<active, mainPath, shown, settled>>
  BY <1>1 DEF Window!WorktreeOpened, Window!SetTabs, Window!Persist
<1>4. o.path \in Paths /\ o.main \in Paths
  BY <1>2, <1>3 DEF WindowShape
<1>5. /\ q \in Window!Op /\ q.kind = o.kind /\ q.stage = "reading" /\ q.path = o.path /\ q.main = o.main
      /\ q.ok = o.ok /\ q.alone = o.alone /\ q.read \in {active, None}
  BY <1>1, WindowReads DEF WindowInv
<1> HIDE DEF q
<1>6. /\ tabs' \in WindowList /\ WindowDistinct(tabs')
      /\ (\E t \in WindowTabs(tabs) : t.main = o.main) => WindowPlaced(WindowTabs(tabs'), o.main, o.path)
  BY <1>3, <1>4, WindowSwitched DEF WindowInv, WindowHeld
<1>7. WindowShape(q)
  BY <1>3, <1>4, <1>5 DEF WindowShape
<1>8. ASSUME q.alone
      PROVE  WindowLed(q, active', WindowTabs(tabs'))
  BY <1>2, <1>3, <1>5, <1>8 DEF WindowLed
<1>9. ASSUME settled'
      PROVE  Window!Busy = {s} /\ WindowCalm(q, active', repoPath', mainPath', WindowTabs(tabs'), shown')
  <2>1. Window!Busy = {s} /\ WindowCalm(o, active, repoPath, mainPath, WindowTabs(tabs), shown)
    BY <1>2, <1>3, <1>9
  <2>2. ASSUME q.alone
        PROVE  WindowHere(active, o.path, mainPath, WindowTabs(tabs')) /\ q.read \in {o.path, None}
    <3>1. active = o.path
      BY <1>2, <1>3, <1>5, <2>2 DEF WindowLed
    <3>2. o.main = mainPath /\ \E t \in WindowTabs(tabs) : t.main = mainPath
      BY <1>3, <1>5, <2>1, <2>2 DEF WindowCalm
    <3> QED
      BY <1>5, <1>6, <3>1, <3>2 DEF WindowHere, WindowPlaced
  <2>3. WindowCalm(q, active, o.path, mainPath, WindowTabs(tabs'), shown)
    BY <1>3, <1>5, <2>2 DEF WindowCalm
  <2> QED
    BY <1>3, <2>1, <2>3
<1>10. WindowFormed' /\ WindowLone' /\ WindowAgreed'
  BY <1>1, <1>3, <1>5, <1>7, <1>8, <1>9, WindowContinued DEF WindowInv
<1>11. repoPath' \in WindowPlace /\ repoPath' # None /\ saved' \in [tabs : WindowList, active : WindowPlace]
         /\ saved'.tabs = tabs'
  BY <1>3, <1>4, <1>6, WindowAssumption DEF WindowPlace
<1>12. WindowHeld'
  BY <1>3, <1>6, <1>11 DEF WindowHeld, WindowInv
<1> QED
  BY <1>10, <1>12 DEF WindowInv

\* The service of a closed tab is disposed of, and the window falls back to the last tab or to none.
LEMMA WindowTabClosedStep ==
  ASSUME WindowInv, NEW s \in Window!Busy, Window!TabClosed(s)
  PROVE  WindowInv'
<1> DEFINE next == Window!WithoutTab(tabs, ops[s].main)
           t == next[Len(next)]
           n == [ops[s] EXCEPT !.kind = "fallback", !.stage = "opening", !.path = t.worktree, !.main = t.main]
           q == Window!Opening(n)
<1>1. PICK o \in Window!Op : o = ops[s]
  BY WindowOfOp
<1>2. /\ WindowShape(o) /\ o.base \in WindowPlace
      /\ settled => Window!Busy = {s} /\ WindowCalm(o, active, repoPath, mainPath, WindowTabs(tabs), shown)
  BY <1>1, WindowOfOp
<1>3. next \in WindowList /\ WindowDistinct(next) /\ WindowTabs(next) = {u \in WindowTabs(tabs) : u.main # o.main}
  BY <1>1, WindowWithout DEF WindowInv, WindowHeld
<1>4. /\ o.stage = "closing" /\ settled' = settled
      /\ \/ /\ o.main # o.base /\ tabs' = next /\ saved' = [tabs |-> next, active |-> o.base]
            /\ Window!Finish(s) /\ UNCHANGED <<active, repoPath, mainPath, shown>>
         \/ /\ next = <<>> /\ tabs' = next /\ saved' = [tabs |-> next, active |-> None]
            /\ repoPath' = None /\ mainPath' = None /\ Window!Finish(s) /\ UNCHANGED active
         \/ /\ next # <<>> /\ tabs' = next /\ saved' = [tabs |-> next, active |-> t.main]
            /\ Window!Continue(s, q) /\ Window!OpenPath(t.worktree) /\ UNCHANGED <<repoPath, mainPath, shown>>
  BY <1>1 DEF Window!TabClosed, Window!SetTabs, Window!Persist
<1>5. CASE /\ o.main # o.base /\ tabs' = next /\ saved' = [tabs |-> next, active |-> o.base]
           /\ Window!Finish(s) /\ UNCHANGED <<active, repoPath, mainPath, shown>>
  <2> HIDE DEF next
  <2>1. ASSUME settled'
        PROVE  /\ Window!Busy = {s}
               /\ repoPath' # None => /\ WindowHere(active', repoPath', mainPath', WindowTabs(tabs'))
                                         /\ WindowRead(shown', repoPath')
    <3>1. Window!Busy = {s} /\ WindowCalm(o, active, repoPath, mainPath, WindowTabs(tabs), shown)
      BY <1>2, <1>4, <2>1
    <3>2. repoPath # None =>
            WindowHere(active, repoPath, mainPath, WindowTabs(tabs)) /\ WindowRead(shown, repoPath)
              /\ mainPath = o.base
      BY <1>4, <1>5, <3>1 DEF WindowCalm
    <3>3. repoPath # None => WindowHere(active, repoPath, mainPath, WindowTabs(next))
      BY <1>3, <1>5, <3>2 DEF WindowHere
    <3> QED
      BY <1>5, <3>1, <3>2, <3>3
  <2>2. WindowFormed' /\ WindowLone' /\ WindowAgreed'
    BY <1>5, <2>1, WindowFinished DEF WindowInv
  <2>3. saved' \in [tabs : WindowList, active : WindowPlace] /\ saved'.tabs = next
    BY <1>2, <1>3, <1>5
  <2>4. WindowHeld'
    BY <1>3, <1>4, <1>5, <2>3 DEF WindowHeld, WindowInv
  <2> QED
    BY <2>2, <2>4 DEF WindowInv
<1>6. CASE /\ next = <<>> /\ tabs' = next /\ saved' = [tabs |-> next, active |-> None]
           /\ repoPath' = None /\ mainPath' = None /\ Window!Finish(s) /\ UNCHANGED active
  <2> HIDE DEF next
  <2>1. settled' => Window!Busy = {s}
    BY <1>2, <1>4
  <2>2. WindowFormed' /\ WindowLone' /\ WindowAgreed'
    BY <1>6, <2>1, WindowFinished DEF WindowInv
  <2>3. saved' \in [tabs : WindowList, active : WindowPlace] /\ saved'.tabs = next
    BY <1>3, <1>6 DEF WindowPlace
  <2>4. WindowHeld'
    BY <1>3, <1>4, <1>6, <2>3 DEF WindowHeld, WindowInv, WindowPlace
  <2> QED
    BY <2>2, <2>4 DEF WindowInv
<1>7. CASE /\ next # <<>> /\ tabs' = next /\ saved' = [tabs |-> next, active |-> t.main]
           /\ Window!Continue(s, q) /\ Window!OpenPath(t.worktree) /\ UNCHANGED <<repoPath, mainPath, shown>>
  <2> HIDE DEF next
  <2>1. t \in WindowTabs(next)
    BY <1>3, <1>7, WindowLastTab
  <2>2. t \in [main : Paths, worktree : Paths]
    BY <1>3, <2>1, WindowTabsAre
  <2>3. t.main \in Paths /\ t.worktree \in Paths /\ t = [main |-> t.main, worktree |-> t.worktree]
    BY <2>2
  <2> HIDE DEF t
  <2>4. n \in Window!Op /\ n.kind = "fallback" /\ n.stage = "opening" /\ n.path = t.worktree /\ n.main = t.main
          /\ n.alone = o.alone
    BY <1>1, <2>3 DEF Window!Op, Window!Kinds, Window!Stages
  <2> HIDE DEF n
  <2>5. /\ q \in Window!Op /\ q.kind = "fallback" /\ q.stage = "opening" /\ q.path = t.worktree /\ q.main = t.main
        /\ q.alone = o.alone /\ active' \in WindowPlace /\ (q.ok = TRUE => active' = q.path)
    BY <1>7, <2>3, <2>4, WindowOpens DEF WindowInv
  <2>6. Window!Continue(s, q)
    BY <1>7
  <2> HIDE DEF q
  <2>7. WindowShape(q)
    BY <2>3, <2>5 DEF WindowShape
  <2>8. WindowLed(q, active', WindowTabs(tabs'))
    BY <1>7, <2>1, <2>3, <2>5 DEF WindowLed
  <2>9. ASSUME settled'
        PROVE  Window!Busy = {s} /\ WindowCalm(q, active', repoPath', mainPath', WindowTabs(tabs'), shown')
    BY <1>2, <1>4, <2>5, <2>9 DEF WindowCalm
  <2>10. WindowFormed' /\ WindowLone' /\ WindowAgreed'
    BY <1>1, <2>5, <2>6, <2>7, <2>8, <2>9, WindowContinued DEF WindowInv
  <2>11. saved' \in [tabs : WindowList, active : WindowPlace] /\ saved'.tabs = next
    BY <1>3, <1>7, <2>3 DEF WindowPlace
  <2>12. WindowHeld'
    BY <1>3, <1>4, <1>7, <2>5, <2>11 DEF WindowHeld, WindowInv
  <2> QED
    BY <2>10, <2>12 DEF WindowInv
<1> QED
  BY <1>4, <1>5, <1>6, <1>7

\* The tab closeTab falls back to is open, or is not.
LEMMA WindowFallenBackStep ==
  ASSUME WindowInv, NEW s \in Window!Busy, Window!FallenBack(s)
  PROVE  WindowInv'
<1> DEFINE target == IF ops[s].ok THEN ops[s].path ELSE ops[s].main
           read == IF ops[s].ok THEN Window!Answer ELSE IF ops[s].main \in loaded \ gone THEN ops[s].main ELSE Window!Answer
           q == [Window!Reading(ops[s]) EXCEPT !.read = read]
<1>1. PICK o \in Window!Op : o = ops[s]
  BY WindowOfOp
<1>2. /\ WindowShape(o) /\ (o.alone => Window!Busy = {s} /\ WindowLed(o, active, WindowTabs(tabs)))
      /\ settled => Window!Busy = {s} /\ WindowCalm(o, active, repoPath, mainPath, WindowTabs(tabs), shown)
  BY <1>1, WindowOfOp
<1>3. /\ o.kind = "fallback" /\ o.stage = "opening" /\ o.ok # None
      /\ repoPath' = target /\ mainPath' = o.main
      /\ settled' = (settled /\ o.ok)
      /\ Window!Continue(s, q) /\ UNCHANGED <<saved, tabs, shown>>
      /\ \/ o.ok /\ active' = active
         \/ ~o.ok /\ (Window!OpenPath(o.main) \/ active' = o.main)
  BY <1>1 DEF Window!FallenBack
<1>4. o.path \in Paths /\ o.main \in Paths
  BY <1>2, <1>3 DEF WindowShape
<1>5. o.ok \in BOOLEAN
  BY <1>3 DEF Window!Op
<1>6. active' \in WindowPlace
  BY <1>3, <1>4 DEF Window!OpenPath, WindowInv, WindowHeld, WindowPlace
<1>7. target \in Paths /\ (o.ok = TRUE => target = o.path)
  BY <1>1, <1>4, <1>5
<1>8. read \in WindowPlace /\ (o.ok = TRUE => read \in {active, None})
  BY <1>1, <1>4, <1>5, WindowReads DEF WindowInv, WindowPlace
<1> HIDE DEF target, read
<1>9. /\ q \in Window!Op /\ q.kind = "fallback" /\ q.stage = "reading" /\ q.path = o.path /\ q.main = o.main
      /\ q.ok = o.ok /\ q.alone = o.alone /\ q.read = read
  <2> DEFINE e == Window!Reading(ops[s])
  <2>1. e \in Window!Op /\ e.kind = o.kind /\ e.stage = "reading" /\ e.path = o.path /\ e.main = o.main
          /\ e.ok = o.ok /\ e.alone = o.alone
    BY <1>1, WindowReads DEF WindowInv
  <2> HIDE DEF e
  <2>2. q = [e EXCEPT !.read = read]
    BY DEF e
  <2>3. [e EXCEPT !.read = read] \in Window!Op
    BY <1>8, <2>1 DEF Window!Op, WindowPlace
  <2> QED
    BY <1>3, <2>1, <2>2, <2>3 DEF Window!Op
<1> HIDE DEF q
<1>10. WindowShape(q)
  BY <1>4, <1>9 DEF WindowShape
<1>11. ASSUME q.alone
       PROVE  WindowLed(q, active', WindowTabs(tabs'))
  BY <1>2, <1>3, <1>5, <1>9, <1>11 DEF WindowLed
<1>12. ASSUME settled'
       PROVE  Window!Busy = {s} /\ WindowCalm(q, active', repoPath', mainPath', WindowTabs(tabs'), shown')
  <2>1. settled /\ o.ok = TRUE /\ Window!Busy = {s}
    BY <1>2, <1>3, <1>5, <1>12
  <2>2. active' = active /\ repoPath' = o.path
    BY <1>3, <1>7, <2>1
  <2>3. ASSUME q.alone
        PROVE  WindowHere(active, o.path, o.main, WindowTabs(tabs)) /\ q.read \in {o.path, None}
    <3>1. active = o.path /\ [main |-> o.main, worktree |-> o.path] \in WindowTabs(tabs)
      BY <1>2, <1>3, <1>9, <2>1, <2>3 DEF WindowLed
    <3>2. \A t \in WindowTabs(tabs) : t.main = o.main => t = [main |-> o.main, worktree |-> o.path]
      BY <3>1 DEF WindowInv, WindowHeld, WindowDistinct
    <3> QED
      BY <1>8, <1>9, <2>1, <3>1, <3>2 DEF WindowHere
  <2>4. WindowCalm(q, active, o.path, o.main, WindowTabs(tabs), shown)
    BY <1>9, <2>3 DEF WindowCalm
  <2> QED
    BY <1>3, <2>1, <2>2, <2>4
<1>13. WindowFormed' /\ WindowLone' /\ WindowAgreed'
  BY <1>1, <1>3, <1>9, <1>10, <1>11, <1>12, WindowContinued DEF WindowInv
<1>14. repoPath' \in WindowPlace /\ repoPath' # None /\ mainPath' \in WindowPlace /\ settled' \in BOOLEAN
  BY <1>3, <1>4, <1>7, WindowAssumption DEF WindowPlace
<1>15. WindowHeld'
  BY <1>3, <1>6, <1>14 DEF WindowHeld, WindowInv
<1> QED
  BY <1>13, <1>15 DEF WindowInv

\* What was read is stored: the answers of the operation that is shown, and no others.
LEMMA WindowStoreStep ==
  ASSUME WindowInv, NEW s \in Window!Busy, Window!Store(s)
  PROVE  WindowInv'
<1>1. PICK o \in Window!Op : o = ops[s]
  BY WindowOfOp
<1>2. /\ WindowShape(o) /\ (o.alone => Window!Busy = {s} /\ WindowLed(o, active, WindowTabs(tabs)))
      /\ settled => Window!Busy = {s} /\ WindowCalm(o, active, repoPath, mainPath, WindowTabs(tabs), shown)
  BY <1>1, WindowOfOp
<1>3. /\ o.stage = "reading" /\ Window!Finish(s) /\ active' = active
      /\ ~Window!Failed(o) => shown' = [log |-> o.read, rest |-> o.read]
  BY <1>1 DEF Window!Store
<1>4. CASE o.kind \in {"load", "tab"} /\ ~Window!Failed(o)
  <2>1. /\ repoPath' = o.path /\ mainPath' = o.main
        /\ tabs' = IF o.kind = "load" THEN Window!Upsert(tabs, o.main, o.path) ELSE Window!WithWorktree(tabs, o.main, o.path)
        /\ saved' = [tabs |-> tabs', active |-> o.main]
        /\ settled' = (o.alone /\ o.read # None)
    BY <1>1, <1>4 DEF Window!Store, Window!SetTabs, Window!Persist, Window!Landed
  <2>2. o.path \in Paths /\ o.main \in Paths /\ o.ok = TRUE
    BY <1>2, <1>3, <1>4 DEF WindowShape
  <2>3. /\ tabs' \in WindowList /\ WindowDistinct(tabs')
        /\ o.kind = "load" \/ (\E t \in WindowTabs(tabs) : t.main = o.main)
             => WindowPlaced(WindowTabs(tabs'), o.main, o.path)
    BY <1>4, <2>1, <2>2, WindowUpserted, WindowSwitched DEF WindowInv, WindowHeld
  <2>4. ASSUME settled'
        PROVE  Window!Busy = {s} /\ WindowHere(active', repoPath', mainPath', WindowTabs(tabs'))
                 /\ WindowRead(shown', repoPath')
    <3>1. o.alone /\ o.read # None
      BY <2>1, <2>4
    <3>2. Window!Busy = {s} /\ active = o.path /\ o.read = o.path
            /\ (o.kind = "tab" => \E t \in WindowTabs(tabs) : t.main = o.main)
      BY <1>2, <1>3, <1>4, <2>2, <3>1 DEF WindowLed
    <3>3. WindowHere(active, o.path, o.main, WindowTabs(tabs'))
      BY <1>4, <2>3, <3>2 DEF WindowHere, WindowPlaced
    <3>4. WindowRead(shown', o.path)
      BY <1>3, <1>4, <3>2 DEF WindowRead
    <3> QED
      BY <1>3, <2>1, <3>2, <3>3, <3>4
  <2>5. WindowFormed' /\ WindowLone' /\ WindowAgreed'
    BY <1>3, <2>4, WindowFinished DEF WindowInv
  <2>6. repoPath' \in WindowPlace /\ repoPath' # None /\ mainPath' \in WindowPlace /\ settled' \in BOOLEAN
    BY <2>1, <2>2, WindowAssumption DEF Window!Op, WindowPlace
  <2>7. saved' \in [tabs : WindowList, active : WindowPlace] /\ saved'.tabs = tabs'
    BY <2>1, <2>2, <2>3 DEF WindowPlace
  <2>8. WindowHeld'
    BY <1>3, <2>3, <2>6, <2>7 DEF WindowHeld, WindowInv
  <2> QED
    BY <2>5, <2>8 DEF WindowInv
<1>5. CASE ~(o.kind \in {"load", "tab"} /\ ~Window!Failed(o))
  <2>1. /\ UNCHANGED <<repoPath, mainPath, tabs, saved>>
        /\ o.kind \in {"load", "tab"} => settled' = (o.alone /\ o.read # None)
        /\ o.kind \notin {"load", "tab"} => settled' = (settled /\ o.alone /\ ~Window!Failed(o))
    BY <1>1, <1>5 DEF Window!Store
  <2>2. Window!Failed(o) => o.read = None
    BY DEF Window!Failed
  <2>3. ASSUME settled'
        PROVE  /\ Window!Busy = {s}
               /\ repoPath' # None => /\ WindowHere(active', repoPath', mainPath', WindowTabs(tabs'))
                                         /\ WindowRead(shown', repoPath')
    <3>1. settled /\ o.alone /\ ~Window!Failed(o)
      BY <1>5, <2>1, <2>2, <2>3
    <3>2. Window!Busy = {s} /\ WindowCalm(o, active, repoPath, mainPath, WindowTabs(tabs), shown)
      BY <1>2, <3>1
    <3>3. WindowHere(active, repoPath, mainPath, WindowTabs(tabs)) /\ o.read \in {repoPath, None}
      BY <1>3, <3>1, <3>2 DEF WindowCalm
    <3>4. WindowRead(shown', repoPath)
      BY <1>3, <3>1, <3>3 DEF WindowRead
    <3> QED
      BY <1>3, <2>1, <3>2, <3>3, <3>4
  <2>4. WindowFormed' /\ WindowLone' /\ WindowAgreed'
    BY <1>3, <2>3, WindowFinished DEF WindowInv
  <2>5. settled' \in BOOLEAN
    BY <2>1
  <2>6. WindowHeld'
    BY <1>3, <2>1, <2>5 DEF WindowHeld, WindowInv
  <2> QED
    BY <2>4, <2>6 DEF WindowInv
<1> QED
  BY <1>4, <1>5

\* The tabs of the file are restored, and the one that was active is opened.
LEMMA WindowRestoreStep ==
  ASSUME WindowInv, NEW s \in Window!Busy, Window!Restore(s)
  PROVE  WindowInv'
<1> DEFINE ts == Window!Restored
           t == IF saved.active \in Window!Mains(ts) THEN Window!TabOf(ts, saved.active) ELSE ts[Len(ts)]
           w == IF t.worktree \in gone THEN None ELSE t.worktree
           q == [ops[s] EXCEPT !.stage = "reading", !.path = t.worktree, !.main = t.main, !.read = w]
<1>1. PICK o \in Window!Op : o = ops[s]
  BY WindowOfOp
<1>2. /\ WindowShape(o) /\ (o.alone => Window!Busy = {s} /\ WindowLed(o, active, WindowTabs(tabs)))
      /\ settled => Window!Busy = {s} /\ WindowCalm(o, active, repoPath, mainPath, WindowTabs(tabs), shown)
  BY <1>1, WindowOfOp
<1>3. ts \in WindowList /\ WindowDistinct(ts)
  BY WindowRestoredIs DEF WindowInv, WindowHeld
<1>4. /\ o.stage = "adding"
      /\ \/ Window!Finish(s) /\ UNCHANGED <<active, saved, repoPath, mainPath, tabs, shown, settled>>
         \/ /\ ts # <<>> /\ active' = t.worktree /\ tabs' = ts /\ repoPath' = t.worktree /\ mainPath' = t.main
            /\ Window!Continue(s, q) /\ settled' = (o.alone /\ ts = saved.tabs) /\ UNCHANGED <<saved, shown>>
  BY <1>1 DEF Window!Restore, Window!state
<1>5. CASE Window!Finish(s) /\ UNCHANGED <<active, saved, repoPath, mainPath, tabs, shown, settled>>
  <2>1. ~settled'
    BY <1>2, <1>4, <1>5 DEF WindowCalm
  <2>2. WindowFormed' /\ WindowLone' /\ WindowAgreed'
    BY <1>5, <2>1, WindowFinished DEF WindowInv
  <2>3. WindowHeld'
    BY <1>5 DEF WindowHeld, WindowInv
  <2> QED
    BY <2>2, <2>3 DEF WindowInv
<1>6. CASE /\ ts # <<>> /\ active' = t.worktree /\ tabs' = ts /\ repoPath' = t.worktree /\ mainPath' = t.main
           /\ Window!Continue(s, q) /\ settled' = (o.alone /\ ts = saved.tabs) /\ UNCHANGED <<saved, shown>>
  <2> HIDE DEF ts
  <2>1. t \in WindowTabs(ts)
    <3>1. CASE saved.active \in Window!Mains(ts)
      BY <1>3, <3>1, WindowTabOf
    <3>2. CASE saved.active \notin Window!Mains(ts)
      BY <1>3, <1>6, <3>2, WindowLastTab
    <3> QED
      BY <3>1, <3>2
  <2>2. t \in [main : Paths, worktree : Paths]
    BY <1>3, <2>1, WindowTabsAre
  <2>3. t.main \in Paths /\ t.worktree \in Paths
    BY <2>2
  <2> HIDE DEF t
  <2>4. \A u \in WindowTabs(ts) : u.main = t.main => u.worktree = t.worktree
    BY <1>3, <2>1 DEF WindowDistinct
  <2>5. w \in {t.worktree, None} /\ w \in WindowPlace
    BY <2>3 DEF WindowPlace
  <2> HIDE DEF w
  <2>6. /\ q \in Window!Op /\ q.kind = o.kind /\ q.stage = "reading" /\ q.path = t.worktree /\ q.main = t.main
        /\ q.ok = o.ok /\ q.alone = o.alone /\ q.read = w
    BY <1>1, <2>3, <2>5 DEF Window!Op, Window!Stages, WindowPlace
  <2>7. Window!Continue(s, q)
    BY <1>6
  <2> HIDE DEF q
  <2>8. q.kind = "restore" /\ q.ok = None
    BY <1>2, <1>4, <2>6 DEF WindowShape
  <2>9. WindowShape(q)
    BY <2>6, <2>8 DEF WindowShape
  <2>10. WindowLed(q, active', WindowTabs(tabs'))
    BY <2>8, WindowAssumption DEF WindowLed
  <2>11. ASSUME settled'
         PROVE  Window!Busy = {s} /\ WindowCalm(q, active', repoPath', mainPath', WindowTabs(tabs'), shown')
    <3>1. Window!Busy = {s}
      BY <1>2, <1>6, <2>11
    <3>2. WindowHere(t.worktree, t.worktree, t.main, WindowTabs(ts))
      BY <2>1, <2>4 DEF WindowHere
    <3>3. WindowCalm(q, t.worktree, t.worktree, t.main, WindowTabs(ts), shown)
      BY <2>5, <2>6, <2>8, <3>2 DEF WindowCalm
    <3> QED
      BY <1>6, <3>1, <3>3
  <2>12. WindowFormed' /\ WindowLone' /\ WindowAgreed'
    BY <1>1, <2>6, <2>7, <2>9, <2>10, <2>11, WindowContinued DEF WindowInv
  <2>13. settled' \in BOOLEAN /\ active' \in WindowPlace /\ repoPath' \in WindowPlace /\ mainPath' \in WindowPlace
           /\ repoPath' # None
    BY <1>6, <2>3, WindowAssumption DEF Window!Op, WindowPlace
  <2>14. WindowHeld'
    BY <1>3, <1>6, <2>13 DEF WindowHeld, WindowInv
  <2> QED
    BY <2>12, <2>14 DEF WindowInv
<1> QED
  BY <1>4, <1>5, <1>6

\* The invariant holds at the start.
LEMMA WindowStart ==
  ASSUME Window!Init
  PROVE  WindowInv
<1>1. DOMAIN ops = {}
  BY DEF Window!Init
<1>2. WindowFormed /\ WindowLone /\ WindowAgreed
  BY <1>1 DEF Window!Init, WindowFormed, WindowLone, WindowAgreed, Window!Busy
<1>3. WindowHeld
  BY WindowEmptyList DEF Window!Init, WindowHeld, WindowPlace
<1> QED
  BY <1>2, <1>3 DEF WindowInv

\* Every step keeps it.
LEMMA WindowStep ==
  ASSUME WindowInv, [Window!Next]_windowVars
  PROVE  WindowInv'
<1>1. CASE UNCHANGED windowVars
  <2>1. UNCHANGED <<ops, active, repoPath, mainPath, tabs, saved, shown, settled>>
    BY <1>1 DEF windowVars
  <2>2. WindowFormed' /\ WindowLone' /\ WindowAgreed'
    BY <2>1, WindowRested DEF WindowInv
  <2>3. WindowHeld'
    BY <2>1 DEF WindowHeld, WindowInv
  <2> QED
    BY <2>2, <2>3 DEF WindowInv
<1>2. CASE Window!Act
  <2>1. ASSUME NEW p \in Paths,
                 Window!LoadRepo(p) \/ Window!SwitchWorktree(p) \/ Window!Vanish(p) \/ Window!Return(p)
        PROVE  WindowInv'
    BY <2>1, WindowLoadRepoStep, WindowSwitchWorktreeStep, WindowVanishStep, WindowReturnStep
  <2>2. ASSUME NEW m \in Paths, Window!SwitchTab(m) \/ Window!CloseTab(m)
        PROVE  WindowInv'
    BY <2>2, WindowSwitchTabStep, WindowCloseTabStep
  <2>3. ASSUME NEW i \in DOMAIN tabs, NEW j \in DOMAIN tabs, Window!ReorderTabs(i, j)
        PROVE  WindowInv'
    BY <2>3, WindowReorderTabsStep
  <2>4. CASE Window!Refresh \/ Window!GoHome \/ Window!Restart
    BY <2>4, WindowRefreshStep, WindowGoHomeStep, WindowRestartStep
  <2> QED
    BY <1>2, <2>1, <2>2, <2>3, <2>4 DEF Window!Act
<1>3. ASSUME NEW s \in Window!Busy, Window!Go(s)
      PROVE  WindowInv'
  <2>1. CASE Window!Probed(s) \/ Window!Resolve(s) \/ Window!Resolved(s) \/ Window!TabOpened(s) \/ Window!FallBackToMain(s)
    BY <2>1, WindowProbedStep, WindowResolveStep, WindowResolvedStep, WindowTabOpenedStep, WindowFallBackToMainStep
  <2>2. CASE Window!OpenFailed(s) \/ Window!WorktreeOpened(s) \/ Window!TabClosed(s) \/ Window!FallenBack(s)
    BY <2>2, WindowOpenFailedStep, WindowWorktreeOpenedStep, WindowTabClosedStep, WindowFallenBackStep
  <2>3. CASE Window!Store(s) \/ Window!Restore(s)
    BY <2>3, WindowStoreStep, WindowRestoreStep
  <2> QED
    BY <1>3, <2>1, <2>2, <2>3 DEF Window!Go
<1> QED
  BY <1>1, <1>2, <1>3 DEF Window!Next

\* It implies the property.
LEMMA WindowRealigns ==
  ASSUME WindowInv
  PROVE  Window!SwitchesRealign
<1> SUFFICES ASSUME Window!Idle, settled, Window!TabsKeepTheirOwn, repoPath # None
             PROVE  /\ active = repoPath
                    /\ {shown.log, shown.rest} \subseteq {repoPath, None}
                    /\ mainPath = MainOf[repoPath]
                    /\ mainPath \in Window!Mains(tabs) /\ Window!TabOf(tabs, mainPath).worktree = repoPath
  BY DEF Window!SwitchesRealign
<1>1. WindowHere(active, repoPath, mainPath, WindowTabs(tabs)) /\ WindowRead(shown, repoPath)
  BY DEF Window!Idle, WindowInv, WindowAgreed
<1>2. mainPath \in Window!Mains(tabs)
  BY <1>1, WindowTabsAre DEF WindowInv, WindowHeld, WindowHere
<1>3. Window!TabOf(tabs, mainPath) \in WindowTabs(tabs) /\ Window!TabOf(tabs, mainPath).main = mainPath
  BY <1>2, WindowTabOf DEF WindowInv, WindowHeld
<1>4. Window!TabOf(tabs, mainPath).worktree = repoPath
  BY <1>1, <1>3 DEF WindowHere
<1>5. \A u \in WindowTabs(tabs) : u.main = MainOf[u.worktree]
  BY DEF Window!TabsKeepTheirOwn, WindowTabs
<1> QED
  BY <1>1, <1>2, <1>3, <1>4, <1>5 DEF WindowHere, WindowRead

\* SwitchesRealign, for every set of paths and of repositories they are worktrees of, and any number
\* of operations at once and of things the user and the world do.
THEOREM WindowsRealign == SideBySide => []SwitchesRealign
<1>1. Start => WindowInv
  BY WindowStart DEF Start
<1>2. WindowInv /\ [Step]_<<focus, windowVars, shellVars, dockVars, toolsVars, accountsVars, updaterVars,
                           serverVars, phoneVars, reviewVars, handsetVars>> => WindowInv'
  <2>1. [Step]_<<focus, windowVars, shellVars, dockVars, toolsVars, accountsVars, updaterVars, serverVars, phoneVars,
                 reviewVars, handsetVars>> => [Window!Next]_windowVars
    BY DEF Step
  <2> QED
    BY <2>1, WindowStep
<1>3. WindowInv => SwitchesRealign
  BY WindowRealigns DEF SwitchesRealign
<1> QED
  BY <1>1, <1>2, <1>3, PTL DEF SideBySide

----------------------------------------------------------------------------
\* The phone.

\* The heads there may be, and a diff in the cache.
PhoneHeads == 1..MaxVersions
PhoneEntry == [head : PhoneHeads, of : PhoneHeads]

\* A push makes a head that is higher, a review leaves it.
PhoneLog ==
  /\ Len(log) \in 1..MaxVersions /\ DOMAIN log = 1..Len(log)
  /\ \E S : log \in Seq(S)
  /\ \A v \in 1..Len(log) : "head" \in DOMAIN log[v] /\ log[v].head \in 1..v
  /\ \A v, w \in 1..Len(log) : v <= w => log[v].head <= log[w].head

\* What was read of the pull request is a version of it.
PhoneGot(c, n) == "got" \in DOMAIN c /\ c.got \in {None} \cup 1..n
PhoneCalls(cs, n) == DOMAIN cs = Requests /\ \A i \in Requests : cs[i] # None => PhoneGot(cs[i], n)
PhoneReads ==
  /\ pulls # None => pulls.version \in 1..Len(log)
  /\ PhoneCalls(calls, Len(log))

\* A fetch under way is of a head the pull request had; the diff it got is of a head from then to the
\* version it read after.
PhoneFetch == [head : PhoneHeads, by : Requests, stage : {"diff", "check"},
               of : {None} \cup PhoneHeads, got : {None} \cup PhoneHeads]
PhoneFetches ==
  /\ inflight \subseteq PhoneFetch
  /\ \A j \in inflight :
       /\ j.head <= log[Len(log)].head
       /\ j.stage = "diff" => j.got = None
       /\ j.stage = "check" => j.of \in PhoneHeads /\ j.head <= j.of /\ j.of <= log[Len(log)].head
       /\ j.stage = "check" /\ j.got # None => j.got \in 1..Len(log) /\ j.of <= log[j.got].head
  /\ \A j, k \in inflight : j.head = k.head => j = k

\* A diff is in the cache or under way, and never both.
PhoneCache ==
  /\ diffs \in Seq(PhoneEntry) /\ diffBytes \in Nat
  /\ \A n \in DOMAIN diffs : \A j \in inflight : diffs[n].head # j.head
  /\ Phone!CacheIsSound

PhoneInv == PhoneLog /\ PhoneReads /\ PhoneFetches /\ PhoneCache

\* The bytes of the first n diffs.
PhoneSummed(s, f, n) ==
  f = [i \in 0..n |-> IF i = 0 THEN 0 ELSE f[i - 1] + Bytes[s[i].of]]

LEMMA PhoneSumIsDefined ==
  ASSUME NEW s, NEW n \in Nat
  PROVE  \E f : PhoneSummed(s, f, n)
<1> DEFINE Bad == {m \in Nat : ~\E f : PhoneSummed(s, f, m)}
<1> SUFFICES ASSUME Bad # {} PROVE FALSE
  OBVIOUS
<1>1. PICK m \in Bad : \A k \in Bad : <<k, m>> \notin OpToRel(<, Nat)
  BY WFMin, NatLessThanWellFounded, Zenon
<1>2. m \in Nat /\ (~\E f : PhoneSummed(s, f, m)) /\ \A k \in Nat : k < m => \E f : PhoneSummed(s, f, k)
  BY <1>1, Zenon DEF OpToRel
<1>3. m # 0
  <2>1. PhoneSummed(s, [i \in 0..0 |-> 0], 0)
    BY DEF PhoneSummed
  <2> QED
    BY <1>2, <2>1
<1>4. PICK g : PhoneSummed(s, g, m - 1)
  BY <1>2, <1>3
<1> DEFINE h == [i \in 0..m |-> IF i < m THEN g[i] ELSE g[m - 1] + Bytes[s[m].of]]
<1>5. ASSUME NEW i \in 0..m
      PROVE  h[i] = IF i = 0 THEN 0 ELSE h[i - 1] + Bytes[s[i].of]
  <2>1. CASE i < m
    <3>1. g[i] = IF i = 0 THEN 0 ELSE g[i - 1] + Bytes[s[i].of]
      <4>1. i \in 0..(m - 1)
        BY <1>2, <2>1
      <4> QED
        BY <1>4, <4>1 DEF PhoneSummed
    <3>2. h[i] = g[i] /\ (i # 0 => h[i - 1] = g[i - 1])
      BY <1>2, <2>1
    <3> QED
      BY <3>1, <3>2
  <2>2. CASE i = m
    <3>1. h[m - 1] = g[m - 1] /\ h[m] = g[m - 1] + Bytes[s[m].of]
      BY <1>2, <1>3
    <3> QED
      BY <1>3, <2>2, <3>1
  <2> QED
    BY <1>2, <2>1, <2>2
<1>6. PhoneSummed(s, h, m)
  <2> HIDE DEF h
  <2>1. DOMAIN h = 0..m /\ h = [i \in 0..m |-> h[i]]
    BY DEF h
  <2> QED
    BY <1>5, <2>1 DEF PhoneSummed
<1> QED
  BY <1>2, <1>6

\* The running sum of a cache: a number at every place, which ends in Total.
PhoneRuns(s, f) ==
  /\ f[0] = 0 /\ \A i \in 0..Len(s) : f[i] \in Nat
  /\ \A i \in 1..Len(s) : f[i] = f[i - 1] + Bytes[s[i].of]
  /\ f[Len(s)] = Phone!Total(s)

\* A diff of the cache has a length.
LEMMA PhoneBytes ==
  ASSUME NEW s \in Seq(PhoneEntry), NEW k \in 1..Len(s)
  PROVE  s[k] \in PhoneEntry /\ s[k].of \in 1..MaxVersions /\ Bytes[s[k].of] \in Nat
<1>1. s[k] \in PhoneEntry
  OBVIOUS
<1>2. s[k].of \in 1..MaxVersions
  BY <1>1 DEF PhoneEntry, PhoneHeads
<1> QED
  BY <1>1, <1>2, PhoneAssumption

LEMMA PhoneTotalRuns ==
  ASSUME NEW s \in Seq(PhoneEntry)
  PROVE  \E f : PhoneRuns(s, f)
<1>1. PICK f0 : PhoneSummed(s, f0, Len(s))
  <2>1. Len(s) \in Nat
    OBVIOUS
  <2> QED
    BY <2>1, PhoneSumIsDefined
<1> DEFINE f == CHOOSE e : PhoneSummed(s, e, Len(s))
<1>2. PhoneSummed(s, f, Len(s))
  BY <1>1
<1>3. Phone!Total(s) = f[Len(s)]
  BY DEF Phone!Total, PhoneSummed
<1> HIDE DEF f
<1>4. \A i \in 0..Len(s) : f[i] = IF i = 0 THEN 0 ELSE f[i - 1] + Bytes[s[i].of]
  BY <1>2 DEF PhoneSummed
<1>5. \A i \in 1..Len(s) : Bytes[s[i].of] \in Nat
  BY PhoneBytes
<1> DEFINE Bad == {m \in Nat : m <= Len(s) /\ f[m] \notin Nat}
<1>6. Bad = {}
  <2> SUFFICES ASSUME Bad # {} PROVE FALSE
    OBVIOUS
  <2>1. PICK m \in Bad : \A k \in Bad : <<k, m>> \notin OpToRel(<, Nat)
    BY WFMin, NatLessThanWellFounded, Zenon
  <2>2. m \in Nat /\ m <= Len(s) /\ f[m] \notin Nat
    BY <2>1
  <2>3. \A k \in Bad : ~(k < m)
    BY <2>1, Zenon DEF OpToRel
  <2>4. m # 0
    BY <1>4, <2>2
  <2>5. m - 1 \in Nat /\ m - 1 <= Len(s) /\ m - 1 < m /\ m \in 1..Len(s) /\ m \in 0..Len(s)
    BY <2>2, <2>4
  <2>6. f[m - 1] \in Nat
    BY <2>3, <2>5
  <2>7. f[m] = f[m - 1] + Bytes[s[m].of]
    BY <1>4, <2>4, <2>5
  <2> QED
    BY <1>5, <2>2, <2>5, <2>6, <2>7
<1>7. \A i \in 0..Len(s) : f[i] \in Nat
  BY <1>6
<1>8. \A i \in 1..Len(s) : f[i] = f[i - 1] + Bytes[s[i].of]
  BY <1>4
<1>9. f[0] = 0
  BY <1>4
<1> QED
  BY <1>3, <1>7, <1>8, <1>9 DEF PhoneRuns

\* Two sums that grow alike over n places, one from p and one from q, have grown by the same.
PhoneAlike(f, p, g, q, n) ==
  /\ \A k \in 0..n : f[p + k] \in Nat /\ g[q + k] \in Nat
  /\ \A k \in 1..n : f[p + k] - f[p + k - 1] = g[q + k] - g[q + k - 1]
PhoneSame(f, p, g, q, n) == f[p + n] - f[p] = g[q + n] - g[q]

LEMMA PhoneGrowth ==
  ASSUME NEW f, NEW g, NEW p \in Nat, NEW q \in Nat, NEW n \in Nat, PhoneAlike(f, p, g, q, n)
  PROVE  PhoneSame(f, p, g, q, n)
<1> DEFINE Bad == {m \in Nat : m <= n /\ ~PhoneSame(f, p, g, q, m)}
<1>1. Bad = {}
  <2> SUFFICES ASSUME Bad # {} PROVE FALSE
    OBVIOUS
  <2>1. PICK m \in Bad : \A k \in Bad : <<k, m>> \notin OpToRel(<, Nat)
    BY WFMin, NatLessThanWellFounded, Zenon
  <2>2. m \in Nat /\ m <= n /\ ~PhoneSame(f, p, g, q, m)
    BY <2>1
  <2>3. \A k \in Bad : ~(k < m)
    BY <2>1, Zenon DEF OpToRel
  <2>4. f[p] \in Nat /\ g[q] \in Nat
    <3>1. p + 0 = p /\ q + 0 = q /\ 0 \in 0..n
      OBVIOUS
    <3> QED
      BY <3>1 DEF PhoneAlike
  <2>5. m # 0
    <3>1. p + 0 = p /\ q + 0 = q
      OBVIOUS
    <3>2. PhoneSame(f, p, g, q, 0)
      BY <2>4, <3>1 DEF PhoneSame
    <3> QED
      BY <2>2, <3>2
  <2>6. m - 1 \in Nat /\ m - 1 <= n /\ m - 1 < m /\ m \in 1..n /\ m \in 0..n /\ m - 1 \in 0..n
        /\ p + m - 1 = p + (m - 1) /\ q + m - 1 = q + (m - 1)
    BY <2>2, <2>5
  <2>7. PhoneSame(f, p, g, q, m - 1)
    BY <2>3, <2>6
  <2>8. f[p + m] - f[p + (m - 1)] = g[q + m] - g[q + (m - 1)]
    BY <2>6 DEF PhoneAlike
  <2>9. f[p + m] \in Nat /\ f[p + (m - 1)] \in Nat /\ g[q + m] \in Nat /\ g[q + (m - 1)] \in Nat
    BY <2>6 DEF PhoneAlike
  <2>10. \A x, y, z, u, v, w \in Nat : z - y = w - v /\ y - x = v - u => z - x = w - u
    OBVIOUS
  <2>11. f[p + (m - 1)] - f[p] = g[q + (m - 1)] - g[q]
    BY <2>7 DEF PhoneSame
  <2>12. f[p + m] - f[p] = g[q + m] - g[q]
    BY <2>4, <2>8, <2>9, <2>10, <2>11
  <2>13. PhoneSame(f, p, g, q, m)
    BY <2>12 DEF PhoneSame
  <2> QED
    BY <2>2, <2>13
<1>2. n \in Nat /\ n <= n
  OBVIOUS
<1> QED
  BY <1>1, <1>2

LEMMA PhoneTotalOfNone == Phone!Total(<<>>) = 0
<1>1. <<>> \in Seq(PhoneEntry) /\ Len(<<>>) = 0
  OBVIOUS
<1> QED
  BY <1>1, PhoneTotalRuns DEF PhoneRuns

\* One more diff adds its bytes.
LEMMA PhoneTotalAppend ==
  ASSUME NEW s \in Seq(PhoneEntry), NEW e \in PhoneEntry
  PROVE  Phone!Total(Append(s, e)) = Phone!Total(s) + Bytes[e.of] /\ Phone!Total(s) \in Nat
<1> DEFINE t == Append(s, e)
<1>1. t \in Seq(PhoneEntry) /\ Len(t) = Len(s) + 1 /\ t[Len(s) + 1] = e
      /\ \A i \in 1..Len(s) : t[i] = s[i]
  OBVIOUS
<1> HIDE DEF t
<1>2. PICK f : PhoneRuns(s, f)
  BY PhoneTotalRuns
<1>3. PICK g : PhoneRuns(t, g)
  BY <1>1, PhoneTotalRuns
<1>4. PhoneSame(f, 0, g, 0, Len(s))
  <2>1. \A k \in 0..Len(s) : f[0 + k] \in Nat /\ g[0 + k] \in Nat
    BY <1>1, <1>2, <1>3 DEF PhoneRuns
  <2>2. \A k \in 1..Len(s) : f[0 + k] - f[0 + k - 1] = g[0 + k] - g[0 + k - 1]
    <3> SUFFICES ASSUME NEW k \in 1..Len(s) PROVE f[k] - f[k - 1] = g[k] - g[k - 1]
      OBVIOUS
    <3>1. f[k] = f[k - 1] + Bytes[s[k].of] /\ g[k] = g[k - 1] + Bytes[t[k].of]
      BY <1>1, <1>2, <1>3 DEF PhoneRuns
    <3>2. t[k] = s[k] /\ k \in 0..Len(s) /\ k - 1 \in 0..Len(s) /\ k - 1 \in 0..Len(t)
      BY <1>1
    <3>3. f[k - 1] \in Nat /\ g[k - 1] \in Nat /\ Bytes[s[k].of] \in Nat
      BY <1>2, <1>3, <3>2, PhoneBytes DEF PhoneRuns
    <3> QED
      BY <3>1, <3>2, <3>3
  <2>3. Len(s) \in Nat /\ 0 \in Nat
    OBVIOUS
  <2> QED
    BY <2>1, <2>2, <2>3, PhoneGrowth DEF PhoneAlike
<1>5. g[Len(s) + 1] = g[Len(s)] + Bytes[e.of]
  <2>1. Len(s) + 1 \in 1..Len(t) /\ Len(s) + 1 - 1 = Len(s)
    BY <1>1
  <2> QED
    BY <1>1, <1>3, <2>1 DEF PhoneRuns
<1>6. f[Len(s)] \in Nat /\ f[0] = 0 /\ g[0] = 0 /\ g[Len(s)] \in Nat
  BY <1>1, <1>2, <1>3 DEF PhoneRuns
<1>7. g[Len(s)] = f[Len(s)]
  BY <1>4, <1>6 DEF PhoneSame
<1> QED
  BY <1>1, <1>2, <1>3, <1>5, <1>6, <1>7 DEF PhoneRuns, t

\* The bytes of a cache are those of its first n diffs and of the rest.
LEMMA PhoneTotalSplit ==
  ASSUME NEW s \in Seq(PhoneEntry), NEW n \in 0..Len(s)
  PROVE  /\ SubSeq(s, 1, n) \in Seq(PhoneEntry) /\ SubSeq(s, n + 1, Len(s)) \in Seq(PhoneEntry)
         /\ Phone!Total(s) = Phone!Total(SubSeq(s, 1, n)) + Phone!Total(SubSeq(s, n + 1, Len(s)))
         /\ Phone!Total(SubSeq(s, 1, n)) \in Nat /\ Phone!Total(SubSeq(s, n + 1, Len(s))) \in Nat
<1> DEFINE b == SubSeq(s, 1, n)
           t == SubSeq(s, n + 1, Len(s))
<1>1. b \in Seq(PhoneEntry) /\ Len(b) = n /\ \A i \in 1..n : b[i] = s[i]
  OBVIOUS
<1>2. t \in Seq(PhoneEntry) /\ Len(t) = Len(s) - n /\ \A i \in 1..(Len(s) - n) : t[i] = s[n + i]
  OBVIOUS
<1> HIDE DEF b, t
<1>3. PICK f : PhoneRuns(s, f)
  BY PhoneTotalRuns
<1>4. PICK g : PhoneRuns(b, g)
  BY <1>1, PhoneTotalRuns
<1>5. PICK h : PhoneRuns(t, h)
  BY <1>2, PhoneTotalRuns
<1>0. \A k \in 1..Len(s) : Bytes[s[k].of] \in Nat
  BY PhoneBytes
<1>6. PhoneSame(f, 0, g, 0, n)
  <2>1. \A k \in 0..n : f[0 + k] \in Nat /\ g[0 + k] \in Nat
    <3> SUFFICES ASSUME NEW k \in 0..n PROVE f[k] \in Nat /\ g[k] \in Nat
      OBVIOUS
    <3>1. k \in 0..Len(s) /\ k \in 0..Len(b)
      BY <1>1
    <3> QED
      BY <1>3, <1>4, <3>1 DEF PhoneRuns
  <2>2. \A k \in 1..n : f[0 + k] - f[0 + k - 1] = g[0 + k] - g[0 + k - 1]
    <3> SUFFICES ASSUME NEW k \in 1..n PROVE f[k] - f[k - 1] = g[k] - g[k - 1]
      OBVIOUS
    <3>1. k \in 1..Len(s) /\ k \in 1..Len(b) /\ k - 1 \in 0..Len(s) /\ k - 1 \in 0..Len(b) /\ b[k] = s[k]
      BY <1>1
    <3>2. f[k] = f[k - 1] + Bytes[s[k].of] /\ g[k] = g[k - 1] + Bytes[s[k].of]
      BY <1>3, <1>4, <3>1 DEF PhoneRuns
    <3>3. f[k - 1] \in Nat /\ g[k - 1] \in Nat /\ Bytes[s[k].of] \in Nat
      BY <1>0, <1>3, <1>4, <3>1 DEF PhoneRuns
    <3> QED
      BY <3>2, <3>3
  <2>3. n \in Nat /\ 0 \in Nat
    OBVIOUS
  <2> QED
    BY <2>1, <2>2, <2>3, PhoneGrowth DEF PhoneAlike
<1>7. PhoneSame(f, n, h, 0, Len(s) - n)
  <2>0. Len(s) - n \in Nat /\ n \in Nat /\ 0 \in Nat
    OBVIOUS
  <2>1. \A k \in 0..(Len(s) - n) : f[n + k] \in Nat /\ h[0 + k] \in Nat
    <3> SUFFICES ASSUME NEW k \in 0..(Len(s) - n) PROVE f[n + k] \in Nat /\ h[k] \in Nat
      OBVIOUS
    <3>1. n + k \in 0..Len(s) /\ k \in 0..Len(t)
      BY <1>2
    <3> QED
      BY <1>3, <1>5, <3>1 DEF PhoneRuns
  <2>2. \A k \in 1..(Len(s) - n) : f[n + k] - f[n + k - 1] = h[0 + k] - h[0 + k - 1]
    <3> SUFFICES ASSUME NEW k \in 1..(Len(s) - n) PROVE f[n + k] - f[n + k - 1] = h[k] - h[k - 1]
      OBVIOUS
    <3>1. n + k \in 1..Len(s) /\ k \in 1..Len(t) /\ n + k - 1 \in 0..Len(s) /\ k - 1 \in 0..Len(t) /\ t[k] = s[n + k]
      BY <1>2
    <3>2. f[n + k] = f[n + k - 1] + Bytes[s[n + k].of] /\ h[k] = h[k - 1] + Bytes[s[n + k].of]
      BY <1>3, <1>5, <3>1 DEF PhoneRuns
    <3>3. f[n + k - 1] \in Nat /\ h[k - 1] \in Nat /\ Bytes[s[n + k].of] \in Nat
      BY <1>0, <1>3, <1>5, <3>1 DEF PhoneRuns
    <3> QED
      BY <3>2, <3>3
  <2> QED
    BY <2>0, <2>1, <2>2, PhoneGrowth DEF PhoneAlike
<1>8. n + (Len(s) - n) = Len(s) /\ 0 + (Len(s) - n) = Len(t) /\ 0 + n = n
  BY <1>2
<1>9. /\ f[0] = 0 /\ g[0] = 0 /\ h[0] = 0
      /\ f[n] \in Nat /\ f[Len(s)] \in Nat /\ g[n] \in Nat /\ h[Len(t)] \in Nat
      /\ f[Len(s)] = Phone!Total(s) /\ g[n] = Phone!Total(b) /\ h[Len(t)] = Phone!Total(t)
  BY <1>1, <1>2, <1>3, <1>4, <1>5 DEF PhoneRuns
<1>10. Phone!Total(s) = Phone!Total(b) + Phone!Total(t)
  <2>1. f[n] - f[0] = g[n] - g[0]
    BY <1>6, <1>8 DEF PhoneSame
  <2>2. f[Len(s)] - f[n] = h[Len(t)] - h[0]
    BY <1>7, <1>8 DEF PhoneSame
  <2> QED
    BY <1>9, <2>1, <2>2
<1> QED
  BY <1>1, <1>2, <1>9, <1>10 DEF b, t

\* A diff that is used is moved to the end: the same diffs, and as many bytes.
LEMMA PhoneReordered ==
  ASSUME NEW s \in Seq(PhoneEntry), NEW n \in 1..Len(s)
  PROVE  LET t == Append(Phone!RemoveAt(s, n), s[n])
         IN /\ t \in Seq(PhoneEntry) /\ Len(t) = Len(s) /\ Phone!Total(t) = Phone!Total(s)
            /\ \A i \in 1..Len(s) : t[i] = s[IF i < n THEN i ELSE IF i < Len(s) THEN i + 1 ELSE n]
<1> DEFINE b == SubSeq(s, 1, n - 1)
           c == SubSeq(s, n + 1, Len(s))
           t == Append(Phone!RemoveAt(s, n), s[n])
<1>1. Phone!RemoveAt(s, n) = b \o c
  BY DEF Phone!RemoveAt
<1>2. b \in Seq(PhoneEntry) /\ Len(b) = n - 1 /\ \A i \in 1..(n - 1) : b[i] = s[i]
  OBVIOUS
<1>3. c \in Seq(PhoneEntry) /\ Len(c) = Len(s) - n /\ \A i \in 1..(Len(s) - n) : c[i] = s[n + i]
  OBVIOUS
<1> HIDE DEF b, c
<1>4. /\ b \o c \in Seq(PhoneEntry) /\ Len(b \o c) = Len(s) - 1
      /\ \A i \in 1..(Len(s) - 1) : (b \o c)[i] = s[IF i < n THEN i ELSE i + 1]
  BY <1>2, <1>3
<1>5. s[n] \in PhoneEntry
  OBVIOUS
<1>6. /\ t \in Seq(PhoneEntry) /\ Len(t) = Len(s)
      /\ \A i \in 1..Len(s) : t[i] = s[IF i < n THEN i ELSE IF i < Len(s) THEN i + 1 ELSE n]
  <2> DEFINE u == b \o c
  <2>1. u \in Seq(PhoneEntry) /\ Len(u) = Len(s) - 1 /\ \A i \in 1..(Len(s) - 1) : u[i] = s[IF i < n THEN i ELSE i + 1]
    BY <1>4
  <2>2. t = Append(u, s[n])
    BY <1>1
  <2> HIDE DEF u, t
  <2>3. Append(u, s[n]) \in Seq(PhoneEntry) /\ Len(Append(u, s[n])) = Len(u) + 1 /\ Append(u, s[n])[Len(u) + 1] = s[n]
        /\ \A i \in 1..Len(u) : Append(u, s[n])[i] = u[i]
    BY <1>5, <2>1
  <2> QED
    BY <2>1, <2>2, <2>3
<1> HIDE DEF t
<1>7. PICK f : PhoneRuns(s, f)
  BY PhoneTotalRuns
<1>8. PICK g : PhoneRuns(t, g)
  BY <1>6, PhoneTotalRuns
<1>0. \A k \in 1..Len(s) : Bytes[s[k].of] \in Nat
  BY PhoneBytes
<1>9. PhoneSame(f, 0, g, 0, n - 1)
  <2>1. \A k \in 0..(n - 1) : f[0 + k] \in Nat /\ g[0 + k] \in Nat
    BY <1>6, <1>7, <1>8 DEF PhoneRuns
  <2>2. \A k \in 1..(n - 1) : f[0 + k] - f[0 + k - 1] = g[0 + k] - g[0 + k - 1]
    <3> SUFFICES ASSUME NEW k \in 1..(n - 1) PROVE f[k] - f[k - 1] = g[k] - g[k - 1]
      OBVIOUS
    <3>1. k \in 1..Len(s) /\ k \in 1..Len(t) /\ k - 1 \in 0..Len(s) /\ k - 1 \in 0..Len(t) /\ t[k] = s[k]
      BY <1>6
    <3>2. f[k] = f[k - 1] + Bytes[s[k].of] /\ g[k] = g[k - 1] + Bytes[s[k].of]
      BY <1>7, <1>8, <3>1 DEF PhoneRuns
    <3>3. f[k - 1] \in Nat /\ g[k - 1] \in Nat /\ Bytes[s[k].of] \in Nat
      BY <1>0, <1>7, <1>8, <3>1 DEF PhoneRuns
    <3> QED
      BY <3>2, <3>3
  <2>3. n - 1 \in Nat /\ 0 \in Nat
    OBVIOUS
  <2> QED
    BY <2>1, <2>2, <2>3, PhoneGrowth DEF PhoneAlike
<1>10. PhoneSame(f, n, g, n - 1, Len(s) - n)
  <2>0. Len(s) - n \in Nat /\ n \in Nat /\ n - 1 \in Nat
    OBVIOUS
  <2>1. \A k \in 0..(Len(s) - n) : f[n + k] \in Nat /\ g[(n - 1) + k] \in Nat
    <3> SUFFICES ASSUME NEW k \in 0..(Len(s) - n) PROVE f[n + k] \in Nat /\ g[(n - 1) + k] \in Nat
      OBVIOUS
    <3>1. n + k \in 0..Len(s) /\ (n - 1) + k \in 0..Len(t)
      BY <1>6
    <3> QED
      BY <1>7, <1>8, <3>1 DEF PhoneRuns
  <2>2. \A k \in 1..(Len(s) - n) : f[n + k] - f[n + k - 1] = g[(n - 1) + k] - g[(n - 1) + k - 1]
    <3> SUFFICES ASSUME NEW k \in 1..(Len(s) - n)
                 PROVE  f[n + k] - f[n + k - 1] = g[(n - 1) + k] - g[(n - 1) + k - 1]
      OBVIOUS
    <3> DEFINE x == (n - 1) + k
    <3>1. n + k \in 1..Len(s) /\ x \in 1..Len(t) /\ n + k - 1 \in 0..Len(s) /\ x - 1 \in 0..Len(t) /\ x + 1 = n + k
          /\ ~(x < n) /\ x < Len(s) /\ x \in 1..Len(s)
      BY <1>6
    <3>2. t[x] = s[n + k]
      BY <1>6, <3>1
    <3> HIDE DEF x
    <3>3. f[n + k] = f[n + k - 1] + Bytes[s[n + k].of] /\ g[x] = g[x - 1] + Bytes[s[n + k].of]
      BY <1>7, <1>8, <3>1, <3>2 DEF PhoneRuns
    <3>4. f[n + k - 1] \in Nat /\ g[x - 1] \in Nat /\ Bytes[s[n + k].of] \in Nat
      BY <1>0, <1>7, <1>8, <3>1 DEF PhoneRuns
    <3>5. f[n + k] - f[n + k - 1] = g[x] - g[x - 1]
      BY <3>3, <3>4
    <3> QED
      BY <3>5 DEF x
  <2> QED
    BY <2>0, <2>1, <2>2, PhoneGrowth DEF PhoneAlike
<1>11. f[n] = f[n - 1] + Bytes[s[n].of] /\ g[Len(s)] = g[Len(s) - 1] + Bytes[s[n].of]
  <2>1. n \in 1..Len(s) /\ Len(s) \in 1..Len(t) /\ t[Len(s)] = s[n]
    BY <1>6
  <2> QED
    BY <1>7, <1>8, <2>1 DEF PhoneRuns
<1>12. n + (Len(s) - n) = Len(s) /\ (n - 1) + (Len(s) - n) = Len(s) - 1 /\ 0 + (n - 1) = n - 1
  OBVIOUS
<1>13. /\ f[0] = 0 /\ g[0] = 0
       /\ f[n] \in Nat /\ f[n - 1] \in Nat /\ g[n - 1] \in Nat /\ g[Len(s) - 1] \in Nat /\ f[Len(s)] \in Nat
       /\ g[Len(s)] \in Nat /\ Bytes[s[n].of] \in Nat
       /\ f[Len(s)] = Phone!Total(s) /\ g[Len(s)] = Phone!Total(t)
  <2>1. /\ n \in 0..Len(s) /\ n - 1 \in 0..Len(s) /\ Len(s) \in 0..Len(s)
        /\ n - 1 \in 0..Len(t) /\ Len(s) - 1 \in 0..Len(t) /\ Len(s) \in 0..Len(t) /\ Len(t) = Len(s)
    BY <1>6
  <2> QED
    BY <1>0, <1>7, <1>8, <2>1 DEF PhoneRuns
<1>14. Phone!Total(t) = Phone!Total(s)
  <2>1. f[n - 1] = g[n - 1]
    BY <1>9, <1>12, <1>13 DEF PhoneSame
  <2>2. f[Len(s)] - f[n] = g[Len(s) - 1] - g[n - 1]
    BY <1>10, <1>12 DEF PhoneSame
  <2>3. f[n] = g[n - 1] + Bytes[s[n].of]
    BY <1>11, <2>1
  <2> DEFINE w == f[Len(s)]
             z == f[n]
             v == g[Len(s) - 1]
             u == g[n - 1]
             k == Bytes[s[n].of]
  <2>4. w \in Nat /\ z \in Nat /\ v \in Nat /\ u \in Nat /\ k \in Nat
    BY <1>13
  <2>5. w - z = v - u /\ z = u + k
    BY <2>2, <2>3
  <2>6. g[Len(s)] = v + k /\ g[Len(s)] = Phone!Total(t) /\ w = Phone!Total(s)
    BY <1>11, <1>13
  <2> HIDE DEF w, z, v, u, k
  <2>7. w = v + k
    BY <2>4, <2>5
  <2> QED
    BY <2>6, <2>7
<1> QED
  BY <1>6, <1>14 DEF t

\* The requests: one is put, answered or taken away.
LEMMA PhonePut ==
  ASSUME NEW n, PhoneCalls(calls, n), NEW i \in Requests, NEW c, c # None => PhoneGot(c, n),
         calls' = [calls EXCEPT ![i] = c]
  PROVE  PhoneCalls(calls', n)
BY DEF PhoneCalls

LEMMA PhoneAnswer ==
  ASSUME NEW n, PhoneCalls(calls, n), NEW i \in Requests, calls[i] # None, NEW x, Phone!Answer(i, x)
  PROVE  PhoneCalls(calls', n)
<1>1. PhoneGot(Phone!Answered(calls[i], x), n)
  BY DEF PhoneCalls, PhoneGot, Phone!Answered
<1>2. calls' = [calls EXCEPT ![i] = Phone!Answered(calls[i], x)]
  BY DEF Phone!Answer, PhoneCalls
<1> QED
  BY <1>1, <1>2, PhonePut

\* A request goes on to a stage where it has nothing in hand.
LEMMA PhoneOnwards ==
  ASSUME NEW n, PhoneCalls(calls, n), NEW i \in Requests, calls[i] # None, NEW stage, NEW head, NEW pull,
         \/ calls' = [calls EXCEPT ![i].stage = stage]
         \/ calls' = [calls EXCEPT ![i].stage = stage, ![i].got = None]
         \/ calls' = [calls EXCEPT ![i].stage = stage, ![i].pull = pull, ![i].got = None]
         \/ calls' = [calls EXCEPT ![i].stage = stage, ![i].head = head, ![i].got = None]
  PROVE  PhoneCalls(calls', n)
<1>1. PhoneGot(calls[i], n)
  BY DEF PhoneCalls
<1>2. CASE calls' = [calls EXCEPT ![i].stage = stage]
  BY <1>1, <1>2 DEF PhoneCalls, PhoneGot
<1>3. CASE calls' = [calls EXCEPT ![i].stage = stage, ![i].got = None]
  BY <1>1, <1>3 DEF PhoneCalls, PhoneGot
<1>4. CASE calls' = [calls EXCEPT ![i].stage = stage, ![i].pull = pull, ![i].got = None]
  BY <1>1, <1>4 DEF PhoneCalls, PhoneGot
<1>5. CASE calls' = [calls EXCEPT ![i].stage = stage, ![i].head = head, ![i].got = None]
  BY <1>1, <1>5 DEF PhoneCalls, PhoneGot
<1> QED
  BY <1>2, <1>3, <1>4, <1>5

LEMMA PhoneSend ==
  ASSUME NEW n, PhoneCalls(calls, n), NEW kind, NEW where, NEW head, Phone!Send(kind, where, head)
  PROVE  PhoneCalls(calls', n)
<1>1. PICK i \in Requests :
        calls' = [calls EXCEPT ![i] =
          [kind |-> kind, path |-> where, head |-> head, since |-> Phone!Version,
           read |-> IF kind = "files" THEN stored ELSE {},
           stage |-> "sent", got |-> None, pull |-> None, answer |-> None]]
  BY DEF Phone!Send
<1> QED
  BY <1>1, PhonePut DEF PhoneGot

LEMMA PhoneTell ==
  ASSUME NEW n, PhoneCalls(calls, n),
         DOMAIN calls' = Requests,
         \A i \in Requests : \/ calls'[i] = calls[i]
                             \/ calls[i] # None /\ \E x : calls'[i] = Phone!Answered(calls[i], x)
  PROVE  PhoneCalls(calls', n)
<1> SUFFICES ASSUME NEW i \in Requests, calls'[i] # None
             PROVE  PhoneGot(calls'[i], n)
  BY DEF PhoneCalls
<1>1. CASE calls'[i] = calls[i]
  BY <1>1 DEF PhoneCalls
<1>2. ASSUME calls[i] # None, NEW x, calls'[i] = Phone!Answered(calls[i], x)
      PROVE  PhoneGot(calls'[i], n)
  BY <1>2 DEF PhoneCalls, PhoneGot, Phone!Answered
<1> QED
  BY <1>1, <1>2

\* While no diff comes, goes or moves, and no fetch begins or gets on, the cache is as sound as before.
LEMMA PhoneCacheStays ==
  ASSUME PhoneInv, UNCHANGED <<log, diffs, diffBytes, inflight>>, PhoneReads'
  PROVE  PhoneInv'
<1>1. PhoneLog' /\ PhoneFetches'
  BY DEF PhoneInv, PhoneLog, PhoneFetches
<1>2. PhoneCache'
  BY DEF PhoneInv, PhoneCache, Phone!CacheIsSound
<1> QED
  BY <1>1, <1>2 DEF PhoneInv

\* The head of a version, and its order.
LEMMA PhoneHeadOf ==
  ASSUME PhoneLog, NEW v \in 1..Len(log)
  PROVE  /\ Phone!HeadOf(v) = log[v].head /\ Phone!HeadOf(v) \in PhoneHeads
         /\ Phone!HeadOf(v) <= log[Len(log)].head /\ log[Len(log)].head \in PhoneHeads
<1>1. log[v].head \in 1..v /\ Len(log) \in 1..Len(log) /\ v <= Len(log) /\ Len(log) \in 1..MaxVersions
  BY DEF PhoneLog
<1>2. log[Len(log)].head \in 1..Len(log) /\ log[v].head <= log[Len(log)].head
  BY <1>1 DEF PhoneLog
<1>3. MaxVersions \in Nat
  BY PhoneAssumption
<1> QED
  BY <1>1, <1>2, <1>3 DEF Phone!HeadOf, PhoneHeads

\* A diff that is cached is answered with and moves to the end; another one is fetched, once.
LEMMA PhoneDiffFor ==
  ASSUME PhoneInv, NEW i \in Requests, calls[i] # None, NEW v \in 1..Len(log),
         Phone!diffFor(i, Phone!HeadOf(v)), UNCHANGED <<log, diffBytes>>,
         pulls' # None => pulls'.version \in 1..Len(log)
  PROVE  PhoneInv'
<1> DEFINE h == Phone!HeadOf(v)
<1>1. h \in PhoneHeads /\ h <= log[Len(log)].head
  BY PhoneHeadOf DEF PhoneInv
<1> HIDE DEF h
<1>2. ASSUME NEW n \in DOMAIN diffs, diffs' = Append(Phone!RemoveAt(diffs, n), diffs[n]),
             Phone!Answer(i, Phone!Slices(calls[i], diffs[n])), UNCHANGED inflight
      PROVE  PhoneInv'
  <2>1. PhoneLog' /\ PhoneFetches'
    BY <1>2 DEF PhoneInv, PhoneLog, PhoneFetches
  <2>2. PhoneReads'
    <3>1. PhoneCalls(calls', Len(log))
      BY <1>2, PhoneAnswer DEF PhoneInv, PhoneReads
    <3> QED
      BY <3>1 DEF PhoneReads
  <2>3. diffs \in Seq(PhoneEntry) /\ DOMAIN diffs = 1..Len(diffs) /\ n \in 1..Len(diffs)
    BY <1>2 DEF PhoneInv, PhoneCache
  <2> DEFINE at(k) == IF k < n THEN k ELSE IF k < Len(diffs) THEN k + 1 ELSE n
  <2>4. /\ diffs' \in Seq(PhoneEntry) /\ Len(diffs') = Len(diffs)
        /\ Phone!Total(diffs') = Phone!Total(diffs)
        /\ \A k \in 1..Len(diffs) : diffs'[k] = diffs[at(k)]
    BY <1>2, <2>3, PhoneReordered
  <2>5. /\ \A k \in 1..Len(diffs) : at(k) \in 1..Len(diffs)
        /\ \A k, m \in 1..Len(diffs) : at(k) = at(m) => k = m
    <3> DEFINE l == Len(diffs)
    <3>1. l \in Nat /\ n \in 1..l
      BY <2>3
    <3> HIDE DEF l
    <3>2. \A k \in 1..l : (IF k < n THEN k ELSE IF k < l THEN k + 1 ELSE n) \in 1..l
      BY <3>1
    <3>3. \A k, m \in 1..l : (IF k < n THEN k ELSE IF k < l THEN k + 1 ELSE n)
                             = (IF m < n THEN m ELSE IF m < l THEN m + 1 ELSE n) => k = m
      <4> SUFFICES ASSUME NEW k \in 1..l, NEW m \in 1..l,
                          (IF k < n THEN k ELSE IF k < l THEN k + 1 ELSE n)
                            = (IF m < n THEN m ELSE IF m < l THEN m + 1 ELSE n)
                   PROVE  k = m
        OBVIOUS
      <4>1. CASE k < n
        <5>1. CASE m < n
          BY <3>1, <4>1, <5>1
        <5>2. CASE ~(m < n) /\ m < l
          BY <3>1, <4>1, <5>2
        <5>3. CASE ~(m < n) /\ ~(m < l)
          BY <3>1, <4>1, <5>3
        <5> QED
          BY <5>1, <5>2, <5>3
      <4>2. CASE ~(k < n) /\ k < l
        <5>1. CASE m < n
          BY <3>1, <4>2, <5>1
        <5>2. CASE ~(m < n) /\ m < l
          BY <3>1, <4>2, <5>2
        <5>3. CASE ~(m < n) /\ ~(m < l)
          BY <3>1, <4>2, <5>3
        <5> QED
          BY <5>1, <5>2, <5>3
      <4>3. CASE ~(k < n) /\ ~(k < l)
        <5>1. CASE m < n
          BY <3>1, <4>3, <5>1
        <5>2. CASE ~(m < n) /\ m < l
          BY <3>1, <4>3, <5>2
        <5>3. CASE ~(m < n) /\ ~(m < l)
          BY <3>1, <4>3, <5>3
        <5> QED
          BY <5>1, <5>2, <5>3
      <4> QED
        BY <4>1, <4>2, <4>3
    <3> QED
      BY <3>2, <3>3 DEF l
  <2> HIDE DEF at
  <2>6. DOMAIN diffs' = 1..Len(diffs)
    BY <2>4
  <2>7. \A k \in DOMAIN diffs' : diffs'[k].of = diffs'[k].head
    <3> SUFFICES ASSUME NEW k \in DOMAIN diffs' PROVE diffs'[k].of = diffs'[k].head
      OBVIOUS
    <3>0. k \in 1..Len(diffs)
      BY <2>6
    <3>1. diffs'[k] = diffs[at(k)] /\ at(k) \in DOMAIN diffs
      BY <2>3, <2>4, <2>5, <3>0
    <3> QED
      BY <3>1 DEF PhoneInv, PhoneCache, Phone!CacheIsSound
  <2>8. \A k, m \in DOMAIN diffs' : diffs'[k].head = diffs'[m].head => k = m
    BY <2>3, <2>4, <2>5, <2>6 DEF PhoneInv, PhoneCache, Phone!CacheIsSound
  <2>9. diffBytes' = Phone!Total(diffs') /\ Phone!Fits(diffs', diffBytes')
    BY <2>4 DEF PhoneInv, PhoneCache, Phone!CacheIsSound, Phone!Fits
  <2>10. \A k \in DOMAIN diffs' : \A j \in inflight' : diffs'[k].head # j.head
    <3> SUFFICES ASSUME NEW k \in DOMAIN diffs' PROVE \A j \in inflight : diffs'[k].head # j.head
      BY <1>2
    <3>0. k \in 1..Len(diffs)
      BY <2>6
    <3>1. diffs'[k] = diffs[at(k)] /\ at(k) \in DOMAIN diffs
      BY <2>3, <2>4, <2>5, <3>0
    <3> QED
      BY <3>1 DEF PhoneInv, PhoneCache
  <2>11. PhoneCache'
    <3>1. diffBytes' \in Nat
      BY DEF PhoneInv, PhoneCache
    <3> QED
      BY <2>4, <2>7, <2>8, <2>9, <2>10, <3>1 DEF PhoneCache, Phone!CacheIsSound
  <2> QED
    BY <2>1, <2>2, <2>11 DEF PhoneInv
<1>3. ASSUME \A n \in DOMAIN diffs : diffs[n].head # h,
             calls' = [calls EXCEPT ![i].stage = "wait", ![i].head = h, ![i].got = None],
             inflight' = inflight \cup
               (IF Phone!Running(h) # {} THEN {}
                ELSE {[head |-> h, by |-> i, stage |-> "diff", of |-> None, got |-> None]}),
             UNCHANGED diffs
      PROVE  PhoneInv'
  <2> DEFINE new == [head |-> h, by |-> i, stage |-> "diff", of |-> None, got |-> None]
  <2>1. PhoneLog'
    BY DEF PhoneInv, PhoneLog
  <2>2. PhoneReads'
    <3>1. PhoneCalls(calls', Len(log))
      BY <1>3, PhoneOnwards DEF PhoneInv, PhoneReads
    <3> QED
      BY <3>1 DEF PhoneReads
  <2>3. inflight' = inflight \/ (inflight' = inflight \cup {new} /\ \A j \in inflight : j.head # h)
    BY <1>3 DEF Phone!Running
  <2>4. new \in PhoneFetch /\ new.head = h /\ new.stage = "diff" /\ new.got = None
    BY <1>1 DEF PhoneFetch
  <2> HIDE DEF new
  <2>5. PhoneFetches'
    BY <1>1, <2>3, <2>4 DEF PhoneInv, PhoneFetches
  <2>6. PhoneCache'
    <3>1. \A n \in DOMAIN diffs : \A j \in inflight' : diffs[n].head # j.head
      BY <1>3, <2>3, <2>4 DEF PhoneInv, PhoneCache
    <3> QED
      BY <1>3, <3>1 DEF PhoneInv, PhoneCache, Phone!CacheIsSound
  <2> QED
    BY <2>1, <2>2, <2>5, <2>6 DEF PhoneInv
<1> QED
  BY <1>2, <1>3 DEF Phone!diffFor, h

LEMMA PhoneReviewsFor ==
  ASSUME PhoneReads, NEW i \in Requests, calls[i] # None, NEW pull, Phone!reviewsFor(i, pull)
  PROVE  PhoneCalls(calls', Len(log))
<1>1. CASE calls' = [calls EXCEPT ![i].stage = "reviews", ![i].pull = pull, ![i].got = None]
  BY <1>1, PhoneOnwards DEF PhoneReads
<1>2. ASSUME NEW x, Phone!Answer(i, x)
      PROVE  PhoneCalls(calls', Len(log))
  BY <1>2, PhoneAnswer DEF PhoneReads
<1> QED
  BY <1>1, <1>2 DEF Phone!reviewsFor

\* Requests that leave the pull request and the diffs as they are.
LEMMA PhoneRequests ==
  ASSUME PhoneInv, UNCHANGED <<log, diffs, diffBytes, inflight>>, PhoneCalls(calls', Len(log)),
         pulls' # None => pulls'.version \in 1..Len(log)
  PROVE  PhoneInv'
<1>1. PhoneReads'
  BY DEF PhoneReads
<1> QED
  BY <1>1, PhoneCacheStays

LEMMA PhoneWithPull ==
  ASSUME PhoneInv, NEW i \in Requests, calls[i] # None, NEW v \in 1..Len(log), Phone!WithPull(i, v),
         UNCHANGED <<log, diffBytes>>, pulls' # None => pulls'.version \in 1..Len(log)
  PROVE  PhoneInv'
<1>1. CASE Phone!diffFor(i, Phone!HeadOf(v))
  BY <1>1, PhoneDiffFor
<1>2. CASE Phone!reviewsFor(i, v) /\ UNCHANGED <<diffs, inflight>>
  <2>1. PhoneCalls(calls', Len(log))
    BY <1>2, PhoneReviewsFor DEF PhoneInv
  <2> QED
    BY <1>2, <2>1, PhoneRequests
<1>3. CASE Phone!Answer(i, Phone!Stale) /\ UNCHANGED <<diffs, inflight>>
  <2>1. PhoneCalls(calls', Len(log))
    BY <1>3, PhoneAnswer DEF PhoneInv, PhoneReads
  <2> QED
    BY <1>3, <2>1, PhoneRequests
<1> QED
  BY <1>1, <1>2, <1>3 DEF Phone!WithPull

LEMMA PhoneStartStep ==
  ASSUME PhoneInv, NEW i \in Requests, Phone!Start(i)
  PROVE  PhoneInv'
<1>0. calls[i] # None /\ UNCHANGED <<log, pulls, diffBytes>> /\ (pulls # None => pulls.version \in 1..Len(log))
  BY DEF Phone!Start, Phone!forge, PhoneInv, PhoneReads
<1>1. CASE pulls # None /\ Phone!WithPull(i, pulls.version)
  BY <1>0, <1>1, PhoneWithPull
<1>2. ASSUME NEW stage, calls' = [calls EXCEPT ![i].stage = stage], UNCHANGED <<diffs, inflight>>
      PROVE  PhoneInv'
  <2>1. PhoneCalls(calls', Len(log))
    BY <1>0, <1>2, PhoneOnwards DEF PhoneInv, PhoneReads
  <2> QED
    BY <1>0, <1>2, <2>1, PhoneRequests
<1> QED
  BY <1>1, <1>2 DEF Phone!Start

LEMMA PhoneServeStep ==
  ASSUME PhoneInv, NEW i \in Requests, Phone!Serve(i)
  PROVE  PhoneInv'
<1>1. UNCHANGED <<log, pulls, diffs, diffBytes, inflight>> /\ calls[i] # None
      /\ calls' = [calls EXCEPT ![i].got = Len(log)]
  BY DEF Phone!Serve, Phone!forge, Phone!caches, Phone!Version
<1>2. PhoneGot([calls[i] EXCEPT !.got = Len(log)], Len(log))
  BY <1>1 DEF PhoneInv, PhoneLog, PhoneReads, PhoneCalls, PhoneGot
<1>3. calls' = [calls EXCEPT ![i] = [calls[i] EXCEPT !.got = Len(log)]]
  BY <1>1 DEF PhoneInv, PhoneReads, PhoneCalls
<1>4. PhoneCalls(calls', Len(log))
  BY <1>2, <1>3, PhonePut DEF PhoneInv, PhoneReads
<1> QED
  BY <1>1, <1>4, PhoneRequests DEF PhoneInv, PhoneReads

LEMMA PhoneSearchedStep ==
  ASSUME PhoneInv, NEW i \in Requests, Phone!Searched(i)
  PROVE  PhoneInv'
<1>1. UNCHANGED <<log, pulls, diffs, diffBytes, inflight>> /\ calls[i] # None
  BY DEF Phone!Searched, Phone!forge, Phone!caches
<1>2. PhoneCalls(calls', Len(log))
  <2>1. CASE Phone!reviewsFor(i, pulls.version)
    BY <1>1, <2>1, PhoneReviewsFor DEF PhoneInv
  <2>2. CASE calls' = [calls EXCEPT ![i].stage = "pull", ![i].got = None]
    BY <1>1, <2>2, PhoneOnwards DEF PhoneInv, PhoneReads
  <2> QED
    BY <2>1, <2>2 DEF Phone!Searched
<1> QED
  BY <1>1, <1>2, PhoneRequests DEF PhoneInv, PhoneReads

LEMMA PhonePulledStep ==
  ASSUME PhoneInv, NEW i \in Requests, Phone!Pulled(i)
  PROVE  PhoneInv'
<1>1. /\ calls[i] # None /\ calls[i].got # None /\ pulls' = [version |-> calls[i].got, fresh |-> TRUE]
      /\ Phone!WithPull(i, calls[i].got) /\ UNCHANGED <<log, diffBytes>>
  BY DEF Phone!Pulled, Phone!forge
<1>2. calls[i].got \in 1..Len(log)
  BY <1>1 DEF PhoneInv, PhoneReads, PhoneCalls, PhoneGot
<1>3. pulls'.version \in 1..Len(log)
  BY <1>1, <1>2
<1> QED
  BY <1>1, <1>2, <1>3, PhoneWithPull

LEMMA PhoneAnsweredStep ==
  ASSUME PhoneInv, NEW i \in Requests, Phone!Reviewed(i) \/ Phone!ForgeFails(i) \/ Phone!Lose(i)
  PROVE  PhoneInv'
<1>1. UNCHANGED <<log, pulls, diffs, diffBytes, inflight>> /\ calls[i] # None /\ \E x : Phone!Answer(i, x)
  BY DEF Phone!Reviewed, Phone!ForgeFails, Phone!Lose, Phone!forge, Phone!caches
<1>2. PhoneCalls(calls', Len(log))
  BY <1>1, PhoneAnswer DEF PhoneInv, PhoneReads
<1> QED
  BY <1>1, <1>2, PhoneRequests DEF PhoneInv, PhoneReads

LEMMA PhoneReceiveStep ==
  ASSUME PhoneInv, NEW i \in Requests, Phone!Receive(i)
  PROVE  PhoneInv'
<1>1. UNCHANGED <<log, pulls, diffs, diffBytes, inflight>> /\ calls' = [calls EXCEPT ![i] = None]
  BY DEF Phone!Receive, Phone!forge, Phone!caches
<1>2. PhoneCalls(calls', Len(log))
  BY <1>1, PhonePut DEF PhoneInv, PhoneReads
<1> QED
  BY <1>1, <1>2, PhoneRequests DEF PhoneInv, PhoneReads

LEMMA PhoneAskStep ==
  ASSUME PhoneInv, \/ \E kind \in {"inbox", "detail"} : Phone!Ask(kind)
                   \/ Phone!loadList \/ \E f \in Files : Phone!Fetch(f)
  PROVE  PhoneInv'
<1>1. /\ UNCHANGED <<log, pulls, diffs, diffBytes, inflight>>
      /\ \E kind, where, head : Phone!Send(kind, where, head)
  BY DEF Phone!Ask, Phone!loadList, Phone!Fetch, Phone!forge, Phone!caches
<1>2. PhoneCalls(calls', Len(log))
  BY <1>1, PhoneSend DEF PhoneInv, PhoneReads
<1> QED
  BY <1>1, <1>2, PhoneRequests DEF PhoneInv, PhoneReads

LEMMA PhoneRestStep ==
  ASSUME PhoneInv, \/ Phone!TenSeconds \/ \E r \in reviews : Phone!ThirtySeconds(r)
                   \/ \E f \in Files, on \in BOOLEAN : Phone!setSeen(f, on)
                   \/ UNCHANGED phoneVars
  PROVE  PhoneInv'
<1>1. UNCHANGED <<log, diffs, diffBytes, inflight, calls>>
  BY DEF Phone!TenSeconds, Phone!ThirtySeconds, Phone!setSeen, Phone!forge, Phone!caches, phoneVars
<1>2. pulls' # None => pulls'.version \in 1..Len(log)
  <2>1. CASE UNCHANGED pulls
    BY <2>1 DEF PhoneInv, PhoneReads
  <2>2. CASE Phone!TenSeconds
    <3>1. pulls # None /\ pulls' = [pulls EXCEPT !.fresh = FALSE]
      BY <2>2 DEF Phone!TenSeconds
    <3> QED
      BY <3>1 DEF PhoneInv, PhoneReads
  <2> QED
    BY <2>1, <2>2 DEF Phone!ThirtySeconds, Phone!setSeen, Phone!forge, Phone!caches, phoneVars
<1> QED
  BY <1>1, <1>2, PhoneRequests DEF PhoneInv, PhoneReads

\* The diff a fetch gets is of a head no lower than the one it is for.
LEMMA PhoneServeDiffStep ==
  ASSUME PhoneInv, NEW j \in inflight, Phone!ServeDiff(j)
  PROVE  PhoneInv'
<1> DEFINE k == [j EXCEPT !.stage = "check", !.of = Phone!HeadOf(Phone!Version)]
           top == log[Len(log)].head
<1>1. /\ UNCHANGED <<log, pulls, diffs, diffBytes, calls>> /\ j.stage = "diff"
      /\ inflight' = (inflight \ {j}) \cup {k}
  BY DEF Phone!ServeDiff, Phone!forge
<1>2. top \in PhoneHeads /\ Phone!HeadOf(Phone!Version) = top /\ PhoneHeads \subseteq Int
  <2>1. Len(log) \in 1..Len(log)
    BY DEF PhoneInv, PhoneLog
  <2> QED
    BY <2>1, PhoneHeadOf DEF PhoneInv, Phone!Version, PhoneHeads
<1>3. j \in PhoneFetch /\ j.head <= top
  BY DEF PhoneInv, PhoneFetches
<1>4. /\ k \in PhoneFetch /\ k.head = j.head /\ k.head <= top
      /\ k.of = top /\ k.got = j.got /\ k.stage = "check"
  BY <1>2, <1>3 DEF PhoneFetch
<1>5. k.got = None
  BY <1>1, <1>4 DEF PhoneInv, PhoneFetches
<1> HIDE DEF k
<1>6. PhoneFetches'
  <2>1. inflight' \subseteq PhoneFetch
    BY <1>1, <1>4 DEF PhoneInv, PhoneFetches
  <2>2. \A m \in inflight' : m \in inflight \ {j} \/ m = k
    BY <1>1
  <2>3. \A m \in inflight' :
          /\ m.head <= top
          /\ m.stage = "diff" => m.got = None
          /\ m.stage = "check" => m.of \in PhoneHeads /\ m.head <= m.of /\ m.of <= top
          /\ m.stage = "check" /\ m.got # None => m.got \in 1..Len(log) /\ m.of <= log[m.got].head
    <3>1. /\ k.head <= top /\ k.stage = "check" /\ k.of \in PhoneHeads /\ k.head <= k.of /\ k.of <= top
          /\ k.got = None
      <4>1. top \in PhoneHeads /\ top \in Int
        BY <1>2
      <4> HIDE DEF top
      <4>2. top <= top
        BY <4>1
      <4> QED
        BY <1>4, <1>5, <4>1, <4>2, Zenon
    <3> QED
      BY <2>2, <3>1 DEF PhoneInv, PhoneFetches
  <2>4. \A m, q \in inflight' : m.head = q.head => m = q
    BY <1>4, <2>2 DEF PhoneInv, PhoneFetches
  <2> QED
    BY <1>1, <2>1, <2>3, <2>4 DEF PhoneFetches
<1>7. PhoneCache'
  BY <1>1, <1>4 DEF PhoneInv, PhoneCache, Phone!CacheIsSound
<1>8. PhoneLog' /\ PhoneReads'
  BY <1>1 DEF PhoneInv, PhoneLog, PhoneReads
<1> QED
  BY <1>6, <1>7, <1>8 DEF PhoneInv

\* The head it then asks for is no lower than that of the diff.
LEMMA PhoneServeHeadStep ==
  ASSUME PhoneInv, NEW j \in inflight, Phone!ServeHead(j)
  PROVE  PhoneInv'
<1> DEFINE k == [j EXCEPT !.got = Phone!Version]
           top == log[Len(log)].head
<1>1. /\ UNCHANGED <<log, pulls, diffs, diffBytes, calls>> /\ j.stage = "check"
      /\ inflight' = (inflight \ {j}) \cup {k}
  BY DEF Phone!ServeHead, Phone!forge
<1>2. Phone!Version = Len(log) /\ Len(log) \in 1..Len(log) /\ Len(log) \in PhoneHeads
  BY DEF PhoneInv, PhoneLog, Phone!Version, PhoneHeads
<1>3. j \in PhoneFetch /\ j.head <= top /\ j.of \in PhoneHeads /\ j.head <= j.of /\ j.of <= top
  BY <1>1 DEF PhoneInv, PhoneFetches
<1>4. /\ k \in PhoneFetch /\ k.head = j.head /\ k.head <= top
      /\ k.of = j.of /\ k.got = Len(log) /\ k.stage = "check"
  BY <1>1, <1>2, <1>3 DEF PhoneFetch
<1> HIDE DEF k
<1>6. PhoneFetches'
  <2>1. inflight' \subseteq PhoneFetch
    BY <1>1, <1>4 DEF PhoneInv, PhoneFetches
  <2>2. \A m \in inflight' : m \in inflight \ {j} \/ m = k
    BY <1>1
  <2>3. \A m \in inflight' :
          /\ m.head <= top
          /\ m.stage = "diff" => m.got = None
          /\ m.stage = "check" => m.of \in PhoneHeads /\ m.head <= m.of /\ m.of <= top
          /\ m.stage = "check" /\ m.got # None => m.got \in 1..Len(log) /\ m.of <= log[m.got].head
    BY <1>2, <1>3, <1>4, <2>2 DEF PhoneInv, PhoneFetches
  <2>4. \A m, q \in inflight' : m.head = q.head => m = q
    BY <1>4, <2>2 DEF PhoneInv, PhoneFetches
  <2> QED
    BY <1>1, <2>1, <2>3, <2>4 DEF PhoneFetches
<1>7. PhoneCache'
  BY <1>1, <1>4 DEF PhoneInv, PhoneCache, Phone!CacheIsSound
<1>8. PhoneLog' /\ PhoneReads'
  BY <1>1 DEF PhoneInv, PhoneLog, PhoneReads
<1> QED
  BY <1>6, <1>7, <1>8 DEF PhoneInv

\* A fetch that ends leaves the others; what it was for is not under way any more.
LEMMA PhoneLanded ==
  ASSUME PhoneInv, NEW j \in inflight, UNCHANGED log, inflight' = inflight \ {j}
  PROVE  PhoneLog' /\ PhoneFetches' /\ \A k \in inflight' : k \in inflight /\ k.head # j.head
<1>1. PhoneLog'
  BY DEF PhoneInv, PhoneLog
<1>2. PhoneFetches'
  BY DEF PhoneInv, PhoneFetches
<1> QED
  BY <1>1, <1>2 DEF PhoneInv, PhoneFetches

\* What is kept of the cache with one more diff.
LEMMA PhoneKeeps ==
  ASSUME PhoneInv, NEW e \in PhoneEntry, e.of = e.head, \A n \in DOMAIN diffs : diffs[n].head # e.head,
         Phone!Keep(e)
  PROVE  /\ diffs' \in Seq(PhoneEntry) /\ diffBytes' \in Nat /\ Phone!CacheIsSound'
         /\ \A n \in DOMAIN diffs' : diffs'[n].head = e.head \/ \E k \in DOMAIN diffs : diffs'[n] = diffs[k]
<1> DEFINE s == Append(diffs, e)
<1>1. /\ diffs \in Seq(PhoneEntry) /\ diffBytes = Phone!Total(diffs) /\ DOMAIN diffs = 1..Len(diffs)
      /\ \A n \in DOMAIN diffs : diffs[n].of = diffs[n].head
      /\ \A n, k \in DOMAIN diffs : diffs[n].head = diffs[k].head => n = k
  BY DEF PhoneInv, PhoneCache, Phone!CacheIsSound
<1>2. Phone!Stored(e) = s
  BY DEF Phone!Stored
<1>3. /\ s \in Seq(PhoneEntry) /\ Len(s) = Len(diffs) + 1 /\ s[Len(diffs) + 1] = e
      /\ \A i \in 1..Len(diffs) : s[i] = diffs[i]
  BY <1>1
<1>4. Phone!Total(s) = diffBytes + Bytes[e.of]
  BY <1>1, PhoneTotalAppend
<1> HIDE DEF s
<1>5. PICK n \in 0..(Len(s) - 1) :
        /\ Phone!Fits(SubSeq(s, n + 1, Len(s)), Phone!Total(s) - Phone!Total(SubSeq(s, 1, n)))
        /\ diffs' = SubSeq(s, n + 1, Len(s))
        /\ diffBytes' = Phone!Total(s) - Phone!Total(SubSeq(s, 1, n))
  BY <1>2, <1>4 DEF Phone!Keep
<1>6. n \in 0..Len(s) /\ Len(s) \in Nat
  BY <1>3
<1>7. diffs' \in Seq(PhoneEntry) /\ diffBytes' = Phone!Total(diffs') /\ diffBytes' \in Nat
  <2>1. /\ SubSeq(s, n + 1, Len(s)) \in Seq(PhoneEntry)
        /\ Phone!Total(s) = Phone!Total(SubSeq(s, 1, n)) + Phone!Total(SubSeq(s, n + 1, Len(s)))
        /\ Phone!Total(SubSeq(s, 1, n)) \in Nat /\ Phone!Total(SubSeq(s, n + 1, Len(s))) \in Nat
    BY <1>3, <1>6, PhoneTotalSplit
  <2> QED
    BY <1>5, <2>1
<1>8. /\ DOMAIN diffs' = 1..(Len(s) - n)
      /\ \A k \in 1..(Len(s) - n) : diffs'[k] = s[n + k] /\ n + k \in 1..Len(s)
  BY <1>3, <1>5, <1>6
<1>9. \A k \in 1..Len(s) : s[k].of = s[k].head
  <2> SUFFICES ASSUME NEW k \in 1..Len(s) PROVE s[k].of = s[k].head
    OBVIOUS
  <2>1. k \in 1..Len(diffs) \/ k = Len(diffs) + 1
    BY <1>1, <1>3
  <2> QED
    BY <1>1, <1>3, <2>1
<1>10. \A k, m \in 1..Len(s) : s[k].head = s[m].head => k = m
  <2> SUFFICES ASSUME NEW k \in 1..Len(s), NEW m \in 1..Len(s), s[k].head = s[m].head PROVE k = m
    OBVIOUS
  <2>1. (k \in 1..Len(diffs) \/ k = Len(diffs) + 1) /\ (m \in 1..Len(diffs) \/ m = Len(diffs) + 1)
    BY <1>1, <1>3
  <2> QED
    BY <1>1, <1>3, <2>1
<1>11. \A k \in DOMAIN diffs' : diffs'[k].of = diffs'[k].head
  BY <1>8, <1>9
<1>12. \A k, m \in DOMAIN diffs' : diffs'[k].head = diffs'[m].head => k = m
  <2> SUFFICES ASSUME NEW k \in DOMAIN diffs', NEW m \in DOMAIN diffs', diffs'[k].head = diffs'[m].head
               PROVE  k = m
    OBVIOUS
  <2>1. n + k \in 1..Len(s) /\ n + m \in 1..Len(s) /\ s[n + k].head = s[n + m].head
    BY <1>8
  <2>2. n + k = n + m
    BY <1>10, <2>1
  <2>3. n \in Int /\ k \in Int /\ m \in Int
    BY <1>6, <1>8
  <2> QED
    BY <2>2, <2>3
<1>13. Phone!CacheIsSound'
  <2>1. Phone!Fits(diffs, diffBytes)'
    BY <1>5 DEF Phone!Fits
  <2> QED
    BY <1>7, <1>11, <1>12, <2>1 DEF Phone!CacheIsSound
<1>14. \A k \in DOMAIN diffs' : diffs'[k].head = e.head \/ \E m \in DOMAIN diffs : diffs'[k] = diffs[m]
  <2> SUFFICES ASSUME NEW k \in DOMAIN diffs'
               PROVE  diffs'[k].head = e.head \/ \E m \in DOMAIN diffs : diffs'[k] = diffs[m]
    OBVIOUS
  <2>1. diffs'[k] = s[n + k] /\ n + k \in 1..Len(s)
    BY <1>8
  <2>2. n + k \in 1..Len(diffs) \/ n + k = Len(diffs) + 1
    BY <1>1, <1>3, <2>1
  <2> QED
    BY <1>1, <1>3, <2>1, <2>2
<1> QED
  BY <1>7, <1>13, <1>14

\* Between a diff no lower than its head and no higher than the head that is read after, both are
\* the head: what is cached was served for it.
LEMMA PhoneCheckedStep ==
  ASSUME PhoneInv, NEW j \in inflight, Phone!Checked(j)
  PROVE  PhoneInv'
<1>1. /\ j.stage = "check" /\ j.got # None /\ pulls' = [version |-> j.got, fresh |-> TRUE]
      /\ inflight' = inflight \ {j} /\ UNCHANGED log
  BY DEF Phone!Checked, Phone!forge
<1>2. /\ j \in PhoneFetch /\ j.of \in PhoneHeads /\ j.head <= j.of
      /\ j.got \in 1..Len(log) /\ j.of <= log[j.got].head
  BY <1>1 DEF PhoneInv, PhoneFetches
<1>3. PhoneLog' /\ PhoneFetches' /\ \A k \in inflight' : k \in inflight /\ k.head # j.head
  BY <1>1, PhoneLanded
<1>4. PhoneCalls(calls', Len(log))
  <2>1. \/ calls' = [i \in Requests |->
              IF calls[i] # None /\ calls[i].stage = "wait" /\ calls[i].head = j.head
              THEN Phone!Answered(calls[i], Phone!Slices(calls[i], [head |-> j.head, of |-> j.of])) ELSE calls[i]]
        \/ calls' = [i \in Requests |->
              IF calls[i] # None /\ calls[i].stage = "wait" /\ calls[i].head = j.head
              THEN Phone!Answered(calls[i], Phone!Stale) ELSE calls[i]]
    BY DEF Phone!Checked, Phone!Tell
  <2>2. /\ DOMAIN calls' = Requests
        /\ \A i \in Requests : \/ calls'[i] = calls[i]
                               \/ calls[i] # None /\ \E x : calls'[i] = Phone!Answered(calls[i], x)
    BY <2>1
  <2> QED
    BY <2>2, PhoneTell DEF PhoneInv, PhoneReads
<1>5. PhoneReads'
  BY <1>1, <1>2, <1>4 DEF PhoneReads
<1>6. CASE Phone!Unmoved(j.got, j.head)
  <2> DEFINE e == [head |-> j.head, of |-> j.of]
  <2>1. j.of = j.head /\ j.head \in PhoneHeads
    <3>1. log[j.got].head = j.head /\ j.head \in PhoneHeads
      BY <1>2, <1>6 DEF Phone!Unmoved, Phone!HeadOf, PhoneFetch
    <3> QED
      BY <1>2, <3>1 DEF PhoneHeads
  <2>2. e \in PhoneEntry /\ e.of = e.head /\ e.head = j.head
    BY <2>1 DEF PhoneEntry
  <2>3. Phone!Keep(e)
    BY <1>6 DEF Phone!Checked
  <2> HIDE DEF e
  <2>4. \A n \in DOMAIN diffs : diffs[n].head # e.head
    BY <2>2 DEF PhoneInv, PhoneCache
  <2>5. /\ diffs' \in Seq(PhoneEntry) /\ diffBytes' \in Nat /\ Phone!CacheIsSound'
        /\ \A n \in DOMAIN diffs' : diffs'[n].head = e.head \/ \E k \in DOMAIN diffs : diffs'[n] = diffs[k]
    BY <2>2, <2>3, <2>4, PhoneKeeps
  <2>6. \A n \in DOMAIN diffs' : \A k \in inflight' : diffs'[n].head # k.head
    BY <1>3, <2>2, <2>5 DEF PhoneInv, PhoneCache
  <2>7. PhoneCache'
    BY <2>5, <2>6 DEF PhoneCache
  <2> QED
    BY <1>3, <1>5, <2>7 DEF PhoneInv
<1>7. CASE ~Phone!Unmoved(j.got, j.head)
  <2>1. UNCHANGED <<diffs, diffBytes>>
    BY <1>7 DEF Phone!Checked
  <2>2. PhoneCache'
    BY <1>3, <2>1 DEF PhoneInv, PhoneCache, Phone!CacheIsSound
  <2> QED
    BY <1>3, <1>5, <2>2 DEF PhoneInv
<1> QED
  BY <1>6, <1>7

LEMMA PhoneDiffFailsStep ==
  ASSUME PhoneInv, NEW j \in inflight, Phone!DiffFails(j)
  PROVE  PhoneInv'
<1>1. inflight' = inflight \ {j} /\ UNCHANGED <<log, pulls, diffs, diffBytes>>
  BY DEF Phone!DiffFails, Phone!forge
<1>2. PhoneLog' /\ PhoneFetches' /\ \A k \in inflight' : k \in inflight /\ k.head # j.head
  BY <1>1, PhoneLanded
<1>3. calls' = [i \in Requests |->
        IF calls[i] # None /\ calls[i].stage = "wait" /\ calls[i].head = j.head
        THEN Phone!Answered(calls[i], Phone!Failed) ELSE calls[i]]
  BY DEF Phone!DiffFails, Phone!Tell
<1>4. PhoneCalls(calls', Len(log))
  <2>1. /\ DOMAIN calls' = Requests
        /\ \A i \in Requests : \/ calls'[i] = calls[i]
                               \/ calls[i] # None /\ \E x : calls'[i] = Phone!Answered(calls[i], x)
    BY <1>3
  <2> QED
    BY <2>1, PhoneTell DEF PhoneInv, PhoneReads
<1>5. PhoneReads'
  BY <1>1, <1>4 DEF PhoneInv, PhoneReads
<1>6. PhoneCache'
  BY <1>1, <1>2 DEF PhoneInv, PhoneCache, Phone!CacheIsSound
<1> QED
  BY <1>2, <1>5, <1>6 DEF PhoneInv

\* A push or a review adds a version, whose head is no lower than the one before.
LEMMA PhoneForgeStep ==
  ASSUME PhoneInv, Phone!ForgeNext
  PROVE  PhoneInv'
<1> DEFINE l == Len(log)
           top == log[l].head
<1>1. /\ l \in Nat /\ l >= 1 /\ l < MaxVersions /\ MaxVersions \in Nat
      /\ UNCHANGED <<pulls, diffs, diffBytes, inflight, calls>>
  <2>1. Len(log) \in 1..MaxVersions /\ MaxVersions \in Nat
    BY PhoneAssumption DEF PhoneInv, PhoneLog
  <2>2. Len(log) < MaxVersions /\ UNCHANGED <<pulls, diffs, diffBytes, inflight, calls>>
    BY DEF Phone!ForgeNext, Phone!Push, Phone!Review, Phone!Version, Phone!caches
  <2> QED
    BY <2>1, <2>2
<1>2. PICK r : log' = Append(log, r) /\ "head" \in DOMAIN r /\ r.head \in {top, top + 1}
  <2>1. ASSUME NEW told, Phone!Push(told)
        PROVE  \E r : log' = Append(log, r) /\ "head" \in DOMAIN r /\ r.head \in {top, top + 1}
    BY <2>1 DEF Phone!Push, Phone!HeadOf, Phone!Version
  <2>2. CASE Phone!Review
    <3>1. "head" \in DOMAIN log[l]
      BY <1>1 DEF PhoneInv, PhoneLog
    <3> QED
      BY <2>2, <3>1 DEF Phone!Review, Phone!HeadOf, Phone!Version
  <2> QED
    BY <2>1, <2>2 DEF Phone!ForgeNext
<1>3. PICK S : log \in Seq(S)
  BY DEF PhoneInv, PhoneLog
<1>4. /\ log' \in Seq(S \cup {r}) /\ Len(log') = l + 1 /\ DOMAIN log' = 1..(l + 1) /\ log'[l + 1] = r
      /\ \A v \in 1..l : log'[v] = log[v]
  <2>1. log \in Seq(S \cup {r})
    BY <1>3
  <2> QED
    BY <1>2, <2>1
<1>5. /\ top \in 1..l /\ \A v \in 1..l : log[v].head \in 1..v /\ log[v].head <= top
  BY <1>1 DEF PhoneInv, PhoneLog
<1>6. /\ \A v \in 1..(l + 1) : "head" \in DOMAIN log'[v] /\ log'[v].head \in 1..v /\ log'[v].head <= r.head
      /\ \A v \in 1..l : log'[v].head = log[v].head
      /\ r.head \in Nat /\ top <= r.head
  <2>1. r.head \in 1..(l + 1) /\ top <= r.head
    BY <1>1, <1>2, <1>5
  <2> SUFFICES ASSUME NEW v \in 1..(l + 1)
               PROVE  "head" \in DOMAIN log'[v] /\ log'[v].head \in 1..v /\ log'[v].head <= r.head
    BY <1>4, <2>1
  <2>2. CASE v \in 1..l
    BY <1>1, <1>4, <1>5, <2>1, <2>2 DEF PhoneInv, PhoneLog
  <2>3. CASE v = l + 1
    BY <1>1, <1>2, <1>4, <2>1, <2>3
  <2> QED
    BY <1>1, <2>2, <2>3
<1>7. \A v, w \in 1..(l + 1) : v <= w => log'[v].head <= log'[w].head
  <2> SUFFICES ASSUME NEW v \in 1..(l + 1), NEW w \in 1..(l + 1), v <= w
               PROVE  log'[v].head <= log'[w].head
    OBVIOUS
  <2>1. CASE w = l + 1
    BY <1>4, <1>6, <2>1
  <2>2. CASE w \in 1..l
    <3>1. v \in 1..l
      BY <1>1, <2>2
    <3>2. log[v].head <= log[w].head
      BY <2>2, <3>1 DEF PhoneInv, PhoneLog
    <3> QED
      BY <1>6, <2>2, <3>1, <3>2
  <2> QED
    BY <1>1, <2>1, <2>2
<1>8. PhoneLog'
  <2>1. Len(log') \in 1..MaxVersions
    BY <1>1, <1>4
  <2> QED
    BY <1>4, <1>6, <1>7, <2>1 DEF PhoneLog
<1>9. 1..l \subseteq 1..Len(log')
  BY <1>1, <1>4
<1>10. PhoneReads'
  BY <1>1, <1>9 DEF PhoneInv, PhoneReads, PhoneCalls, PhoneGot
<1>11. PhoneFetches'
  <2>1. inflight' \subseteq PhoneFetch /\ \A m, q \in inflight' : m.head = q.head => m = q
    BY <1>1 DEF PhoneInv, PhoneFetches
  <2> SUFFICES ASSUME NEW j \in inflight
               PROVE  /\ j.head <= r.head
                      /\ j.stage = "diff" => j.got = None
                      /\ j.stage = "check" => j.of \in PhoneHeads /\ j.head <= j.of /\ j.of <= r.head
                      /\ j.stage = "check" /\ j.got # None =>
                           j.got \in 1..Len(log') /\ j.of <= log'[j.got].head
    BY <1>1, <1>4, <2>1 DEF PhoneFetches
  <2>2. /\ j.head \in PhoneHeads /\ j.head <= top
        /\ j.stage = "diff" => j.got = None
        /\ j.stage = "check" => j.of \in PhoneHeads /\ j.head <= j.of /\ j.of <= top
        /\ j.stage = "check" /\ j.got # None => j.got \in 1..l /\ j.of <= log[j.got].head
    BY DEF PhoneInv, PhoneFetches, PhoneFetch
  <2>3. \A x \in PhoneHeads : x <= top => x <= r.head
    BY <1>5, <1>6 DEF PhoneHeads
  <2> QED
    BY <1>6, <1>9, <2>2, <2>3
<1>12. PhoneCache'
  BY <1>1 DEF PhoneInv, PhoneCache, Phone!CacheIsSound
<1> QED
  BY <1>8, <1>10, <1>11, <1>12 DEF PhoneInv

LEMMA PhoneStart ==
  ASSUME Phone!Init
  PROVE  PhoneInv
<1>1. PhoneLog
  <2> DEFINE r == [head |-> 1, patch |-> [f \in Files |-> 1], reviewed |-> {}]
  <2>1. log = <<r>> /\ "head" \in DOMAIN r /\ r.head = 1
    BY DEF Phone!Init
  <2> HIDE DEF r
  <2>2. log \in Seq({r}) /\ Len(log) = 1 /\ DOMAIN log = 1..1 /\ log[1] = r /\ \A v \in 1..1 : v = 1
    BY <2>1
  <2>3. 1 \in 1..MaxVersions
    BY PhoneAssumption
  <2> QED
    BY <2>1, <2>2, <2>3 DEF PhoneLog
<1>2. PhoneReads /\ PhoneFetches
  BY DEF Phone!Init, PhoneReads, PhoneCalls, PhoneFetches
<1>3. PhoneCache
  <2>1. diffs = <<>> /\ diffBytes = 0 /\ inflight = {}
    BY DEF Phone!Init
  <2>2. diffs \in Seq(PhoneEntry) /\ DOMAIN diffs = {} /\ Len(diffs) = 0
    BY <2>1
  <2>3. Phone!Fits(diffs, diffBytes)
    BY <2>1, <2>2, PhoneAssumption DEF Phone!Fits
  <2> QED
    BY <2>1, <2>2, <2>3, PhoneTotalOfNone DEF PhoneCache, Phone!CacheIsSound
<1> QED
  BY <1>1, <1>2, <1>3 DEF PhoneInv

LEMMA PhoneStep ==
  ASSUME PhoneInv, [Phone!Next]_phoneVars
  PROVE  PhoneInv'
<1>1. CASE Phone!HostNext
  BY <1>1, PhoneStartStep, PhoneServeStep, PhoneSearchedStep, PhonePulledStep, PhoneAnsweredStep,
     PhoneServeDiffStep, PhoneServeHeadStep, PhoneCheckedStep, PhoneDiffFailsStep, PhoneRestStep
     DEF Phone!HostNext
<1>2. CASE Phone!PhoneNext
  BY <1>2, PhoneAskStep, PhoneReceiveStep, PhoneAnsweredStep, PhoneRestStep DEF Phone!PhoneNext
<1> QED
  BY <1>1, <1>2, PhoneForgeStep, PhoneRestStep DEF Phone!Next

\* CacheIsSound, for every number of files, of requests at once and of versions, and whatever the
\* limits of the cache and the lengths of the diffs are.
THEOREM CachesAreSound == SideBySide => []CacheIsSound
<1>1. Start => PhoneInv
  BY PhoneStart DEF Start
<1>2. PhoneInv /\ [Step]_<<focus, windowVars, shellVars, dockVars, toolsVars, accountsVars, updaterVars,
                          serverVars, phoneVars, reviewVars, handsetVars>> => PhoneInv'
  <2>1. [Step]_<<focus, windowVars, shellVars, dockVars, toolsVars, accountsVars, updaterVars, serverVars, phoneVars,
                 reviewVars, handsetVars>> => [Phone!Next]_phoneVars
    BY DEF Step
  <2> QED
    BY <2>1, PhoneStep
<1>3. PhoneInv => CacheIsSound
  BY DEF PhoneInv, PhoneCache, CacheIsSound
<1> QED
  BY <1>1, <1>2, <1>3, PTL DEF SideBySide

-----------------------------------------------------------------------------
(***************************************************************************)
(* The handset: Companion. The lists its checks, its pairing and its question  *)
(* hold are well formed and, unless something met, of the machines kept.        *)
(***************************************************************************)
HandsetTrue(lst) == met \/ Handset!TokensOf(lst) = kept
\* A check is at a machine of the list it saw, and has its answer once it is past the probe.
HandsetSound(c) ==
  c # None => /\ c \in Handset!Check /\ c.left \subseteq DOMAIN c.seen /\ c.left # {}
              /\ c.at # "probe" => c.of \in c.left /\ c.found \in Facts
HandsetChecks(f) ==
  /\ f \in [Handset!Slots -> Handset!Check \cup {None}]
  /\ \A s \in Handset!Slots : HandsetSound(f[s]) /\ (f[s] # None => HandsetTrue(f[s].seen))
HandsetScan ==
  scan # None => /\ scan \in [of : Machines, seen : Handset!Lists, at : {"probe", "pair", "answer"},
                              found : Facts \cup {None}, token : Nat]
                 /\ scan.at # "probe" => scan.found \in Facts
                 /\ HandsetTrue(scan.seen)
HandsetAlert ==
  alert # None => /\ alert \in [of : Machines, seen : Handset!Lists, confirmed : BOOLEAN]
                  /\ alert.confirmed \/ HandsetTrue(alert.seen)
HandsetHosts ==
  hosts \in [Machines -> Facts \cup {None}] /\ granted \in [Machines -> Nat] /\ taps \in Nat
HandsetList == machines \in Handset!Lists /\ HandsetTrue(machines)
HandsetHeld == HandsetHosts /\ HandsetList /\ HandsetChecks(refreshes) /\ HandsetScan /\ HandsetAlert

\* What a list is: a function from some of the machines to entries.
LEMMA HandsetListOf ==
  ASSUME NEW l
  PROVE  l \in Handset!Lists <=> DOMAIN l \subseteq Machines /\ l \in [DOMAIN l -> Handset!Entry]
BY DEF Handset!Lists

\* A patched list is one, of the same machines and tokens.
LEMMA HandsetPatched ==
  ASSUME NEW l \in Handset!Lists, NEW m \in DOMAIN l, NEW f \in Facts,
         NEW p, \/ p = [l EXCEPT ![m] = [@ EXCEPT !["lastGood"] = f.lastGood]]
                \/ p = [l EXCEPT ![m] = [@ EXCEPT !["features"] = f.features]]
                \/ p = [l EXCEPT ![m] = [@ EXCEPT !["scopes"] = f.scopes]]
  PROVE  p \in Handset!Lists /\ Handset!TokensOf(p) = Handset!TokensOf(l)
<1>1. DOMAIN l \subseteq Machines /\ l \in [DOMAIN l -> Handset!Entry]
  BY HandsetListOf
<1> DEFINE e == p[m]
<1>2. e = [l[m] EXCEPT !["lastGood"] = f.lastGood] \/ e = [l[m] EXCEPT !["features"] = f.features]
      \/ e = [l[m] EXCEPT !["scopes"] = f.scopes]
  BY <1>1
<1>3. e \in Handset!Entry /\ e.token = l[m].token
  BY <1>1, <1>2 DEF Handset!Entry
<1>4. p = [l EXCEPT ![m] = e]
  BY <1>1
<1> HIDE DEF e
<1>5. DOMAIN p = DOMAIN l /\ p \in [DOMAIN l -> Handset!Entry]
  BY <1>1, <1>3, <1>4
<1>6. p \in Handset!Lists
  BY <1>1, <1>5, HandsetListOf
<1>7. \A x \in DOMAIN l : p[x].token = l[x].token
  BY <1>1, <1>3, <1>4
<1> QED
  BY <1>5, <1>6, <1>7 DEF Handset!TokensOf

\* A check that begins is sound, and about the list it begins with; the others stay.
HandsetSounds(f) ==
  f \in [Handset!Slots -> Handset!Check \cup {None}] /\ \A s \in Handset!Slots : HandsetSound(f[s])
LEMMA HandsetBegan ==
  ASSUME NEW lst \in Handset!Lists, NEW others, HandsetSounds(others), Handset!refresh(lst, others)
  PROVE  /\ HandsetSounds(refreshes') /\ changed' = {}
         /\ \A s \in Handset!Slots : refreshes'[s] = others[s] \/ refreshes'[s].seen = lst
         /\ \/ DOMAIN lst = {} /\ newest' = None
            \/ /\ newest' \in Handset!Slots /\ refreshes'[newest'] # None
               /\ refreshes'[newest'].seen = lst /\ refreshes'[newest'].left = DOMAIN lst
               /\ refreshes'[newest'].at = "probe"
<1>1. changed' = {}
  BY DEF Handset!refresh
<1>2. CASE DOMAIN lst = {}
  BY <1>1, <1>2 DEF Handset!refresh
<1>3. CASE DOMAIN lst # {}
  <2> DEFINE c == [seen |-> lst, left |-> DOMAIN lst, of |-> None, at |-> "probe", found |-> None]
  <2>1. PICK s \in Handset!Slots : refreshes' = [others EXCEPT ![s] = c] /\ newest' = s
    BY <1>3 DEF Handset!refresh
  <2>2. DOMAIN lst \subseteq Machines
    BY HandsetListOf
  <2>3. c \in Handset!Check
    BY <2>2 DEF Handset!Check
  <2>4. c # None
    BY <2>3, HandsetAssumption
  <2>5. HandsetSound(c)
    BY <1>3, <2>3 DEF HandsetSound
  <2>6. c.seen = lst /\ c.left = DOMAIN lst /\ c.at = "probe"
    OBVIOUS
  <2> HIDE DEF c
  <2> QED
    BY <1>1, <2>1, <2>3, <2>4, <2>5, <2>6 DEF HandsetSounds
<1> QED
  BY <1>2, <1>3

LEMMA HandsetBegins ==
  ASSUME NEW lst \in Handset!Lists, NEW others, HandsetChecks(others), HandsetTrue(lst), Handset!refresh(lst, others)
  PROVE  HandsetChecks(refreshes')
<1>1. HandsetSounds(others)
  BY DEF HandsetChecks, HandsetSounds
<1> QED
  BY <1>1, HandsetBegan DEF HandsetChecks, HandsetSounds

\* Where met and kept stay, so does what they say of lists.
HandsetStill == UNCHANGED <<met, kept, hosts, granted, scan, alert, taps>>
LEMMA HandsetStays ==
  ASSUME HandsetStill, HandsetHeld
  PROVE  /\ \A f : HandsetChecks(f) => HandsetChecks(f)'
         /\ HandsetHosts' /\ HandsetScan' /\ HandsetAlert'
         /\ \A l : HandsetTrue(l) => HandsetTrue(l)'
BY DEF HandsetStill, HandsetHeld, HandsetChecks, HandsetTrue, HandsetSound, HandsetHosts, HandsetScan, HandsetAlert

\* A list of the machines kept is written, and a check begins if Machines is in view.
LEMMA HandsetPersists ==
  ASSUME HandsetHeld, NEW next \in Handset!Lists, HandsetTrue(next), NEW others, HandsetChecks(others),
         Handset!persist(next, others), HandsetStill
  PROVE  HandsetHeld'
<1>1. machines' = next /\ HandsetChecks(refreshes')
  BY HandsetBegins DEF Handset!persist
<1> QED
  BY <1>1, HandsetStays DEF HandsetHeld, HandsetList, HandsetChecks, HandsetTrue, HandsetSound, HandsetStill

LEMMA HandsetGoesOn ==
  ASSUME HandsetHeld, HandsetChecks(refreshes'), machines' = machines, HandsetStill
  PROVE  HandsetHeld'
BY HandsetStays DEF HandsetHeld, HandsetList, HandsetChecks, HandsetTrue, HandsetSound, HandsetStill

\* One check goes on, soundly and with the list it had.
LEMMA HandsetOne ==
  ASSUME HandsetChecks(refreshes), NEW s \in Handset!Slots, refreshes[s] # None,
         NEW c, HandsetSound(c), c = None \/ c.seen = refreshes[s].seen
  PROVE  HandsetChecks([refreshes EXCEPT ![s] = c])
BY DEF HandsetChecks, HandsetSound

LEMMA HandsetCheckOf ==
  ASSUME HandsetHeld, NEW s \in Handset!Slots, refreshes[s] # None
  PROVE  /\ refreshes[s] \in Handset!Check /\ refreshes[s].left # {}
         /\ refreshes[s].left \subseteq DOMAIN refreshes[s].seen
         /\ refreshes[s].seen \in Handset!Lists /\ DOMAIN refreshes[s].seen \subseteq Machines
         /\ HandsetTrue(refreshes[s].seen) /\ HandsetChecks(refreshes)
         /\ refreshes[s].at # "probe" => /\ refreshes[s].of \in refreshes[s].left
                                         /\ refreshes[s].of \in DOMAIN refreshes[s].seen
                                         /\ refreshes[s].found \in Facts
<1>1. refreshes[s] \in Handset!Check /\ HandsetSound(refreshes[s]) /\ HandsetTrue(refreshes[s].seen)
  BY DEF HandsetHeld, HandsetChecks
<1>2. refreshes[s].seen \in Handset!Lists
  BY <1>1 DEF Handset!Check
<1> QED
  BY <1>1, <1>2, HandsetListOf DEF HandsetSound, HandsetHeld

\* Past the machine it is at.
LEMMA HandsetPast ==
  ASSUME HandsetHeld, NEW s \in Handset!Slots, refreshes[s] # None
  PROVE  HandsetChecks(Handset!Past(s))
<1> DEFINE c == refreshes[s]
           left == c.left \ {c.of}
           next == [c EXCEPT !.left = left, !.of = None, !.at = "probe", !.found = None]
<1>1. Handset!Past(s) = [refreshes EXCEPT ![s] = IF left = {} THEN None ELSE next]
  BY DEF Handset!Past, HandsetHeld, HandsetChecks
<1>2. c \in Handset!Check /\ left \subseteq DOMAIN c.seen /\ left \subseteq Machines
  BY HandsetCheckOf
<1>3. next \in Handset!Check /\ next.left = left /\ next.at = "probe" /\ next.seen = c.seen
  BY <1>2 DEF Handset!Check
<1> HIDE DEF next, left
<1>4. CASE left = {}
  <2>1. Handset!Past(s) = [refreshes EXCEPT ![s] = None]
    BY <1>1, <1>4
  <2>2. HandsetSound(None)
    BY DEF HandsetSound
  <2>3. HandsetChecks([refreshes EXCEPT ![s] = None])
    BY <2>2, HandsetOne, HandsetCheckOf
  <2> QED
    BY <2>1, <2>3
<1>5. CASE left # {}
  <2>1. HandsetSound(next)
    BY <1>2, <1>3, <1>5 DEF HandsetSound
  <2>2. Handset!Past(s) = [refreshes EXCEPT ![s] = next]
    BY <1>1, <1>5
  <2>3. HandsetChecks([refreshes EXCEPT ![s] = next])
    BY <1>3, <2>1, HandsetOne, HandsetCheckOf
  <2> QED
    BY <2>2, <2>3
<1> QED
  BY <1>4, <1>5

\* What a check writes is the list it saw with a fact of its host in one entry.
LEMMA HandsetWrites ==
  ASSUME HandsetHeld, NEW s \in Handset!Slots, refreshes[s] # None, NEW m \in DOMAIN refreshes[s].seen, NEW f \in Facts,
         NEW p, p \in {Handset!updated(s, m, "lastGood", f.lastGood), Handset!updated(s, m, "features", f.features),
                       Handset!updated(s, m, "scopes", f.scopes)}
  PROVE  p \in Handset!Lists /\ HandsetTrue(p)
<1>1. refreshes[s].seen \in Handset!Lists /\ HandsetTrue(refreshes[s].seen)
  BY HandsetCheckOf
<1>2. p \in Handset!Lists /\ Handset!TokensOf(p) = Handset!TokensOf(refreshes[s].seen)
  BY <1>1, HandsetPatched DEF Handset!updated
<1> QED
  BY <1>1, <1>2 DEF HandsetTrue

LEMMA HandsetCompares ==
  ASSUME HandsetHeld, NEW s \in Handset!Slots, refreshes[s] # None, NEW m \in DOMAIN refreshes[s].seen, NEW f \in Facts,
         NEW others, HandsetChecks(others), Handset!CompareFeatures(s, m, f.features, others), HandsetStill
  PROVE  HandsetHeld'
<1>1. CASE Handset!persist(Handset!updated(s, m, "features", f.features), others)
  <2> DEFINE p == Handset!updated(s, m, "features", f.features)
  <2>1. p \in Handset!Lists /\ HandsetTrue(p)
    BY HandsetWrites
  <2> HIDE DEF p
  <2> QED
    BY <1>1, <2>1, HandsetPersists DEF p
<1>2. CASE Handset!GoesOn(others)
  BY <1>2, HandsetGoesOn DEF Handset!GoesOn
<1> QED
  BY <1>1, <1>2 DEF Handset!CompareFeatures

LEMMA HandsetProbeStep ==
  ASSUME HandsetHeld, NEW s \in Handset!Slots, Handset!ProbeAnswered(s)
  PROVE  HandsetHeld'
<1> DEFINE b == refreshes[s]
<1>1. b # None /\ b.at = "probe" /\ HandsetStill
  BY DEF Handset!ProbeAnswered, HandsetStill
<1>2. b \in Handset!Check /\ b.left \subseteq DOMAIN b.seen /\ b.left \subseteq Machines /\ b.seen \in Handset!Lists
      /\ HandsetChecks(refreshes)
  BY <1>1, HandsetCheckOf, HandsetListOf
<1>3. PICK m \in b.left :
        LET c == [b EXCEPT !.of = m, !.found = hosts[m]]
        IN IF hosts[m] = None
             THEN Handset!PassedBy(s, LET left == c.left \ {m}
                                      IN [refreshes EXCEPT ![s] = IF left = {} THEN None ELSE [@ EXCEPT !.left = left]])
           ELSE IF hosts[m].lastGood # c.seen[m].lastGood
             THEN Handset!persist(Handset!updated(s, m, "lastGood", hosts[m].lastGood),
                                  [refreshes EXCEPT ![s] = [c EXCEPT !.at = "features"]])
           ELSE Handset!CompareFeatures(s, m, hosts[m].features, [refreshes EXCEPT ![s] = [c EXCEPT !.at = "repos"]])
  BY DEF Handset!ProbeAnswered
<1>4. m \in DOMAIN b.seen /\ m \in Machines /\ (hosts[m] # None => hosts[m] \in Facts)
  BY <1>2 DEF HandsetHeld, HandsetHosts
<1>5. CASE hosts[m] = None
  <2> DEFINE left == b.left \ {m}
             n == [b EXCEPT !.left = left]
  <2>1. refreshes' = [refreshes EXCEPT ![s] = IF left = {} THEN None ELSE n] /\ machines' = machines
    BY <1>3, <1>5, <1>2 DEF Handset!PassedBy, HandsetChecks, Handset!Check
  <2>2. n \in Handset!Check /\ n.left = left /\ n.at = "probe" /\ n.seen = b.seen
    BY <1>1, <1>2 DEF Handset!Check
  <2>3. left # {} => HandsetSound(n)
    BY <1>2, <2>2 DEF HandsetSound
  <2> DEFINE e == IF left = {} THEN None ELSE n
  <2>4. HandsetSound(e) /\ (e = None \/ e.seen = b.seen) /\ refreshes' = [refreshes EXCEPT ![s] = e]
    BY <2>1, <2>2, <2>3 DEF HandsetSound
  <2> HIDE DEF e
  <2>5. HandsetChecks([refreshes EXCEPT ![s] = e])
    BY <1>1, <1>2, <2>4, HandsetOne
  <2> QED
    BY <1>1, <2>1, <2>4, <2>5, HandsetGoesOn
<1>6. CASE hosts[m] # None
  <2>1. ASSUME NEW stage \in {"features", "repos"}
        PROVE  HandsetChecks([refreshes EXCEPT ![s] = [[b EXCEPT !.of = m, !.found = hosts[m]] EXCEPT !.at = stage]])
    <3> DEFINE n == [[b EXCEPT !.of = m, !.found = hosts[m]] EXCEPT !.at = stage]
    <3>1. n \in Handset!Check /\ n.left = b.left /\ n.at = stage /\ n.seen = b.seen /\ n.of = m /\ n.found = hosts[m]
      BY <1>2, <1>4, <1>6 DEF Handset!Check
    <3>2. HandsetSound(n)
      BY <1>2, <1>4, <1>6, <3>1 DEF HandsetSound
    <3> HIDE DEF n
    <3>3. HandsetChecks([refreshes EXCEPT ![s] = n])
      BY <1>1, <1>2, <3>1, <3>2, HandsetOne
    <3> QED
      BY <3>3 DEF n
  <2> DEFINE at(stage) == [refreshes EXCEPT ![s] = [[b EXCEPT !.of = m, !.found = hosts[m]] EXCEPT !.at = stage]]
  <2>2. CASE Handset!persist(Handset!updated(s, m, "lastGood", hosts[m].lastGood), at("features"))
    <3> DEFINE p == Handset!updated(s, m, "lastGood", hosts[m].lastGood)
               others == at("features")
    <3>1. p \in Handset!Lists /\ HandsetTrue(p)
      BY <1>1, <1>4, <1>6, HandsetWrites
    <3>2. HandsetChecks(others) /\ Handset!persist(p, others)
      BY <2>1, <2>2
    <3> HIDE DEF p, others
    <3> QED
      BY <1>1, <3>1, <3>2, HandsetPersists
  <2>3. CASE Handset!CompareFeatures(s, m, hosts[m].features, at("repos"))
    <3> DEFINE others == at("repos")
    <3>1. HandsetChecks(others) /\ Handset!CompareFeatures(s, m, hosts[m].features, others)
      BY <2>1, <2>3
    <3> HIDE DEF others
    <3> QED
      BY <1>1, <1>4, <1>6, <3>1, HandsetCompares
  <2> QED
    BY <1>3, <1>6, <2>2, <2>3
<1> QED
  BY <1>5, <1>6

\* One check at another stage of the machine it is at.
LEMMA HandsetStage ==
  ASSUME HandsetHeld, NEW s \in Handset!Slots, refreshes[s] # None, refreshes[s].at # "probe",
         NEW stage \in {"repos", "whoami"}
  PROVE  HandsetChecks([refreshes EXCEPT ![s].at = stage])
<1> DEFINE b == refreshes[s]
           n == [b EXCEPT !.at = stage]
<1>1. b \in Handset!Check /\ HandsetSound(b) /\ HandsetChecks(refreshes)
  BY DEF HandsetHeld, HandsetChecks
<1>2. n \in Handset!Check /\ n.left = b.left /\ n.at = stage /\ n.seen = b.seen /\ n.of = b.of /\ n.found = b.found
  BY <1>1 DEF Handset!Check
<1>3. HandsetSound(n)
  BY <1>1, <1>2 DEF HandsetSound
<1>4. [refreshes EXCEPT ![s].at = stage] = [refreshes EXCEPT ![s] = n]
  BY <1>1 DEF HandsetChecks
<1> HIDE DEF n
<1>5. HandsetChecks([refreshes EXCEPT ![s] = n])
  BY <1>1, <1>2, <1>3, HandsetOne
<1> QED
  BY <1>4, <1>5

LEMMA HandsetAddressStep ==
  ASSUME HandsetHeld, NEW s \in Handset!Slots, Handset!AddressWritten(s)
  PROVE  HandsetHeld'
<1> DEFINE others == [refreshes EXCEPT ![s].at = "repos"]
<1>1. refreshes[s] # None /\ refreshes[s].at # "probe" /\ HandsetStill
      /\ Handset!CompareFeatures(s, refreshes[s].of, refreshes[s].found.features, others)
  BY DEF Handset!AddressWritten, HandsetStill
<1>2. HandsetChecks(others)
  BY <1>1, HandsetStage
<1> HIDE DEF others
<1> QED
  BY <1>1, <1>2, HandsetCompares, HandsetCheckOf

LEMMA HandsetReposStep ==
  ASSUME HandsetHeld, NEW s \in Handset!Slots, Handset!ReposAnswered(s)
  PROVE  HandsetHeld'
<1>1. refreshes[s] # None /\ refreshes[s].at # "probe" /\ HandsetStill
  BY DEF Handset!ReposAnswered, HandsetStill
<1>2. machines' = machines
      /\ (refreshes' = [refreshes EXCEPT ![s].at = "whoami"] \/ refreshes' = Handset!Past(s))
  BY DEF Handset!ReposAnswered, Handset!GoesOn, Handset!PassedBy
<1>3. HandsetChecks([refreshes EXCEPT ![s].at = "whoami"]) /\ HandsetChecks(Handset!Past(s))
  BY <1>1, HandsetStage, HandsetPast
<1>4. HandsetChecks(refreshes')
  BY <1>2, <1>3
<1> QED
  BY <1>1, <1>2, <1>4, HandsetGoesOn

LEMMA HandsetWhoamiStep ==
  ASSUME HandsetHeld, NEW s \in Handset!Slots, Handset!WhoamiAnswered(s)
  PROVE  HandsetHeld'
<1> DEFINE m == refreshes[s].of
           others == Handset!Past(s)
<1>1. refreshes[s] # None /\ refreshes[s].at # "probe" /\ HandsetStill
  BY DEF Handset!WhoamiAnswered, HandsetStill
<1>2. HandsetChecks(others)
  BY <1>1, HandsetPast
<1>3. \/ hosts[m] # None /\ Handset!persist(Handset!updated(s, m, "scopes", hosts[m].scopes), others)
      \/ refreshes' = others /\ machines' = machines
  BY DEF Handset!WhoamiAnswered, Handset!Answers, Handset!PassedBy
<1>4. CASE hosts[m] # None /\ Handset!persist(Handset!updated(s, m, "scopes", hosts[m].scopes), others)
  <2>1. m \in DOMAIN refreshes[s].seen /\ m \in Machines
    BY <1>1, HandsetCheckOf
  <2>2. hosts[m] \in Facts
    BY <1>4, <2>1 DEF HandsetHeld, HandsetHosts
  <2> DEFINE p == Handset!updated(s, m, "scopes", hosts[m].scopes)
  <2>3. p \in Handset!Lists /\ HandsetTrue(p)
    BY <1>1, <2>1, <2>2, HandsetWrites
  <2>4. Handset!persist(p, others)
    BY <1>4
  <2> HIDE DEF p, others
  <2> QED
    BY <1>1, <1>2, <2>3, <2>4, HandsetPersists
<1>5. CASE refreshes' = others /\ machines' = machines
  <2>1. HandsetChecks(refreshes')
    BY <1>2, <1>5
  <2> QED
    BY <1>1, <1>5, <2>1, HandsetGoesOn
<1> QED
  BY <1>3, <1>4, <1>5

\* A check asked for, by a pull, by Machines coming into view or by a start of the app.
LEMMA HandsetBeginStep ==
  ASSUME HandsetHeld, Handset!Pulled \/ Handset!ToMachines \/ Handset!Restarted
  PROVE  HandsetHeld'
<1> DEFINE none == [s \in Handset!Slots |-> None]
<1>1. UNCHANGED <<met, kept, hosts, granted, machines>> /\ taps' = taps + 1
      /\ (scan' = scan \/ scan' = None) /\ (alert' = alert \/ alert' = None)
      /\ (Handset!refresh(machines, refreshes) \/ Handset!refresh(machines, none))
  BY DEF Handset!Pulled, Handset!ToMachines, Handset!Restarted, Handset!Tapped
<1>2. HandsetChecks(none) /\ HandsetChecks(refreshes)
  BY DEF HandsetHeld, HandsetChecks, HandsetSound
<1>3. machines \in Handset!Lists /\ HandsetTrue(machines)
  BY DEF HandsetHeld, HandsetList
<1> HIDE DEF none
<1>4. HandsetChecks(refreshes')
  BY <1>1, <1>2, <1>3, HandsetBegins
<1>5. HandsetChecks(refreshes)' /\ HandsetList'
  BY <1>1, <1>3, <1>4 DEF HandsetChecks, HandsetTrue, HandsetList, HandsetSound
<1>6. HandsetScan' /\ HandsetAlert'
  BY <1>1 DEF HandsetHeld, HandsetScan, HandsetAlert, HandsetTrue
<1>7. HandsetHosts'
  BY <1>1 DEF HandsetHeld, HandsetHosts
<1> QED
  BY <1>5, <1>6, <1>7 DEF HandsetHeld

\* Steps of the pairing, the question and the hosts that leave the lists alone.
LEMMA HandsetScanStep ==
  ASSUME HandsetHeld,
         \/ \E m \in Machines : Handset!Scanned(m)
         \/ Handset!ScanProbed \/ Handset!HostPairs \/ Handset!PairingFailed
  PROVE  HandsetHeld'
<1>1. UNCHANGED <<met, kept, machines, refreshes, alert, hosts>>
  BY DEF Handset!Scanned, Handset!ScanProbed, Handset!HostPairs, Handset!PairingFailed
<1>2. HandsetList' /\ HandsetChecks(refreshes)' /\ HandsetAlert'
  BY <1>1 DEF HandsetHeld, HandsetList, HandsetChecks, HandsetAlert, HandsetTrue, HandsetSound
<1>3. HandsetHosts'
  BY <1>1 DEF Handset!Scanned, Handset!ScanProbed, Handset!HostPairs, Handset!PairingFailed, Handset!Tapped,
              HandsetHeld, HandsetHosts, HandsetScan
<1> DEFINE Scans == [of : Machines, seen : Handset!Lists, at : {"probe", "pair", "answer"},
                     found : Facts \cup {None}, token : Nat]
<1>4. ASSUME NEW m \in Machines, Handset!Scanned(m)
      PROVE  HandsetScan'
  <2>1. scan' = [of |-> m, seen |-> machines, at |-> "probe", found |-> None, token |-> 0]
    BY <1>4 DEF Handset!Scanned
  <2>2. machines \in Handset!Lists /\ HandsetTrue(machines)
    BY DEF HandsetHeld, HandsetList
  <2>3. scan' \in Scans /\ scan'.at = "probe" /\ scan'.seen = machines
    BY <2>1, <2>2
  <2> QED
    BY <1>1, <2>2, <2>3 DEF HandsetScan, HandsetTrue
<1>5. ASSUME Handset!ScanProbed
      PROVE  HandsetScan'
  <2>1. scan # None /\ scan \in Scans /\ HandsetTrue(scan.seen) /\ scan.of \in Machines
    BY <1>5 DEF Handset!ScanProbed, HandsetHeld, HandsetScan
  <2>2. hosts[scan.of] \in Facts \cup {None}
    BY <2>1 DEF HandsetHeld, HandsetHosts
  <2>3. CASE scan' = None
    BY <2>3 DEF HandsetScan
  <2>4. CASE hosts[scan.of] # None /\ scan' = [scan EXCEPT !.at = "pair", !.found = hosts[scan.of]]
    <3>1. scan' \in Scans /\ scan'.seen = scan.seen /\ scan'.found \in Facts
      BY <2>1, <2>2, <2>4
    <3> QED
      BY <1>1, <2>1, <3>1 DEF HandsetScan, HandsetTrue
  <2> QED
    BY <1>5, <2>3, <2>4 DEF Handset!ScanProbed
<1>6. ASSUME Handset!HostPairs
      PROVE  HandsetScan'
  <2>1. scan # None /\ scan \in Scans /\ HandsetTrue(scan.seen) /\ scan.at # "probe" /\ scan.found \in Facts
    BY <1>6 DEF Handset!HostPairs, HandsetHeld, HandsetScan
  <2>2. scan' = [scan EXCEPT !.at = "answer", !.token = taps] /\ taps \in Nat
    BY <1>6 DEF Handset!HostPairs, HandsetHeld, HandsetHosts
  <2>3. scan' \in Scans /\ scan'.seen = scan.seen /\ scan'.found \in Facts
    BY <2>1, <2>2
  <2> QED
    BY <1>1, <2>1, <2>3 DEF HandsetScan, HandsetTrue
<1>7. ASSUME Handset!PairingFailed
      PROVE  HandsetScan'
  BY <1>7 DEF Handset!PairingFailed, HandsetScan
<1> QED
  BY <1>2, <1>3, <1>4, <1>5, <1>6, <1>7 DEF HandsetHeld, HandsetScan

\* The list after a pairing: with the machine paired, by its new token.
LEMMA HandsetPairedList ==
  ASSUME HandsetHeld, scan # None, scan.at = "answer",
         NEW l, l = [m \in DOMAIN scan.seen \cup {scan.of} |->
                       IF m = scan.of THEN Handset!machineFromPairing ELSE scan.seen[m]]
  PROVE  /\ l \in Handset!Lists
         /\ Handset!TokensOf(scan.seen) = kept =>
              Handset!TokensOf(l) = [m \in DOMAIN kept \cup {scan.of} |-> IF m = scan.of THEN scan.token ELSE kept[m]]
<1>1. scan.of \in Machines /\ scan.seen \in Handset!Lists /\ scan.found \in Facts /\ scan.token \in Nat
  BY DEF HandsetHeld, HandsetScan
<1> DEFINE e == Handset!machineFromPairing
<1>2. e \in Handset!Entry /\ e.token = scan.token
  BY <1>1 DEF Handset!machineFromPairing, Handset!Entry
<1> HIDE DEF e
<1>3. DOMAIN scan.seen \subseteq Machines /\ scan.seen \in [DOMAIN scan.seen -> Handset!Entry]
  BY <1>1, HandsetListOf
<1>4. l = [m \in DOMAIN scan.seen \cup {scan.of} |-> IF m = scan.of THEN e ELSE scan.seen[m]]
  BY DEF e
<1>5. DOMAIN l = DOMAIN scan.seen \cup {scan.of} /\ l \in [DOMAIN l -> Handset!Entry] /\ DOMAIN l \subseteq Machines
  BY <1>1, <1>2, <1>3, <1>4
<1>6. l \in Handset!Lists
  BY <1>5, HandsetListOf
<1>7. \A m \in DOMAIN l : l[m].token = IF m = scan.of THEN scan.token ELSE scan.seen[m].token
  BY <1>2, <1>4
<1> QED
  BY <1>5, <1>6, <1>7 DEF Handset!TokensOf

\* Where a list of the kept is written with nothing else under way, the list is of the kept again.
LEMMA HandsetReplaced ==
  ASSUME HandsetHeld, NEW l \in Handset!Lists, Handset!persist(l, refreshes),
         met' \/ (~Handset!Checking /\ Handset!TokensOf(l) = kept')
  PROVE  HandsetList' /\ HandsetChecks(refreshes)'
<1>1. HandsetSounds(refreshes)
  BY DEF HandsetHeld, HandsetChecks, HandsetSounds
<1>2. machines' = l /\ HandsetSounds(refreshes')
      /\ \A s \in Handset!Slots : refreshes'[s] = refreshes[s] \/ refreshes'[s].seen = l
  BY <1>1, HandsetBegan DEF Handset!persist
<1>3. HandsetList'
  BY <1>2 DEF HandsetList, HandsetTrue
<1>4. \A s \in Handset!Slots : HandsetTrue(refreshes[s].seen)' \/ refreshes'[s] = None
  BY <1>2 DEF HandsetTrue, Handset!Checking
<1> QED
  BY <1>2, <1>3, <1>4 DEF HandsetChecks, HandsetSounds, HandsetSound

LEMMA HandsetPairedStep ==
  ASSUME HandsetHeld, Handset!Paired
  PROVE  HandsetHeld'
<1> DEFINE l == [m \in DOMAIN scan.seen \cup {scan.of} |->
                   IF m = scan.of THEN Handset!machineFromPairing ELSE scan.seen[m]]
           k == [m \in DOMAIN kept \cup {scan.of} |-> IF m = scan.of THEN scan.token ELSE kept[m]]
<1>1. /\ scan # None /\ scan.at = "answer" /\ Handset!persist(l, refreshes) /\ kept' = k
      /\ met' = (met \/ Handset!Checking \/ alert # None) /\ scan' = None /\ UNCHANGED <<hosts, granted, alert, taps>>
  BY DEF Handset!Paired, Handset!Overlaps
<1>2. l \in Handset!Lists /\ (Handset!TokensOf(scan.seen) = kept => Handset!TokensOf(l) = k)
  BY <1>1, HandsetPairedList
<1> HIDE DEF l, k
<1>3. met \/ Handset!TokensOf(scan.seen) = kept
  BY <1>1 DEF HandsetHeld, HandsetScan, HandsetTrue
<1>4. HandsetList' /\ HandsetChecks(refreshes)'
  BY <1>1, <1>2, <1>3, HandsetReplaced
<1>5. HandsetScan' /\ HandsetAlert' /\ HandsetHosts'
  BY <1>1 DEF HandsetHeld, HandsetScan, HandsetAlert, HandsetTrue, HandsetHosts
<1> QED
  BY <1>4, <1>5 DEF HandsetHeld

LEMMA HandsetForgottenStep ==
  ASSUME HandsetHeld, Handset!Forgotten
  PROVE  HandsetHeld'
<1> DEFINE l == Handset!Without(alert.seen, alert.of)
<1>1. /\ alert # None /\ ~alert.confirmed /\ Handset!persist(l, refreshes) /\ kept' = Handset!Without(kept, alert.of)
      /\ met' = (met \/ Handset!Checking \/ scan # None) /\ alert' = [alert EXCEPT !.confirmed = TRUE]
      /\ UNCHANGED <<hosts, granted, scan, taps>>
  BY DEF Handset!Forgotten, Handset!Overlaps
<1>2. alert.seen \in Handset!Lists /\ alert' \in [of : Machines, seen : Handset!Lists, confirmed : BOOLEAN]
      /\ alert'.confirmed /\ (met \/ Handset!TokensOf(alert.seen) = kept)
  BY <1>1 DEF HandsetHeld, HandsetAlert, HandsetTrue
<1>3. l \in Handset!Lists
  BY <1>2, HandsetListOf DEF Handset!Without
<1>4. Handset!TokensOf(alert.seen) = kept => Handset!TokensOf(l) = kept'
  BY <1>1 DEF Handset!TokensOf, Handset!Without
<1> HIDE DEF l
<1>5. HandsetList' /\ HandsetChecks(refreshes)'
  BY <1>1, <1>2, <1>3, <1>4, HandsetReplaced
<1>6. HandsetScan' /\ HandsetHosts'
  BY <1>1 DEF HandsetHeld, HandsetScan, HandsetTrue, HandsetHosts
<1>7. HandsetAlert'
  BY <1>2 DEF HandsetAlert
<1> QED
  BY <1>5, <1>6, <1>7 DEF HandsetHeld

\* The view of a machine that is listed: the question asked there is of a host.
LEMMA HandsetAskedStep ==
  ASSUME HandsetHeld, Handset!ForgetAsked \/ Handset!ForgetCancelled
  PROVE  HandsetHeld'
<1>1. UNCHANGED <<met, kept, machines, refreshes, scan, hosts, granted>> /\ taps' \in Nat
  BY DEF Handset!ForgetAsked, Handset!ForgetCancelled, Handset!Tapped, HandsetHeld, HandsetHosts
<1>2. HandsetList' /\ HandsetChecks(refreshes)' /\ HandsetScan' /\ HandsetHosts'
  BY <1>1 DEF HandsetHeld, HandsetList, HandsetChecks, HandsetScan, HandsetTrue, HandsetSound, HandsetHosts
<1>3. ASSUME Handset!ForgetAsked
      PROVE  HandsetAlert'
  <2>1. alert' = [of |-> view.of, seen |-> machines, confirmed |-> FALSE] /\ view.of \in DOMAIN machines
    BY <1>3 DEF Handset!ForgetAsked
  <2>2. machines \in Handset!Lists /\ HandsetTrue(machines) /\ DOMAIN machines \subseteq Machines
    BY HandsetListOf DEF HandsetHeld, HandsetList
  <2>3. alert' \in [of : Machines, seen : Handset!Lists, confirmed : BOOLEAN] /\ alert'.seen = machines
    BY <2>1, <2>2
  <2> QED
    BY <1>1, <2>2, <2>3 DEF HandsetAlert, HandsetTrue
<1>4. ASSUME Handset!ForgetCancelled
      PROVE  HandsetAlert'
  BY <1>4 DEF Handset!ForgetCancelled, HandsetAlert
<1> QED
  BY <1>2, <1>3, <1>4 DEF HandsetHeld

\* Other steps change neither a list nor what is kept.
LEMMA HandsetOtherStep ==
  ASSUME HandsetHeld,
         \/ Handset!ToScreen \/ Handset!ToRepo
         \/ \E n \in Handset!Streams : Handset!StreamEnded(n)
         \/ \E t \in timers : Handset!StreamRetried(t)
         \/ \E m \in Machines : Handset!HostChanges(m) \/ Handset!HostRevokes(m)
         \/ UNCHANGED handsetVars
  PROVE  HandsetHeld'
<1>1. UNCHANGED <<met, kept, machines, refreshes, scan, alert>>
  BY DEF Handset!ToScreen, Handset!ToRepo, Handset!StreamEnded, Handset!StreamRetried, Handset!HostChanges,
         Handset!HostRevokes, handsetVars
<1>2. HandsetList' /\ HandsetChecks(refreshes)' /\ HandsetScan' /\ HandsetAlert'
  BY <1>1 DEF HandsetHeld, HandsetList, HandsetChecks, HandsetScan, HandsetAlert, HandsetTrue, HandsetSound
<1>3. HandsetHosts'
  BY DEF Handset!ToScreen, Handset!ToRepo, Handset!StreamEnded, Handset!StreamRetried, Handset!HostChanges,
         Handset!HostRevokes, handsetVars, HandsetHeld, HandsetHosts, Handset!Tapped
<1> QED
  BY <1>2, <1>3 DEF HandsetHeld

\* An entry is as its host answers, unless that is out of reach or answers otherwise since.
HandsetAgrees(m) ==
  hosts[m] # None /\ m \notin changed =>
    /\ machines[m].lastGood = hosts[m].lastGood /\ machines[m].features = hosts[m].features
    /\ granted[m] = machines[m].token => machines[m].scopes = hosts[m].scopes
\* The newest check has found nothing to write where it was: a newer one would have begun.
HandsetNewest(c) ==
  /\ c # None /\ c.seen = machines /\ c.at # "features"
  /\ \A m \in DOMAIN machines \ c.left : HandsetAgrees(m)
  /\ c.at \in {"repos", "whoami"} =>
       /\ c.of \in changed \/ c.found = hosts[c.of]
       /\ machines[c.of].lastGood = c.found.lastGood /\ machines[c.of].features = c.found.features
HandsetConverging ==
  Handset!InView =>
    IF newest = None THEN \A m \in DOMAIN machines : HandsetAgrees(m)
                     ELSE newest \in Handset!Slots /\ HandsetNewest(refreshes[newest])

\* A check that begins has everything ahead.
LEMMA HandsetAhead ==
  ASSUME HandsetHeld, NEW others, HandsetSounds(others), NEW l \in Handset!Lists, machines' = l,
         Handset!refresh(l, others)
  PROVE  HandsetConverging'
<1>1. \/ DOMAIN l = {} /\ newest' = None
      \/ /\ newest' \in Handset!Slots /\ refreshes'[newest'] # None
         /\ refreshes'[newest'].seen = l /\ refreshes'[newest'].left = DOMAIN l
         /\ refreshes'[newest'].at = "probe"
  BY HandsetBegan
<1>2. None \notin Handset!Slots
  BY HandsetAssumption
<1> QED
  BY <1>1, <1>2 DEF HandsetConverging, HandsetNewest

\* Where a list is written, a check of it begins; out of view nothing is claimed.
LEMMA HandsetWritten ==
  ASSUME HandsetHeld, NEW others, HandsetSounds(others), NEW l \in Handset!Lists, Handset!persist(l, others),
         view' = view \/ (~Handset!InView /\ ~Handset!InView')
  PROVE  HandsetConverging'
<1>1. CASE Handset!InView
  BY <1>1, HandsetAhead DEF Handset!persist
<1>2. CASE ~Handset!InView
  <2>1. ~Handset!InView'
    BY <1>2 DEF Handset!InView
  <2> QED
    BY <2>1 DEF HandsetConverging
<1> QED
  BY <1>1, <1>2

\* Hosts change, and are noted.
LEMMA HandsetNoted ==
  ASSUME HandsetHeld, HandsetConverging, changed \subseteq changed', UNCHANGED <<machines, refreshes, newest, view>>,
         \A m \in Machines : m \in changed' \/ (hosts'[m] = hosts[m] /\ granted'[m] = granted[m])
  PROVE  HandsetConverging'
<1>1. \A m \in Machines : HandsetAgrees(m) => HandsetAgrees(m)'
  BY DEF HandsetAgrees
<1>2. DOMAIN machines \subseteq Machines
  BY HandsetListOf DEF HandsetHeld, HandsetList
<1>3. CASE Handset!InView /\ newest # None
  <2> DEFINE c == refreshes[newest]
  <2>1. newest \in Handset!Slots /\ HandsetNewest(c)
    BY <1>3 DEF HandsetConverging
  <2>2. c \in Handset!Check /\ (c.at \in {"repos", "whoami"} => c.of \in Machines)
    BY <2>1, HandsetCheckOf DEF HandsetNewest
  <2>3. HandsetNewest(refreshes[newest])'
    BY <1>1, <1>2, <2>1, <2>2 DEF HandsetNewest
  <2> QED
    BY <1>3, <2>1, <2>3 DEF HandsetConverging
<1>4. CASE ~(Handset!InView /\ newest # None)
  BY <1>1, <1>2, <1>4 DEF HandsetConverging, Handset!InView
<1> QED
  BY <1>3, <1>4

\* A check other than the newest goes on.
LEMMA HandsetElsewhere ==
  ASSUME HandsetConverging, NEW s \in Handset!Slots, newest # s \/ ~Handset!InView,
         UNCHANGED <<machines, newest, view, changed, hosts, granted>>,
         \A t \in Handset!Slots \ {s} : refreshes'[t] = refreshes[t]
  PROVE  HandsetConverging'
<1>1. \A m : HandsetAgrees(m) => HandsetAgrees(m)'
  BY DEF HandsetAgrees
<1>2. \A c : HandsetNewest(c) => HandsetNewest(c)'
  BY <1>1 DEF HandsetNewest
<1>3. CASE Handset!InView
  BY <1>1, <1>2, <1>3 DEF HandsetConverging, Handset!InView
<1>4. CASE ~Handset!InView
  BY <1>4 DEF HandsetConverging, Handset!InView
<1> QED
  BY <1>3, <1>4

\* The newest goes on, with c: it agrees on what it has passed, and is not past anything it did not find.
LEMMA HandsetOnwards ==
  ASSUME HandsetConverging, NEW s \in Handset!Slots, newest = s, NEW c, refreshes'[s] = c,
         UNCHANGED <<machines, view, changed, hosts, granted>>,
         newest' = IF c = None THEN None ELSE s,
         c = None => \A m \in DOMAIN machines : HandsetAgrees(m),
         c # None => HandsetNewest(c)
  PROVE  HandsetConverging'
<1>0. None \notin Handset!Slots
  BY HandsetAssumption
<1>1. \A m : HandsetAgrees(m) => HandsetAgrees(m)'
  BY DEF HandsetAgrees
<1>2. \A x : HandsetNewest(x) => HandsetNewest(x)'
  BY <1>1 DEF HandsetNewest
<1> QED
  BY <1>0, <1>1, <1>2 DEF HandsetConverging, Handset!InView

\* What the newest check is at.
LEMMA HandsetAt ==
  ASSUME HandsetHeld, HandsetConverging, Handset!InView, NEW s \in Handset!Slots, newest = s
  PROVE  /\ HandsetNewest(refreshes[s]) /\ refreshes[s].at \in {"probe", "repos", "whoami"}
         /\ refreshes[s] \in Handset!Check /\ refreshes[s].seen = machines
         /\ refreshes[s].left # {} /\ refreshes[s].left \subseteq DOMAIN machines
<1>1. newest # None /\ HandsetNewest(refreshes[s])
  BY HandsetAssumption DEF HandsetConverging
<1>2. refreshes[s] # None
  BY <1>1 DEF HandsetNewest
<1> QED
  BY <1>1, <1>2, HandsetCheckOf DEF HandsetNewest, Handset!Check

\* With the machine it is at passed, the newest check goes on to the next or is through.
LEMMA HandsetPasses ==
  ASSUME HandsetHeld, HandsetConverging, Handset!InView, NEW s \in Handset!Slots, newest = s,
         refreshes[s].at # "probe", HandsetAgrees(refreshes[s].of),
         Handset!PassedBy(s, Handset!Past(s)), UNCHANGED <<view, hosts, granted>>
  PROVE  HandsetConverging'
<1> DEFINE b == refreshes[s]
           left == b.left \ {b.of}
           n == [b EXCEPT !.left = left, !.of = None, !.at = "probe", !.found = None]
           c == IF left = {} THEN None ELSE n
<1>1. HandsetNewest(b) /\ b \in Handset!Check /\ b.seen = machines /\ b.left \subseteq DOMAIN machines
  BY HandsetAt
<1>2. Handset!Past(s)[s] = c /\ refreshes'[s] = c /\ newest' = (IF c = None THEN None ELSE s)
      /\ UNCHANGED <<machines, changed>>
  BY DEF Handset!Past, Handset!PassedBy, HandsetHeld, HandsetChecks
<1>3. left \subseteq DOMAIN machines /\ DOMAIN machines \subseteq Machines
  BY <1>1, HandsetListOf DEF HandsetHeld, HandsetList
<1>4. n \in Handset!Check /\ n.left = left /\ n.at = "probe" /\ n.seen = machines
  BY <1>1, <1>3 DEF Handset!Check
<1>5. n # None
  BY <1>4, HandsetAssumption
<1>6. \A m \in DOMAIN machines \ left : HandsetAgrees(m)
  BY <1>1 DEF HandsetNewest
<1>7. HandsetNewest(n)
  BY <1>4, <1>5, <1>6 DEF HandsetNewest
<1> HIDE DEF n, left
<1>8. (c = None => \A m \in DOMAIN machines : HandsetAgrees(m)) /\ (c # None => HandsetNewest(c))
  BY <1>5, <1>6, <1>7
<1> HIDE DEF c
<1> QED
  BY <1>2, <1>8, HandsetOnwards

\* The newest check is at another stage of its machine.
LEMMA HandsetStaged ==
  ASSUME HandsetHeld, HandsetConverging, Handset!InView, NEW s \in Handset!Slots, newest = s,
         NEW n, Handset!GoesOn([refreshes EXCEPT ![s] = n]), HandsetNewest(n), UNCHANGED <<view, hosts, granted>>
  PROVE  HandsetConverging'
<1>1. refreshes'[s] = n /\ newest' = s /\ UNCHANGED <<machines, changed>>
  BY DEF Handset!GoesOn, HandsetHeld, HandsetChecks
<1>2. n # None
  BY DEF HandsetNewest
<1> QED
  BY <1>1, <1>2, HandsetOnwards

\* Where one check goes on and nothing is written.
LEMMA HandsetAside ==
  ASSUME HandsetHeld, HandsetConverging, NEW s \in Handset!Slots, newest # s \/ ~Handset!InView, NEW c,
         \/ Handset!GoesOn([refreshes EXCEPT ![s] = c])
         \/ Handset!PassedBy(s, [refreshes EXCEPT ![s] = c]),
         UNCHANGED <<view, hosts, granted>>
  PROVE  HandsetConverging'
<1>1. UNCHANGED <<machines, changed>> /\ \A t \in Handset!Slots \ {s} : refreshes'[t] = refreshes[t]
  BY DEF Handset!GoesOn, Handset!PassedBy, HandsetHeld, HandsetChecks
<1>2. newest' = newest \/ (~Handset!InView /\ ~Handset!InView')
  BY DEF Handset!GoesOn, Handset!PassedBy, Handset!InView
<1>3. CASE newest' = newest
  BY <1>1, <1>3, HandsetElsewhere
<1>4. CASE ~Handset!InView'
  BY <1>4 DEF HandsetConverging
<1> QED
  BY <1>2, <1>3, <1>4

\* The features compared, beside others that are s at another stage, n.
LEMMA HandsetCompared ==
  ASSUME HandsetHeld, HandsetConverging, NEW s \in Handset!Slots, refreshes[s] # None,
         NEW m \in DOMAIN refreshes[s].seen, NEW f \in Facts, NEW n, HandsetChecks([refreshes EXCEPT ![s] = n]),
         Handset!CompareFeatures(s, m, f.features, [refreshes EXCEPT ![s] = n]), UNCHANGED <<view, hosts, granted>>,
         Handset!InView /\ newest = s /\ f.features = refreshes[s].seen[m].features => HandsetNewest(n)
  PROVE  HandsetConverging'
<1> DEFINE others == [refreshes EXCEPT ![s] = n]
<1>1. HandsetSounds(others)
  BY DEF HandsetChecks, HandsetSounds
<1>2. CASE f.features # refreshes[s].seen[m].features
  <2> DEFINE p == Handset!updated(s, m, "features", f.features)
  <2>1. Handset!persist(p, others) /\ p \in Handset!Lists
    BY <1>2, HandsetWrites DEF Handset!CompareFeatures
  <2> HIDE DEF p, others
  <2> QED
    BY <1>1, <2>1, HandsetWritten
<1>3. CASE f.features = refreshes[s].seen[m].features
  <2>1. Handset!GoesOn(others)
    BY <1>3 DEF Handset!CompareFeatures
  <2>2. CASE Handset!InView /\ newest = s
    BY <1>3, <2>1, <2>2, HandsetStaged
  <2>3. CASE ~Handset!InView \/ newest # s
    BY <2>1, <2>3, HandsetAside
  <2> QED
    BY <2>2, <2>3
<1> QED
  BY <1>2, <1>3

LEMMA HandsetProbeConverges ==
  ASSUME HandsetHeld, HandsetConverging, NEW s \in Handset!Slots, Handset!ProbeAnswered(s)
  PROVE  HandsetConverging'
<1> DEFINE b == refreshes[s]
<1>1. b # None /\ b.at = "probe" /\ UNCHANGED <<view, hosts, granted>>
  BY DEF Handset!ProbeAnswered
<1>2. b \in Handset!Check /\ b.left \subseteq DOMAIN b.seen /\ b.left \subseteq Machines /\ b.seen \in Handset!Lists
      /\ HandsetChecks(refreshes)
  BY <1>1, HandsetCheckOf, HandsetListOf
<1>3. PICK m \in b.left :
        LET c == [b EXCEPT !.of = m, !.found = hosts[m]]
        IN IF hosts[m] = None
             THEN Handset!PassedBy(s, LET left == c.left \ {m}
                                      IN [refreshes EXCEPT ![s] = IF left = {} THEN None ELSE [@ EXCEPT !.left = left]])
           ELSE IF hosts[m].lastGood # c.seen[m].lastGood
             THEN Handset!persist(Handset!updated(s, m, "lastGood", hosts[m].lastGood),
                                  [refreshes EXCEPT ![s] = [c EXCEPT !.at = "features"]])
           ELSE Handset!CompareFeatures(s, m, hosts[m].features, [refreshes EXCEPT ![s] = [c EXCEPT !.at = "repos"]])
  BY DEF Handset!ProbeAnswered
<1>4. m \in DOMAIN b.seen /\ m \in Machines /\ (hosts[m] # None => hosts[m] \in Facts)
  BY <1>2 DEF HandsetHeld, HandsetHosts
<1>5. CASE hosts[m] = None
  <2> DEFINE left == b.left \ {m}
             n == [b EXCEPT !.left = left]
             e == IF left = {} THEN None ELSE n
  <2>1. Handset!PassedBy(s, [refreshes EXCEPT ![s] = e])
    BY <1>3, <1>5, <1>2 DEF HandsetChecks, Handset!Check
  <2>2. n \in Handset!Check /\ n.left = left /\ n.at = "probe" /\ n.seen = b.seen
    BY <1>1, <1>2 DEF Handset!Check
  <2>3. n # None
    BY <2>2, HandsetAssumption
  <2> HIDE DEF n
  <2>4. CASE ~Handset!InView \/ newest # s
    <3> HIDE DEF e
    <3> QED
      BY <1>1, <2>1, <2>4, HandsetAside
  <2>5. CASE Handset!InView /\ newest = s
    <3>1. HandsetNewest(b) /\ b.seen = machines
      BY <2>5, HandsetAt
    <3>2. \A x \in DOMAIN machines \ left : HandsetAgrees(x)
      BY <1>5, <3>1 DEF HandsetNewest, HandsetAgrees
    <3>3. HandsetNewest(n)
      BY <2>2, <2>3, <3>1, <3>2 DEF HandsetNewest
    <3>4. refreshes'[s] = e /\ newest' = (IF e = None THEN None ELSE s) /\ UNCHANGED <<machines, changed>>
      BY <2>1, <2>5 DEF Handset!PassedBy, HandsetHeld, HandsetChecks
    <3>5. (e = None => \A x \in DOMAIN machines : HandsetAgrees(x)) /\ (e # None => HandsetNewest(e))
      BY <2>3, <3>2, <3>3
    <3> HIDE DEF e
    <3> QED
      BY <1>1, <2>5, <3>4, <3>5, HandsetOnwards
  <2> QED
    BY <2>4, <2>5
<1>6. CASE hosts[m] # None
  <2> DEFINE n(stage) == [[b EXCEPT !.of = m, !.found = hosts[m]] EXCEPT !.at = stage]
  <2>1. ASSUME NEW stage \in {"features", "repos"}
        PROVE  /\ HandsetChecks([refreshes EXCEPT ![s] = n(stage)])
               /\ n(stage).at = stage /\ n(stage).seen = b.seen /\ n(stage).left = b.left /\ n(stage).of = m
               /\ n(stage).found = hosts[m] /\ n(stage) \in Handset!Check
    <3> DEFINE k == n(stage)
    <3>1. k \in Handset!Check /\ k.left = b.left /\ k.at = stage /\ k.seen = b.seen /\ k.of = m /\ k.found = hosts[m]
      BY <1>2, <1>4, <1>6 DEF Handset!Check
    <3>2. HandsetSound(k)
      BY <1>2, <1>4, <1>6, <3>1 DEF HandsetSound
    <3> HIDE DEF k
    <3>3. HandsetChecks([refreshes EXCEPT ![s] = k])
      BY <1>1, <1>2, <3>1, <3>2, HandsetOne
    <3> QED
      BY <3>1, <3>3 DEF k
  <2>2. CASE Handset!persist(Handset!updated(s, m, "lastGood", hosts[m].lastGood),
                             [refreshes EXCEPT ![s] = n("features")])
    <3> DEFINE p == Handset!updated(s, m, "lastGood", hosts[m].lastGood)
               others == [refreshes EXCEPT ![s] = n("features")]
    <3>1. p \in Handset!Lists
      BY <1>1, <1>4, <1>6, HandsetWrites
    <3>2. HandsetSounds(others) /\ Handset!persist(p, others)
      BY <2>1, <2>2 DEF HandsetChecks, HandsetSounds
    <3> HIDE DEF p, others
    <3> QED
      BY <1>1, <3>1, <3>2, HandsetWritten
  <2>3. CASE hosts[m].lastGood = b.seen[m].lastGood
             /\ Handset!CompareFeatures(s, m, hosts[m].features, [refreshes EXCEPT ![s] = n("repos")])
    <3> DEFINE k == n("repos")
    <3>1. k.at = "repos" /\ k.seen = b.seen /\ k.left = b.left /\ k.of = m /\ k.found = hosts[m]
          /\ k \in Handset!Check /\ HandsetChecks([refreshes EXCEPT ![s] = k])
      BY <2>1
    <3>2. k # None
      BY <3>1, HandsetAssumption
    <3> HIDE DEF k
    <3>3. Handset!InView /\ newest = s /\ hosts[m].features = b.seen[m].features => HandsetNewest(k)
      BY <2>3, <3>1, <3>2, HandsetAt DEF HandsetNewest
    <3>4. Handset!CompareFeatures(s, m, hosts[m].features, [refreshes EXCEPT ![s] = k])
      BY <2>3 DEF k
    <3> QED
      BY <1>1, <1>4, <1>6, <3>1, <3>3, <3>4, HandsetCompared
  <2> QED
    BY <1>3, <1>6, <2>2, <2>3
<1> QED
  BY <1>5, <1>6

LEMMA HandsetAddressConverges ==
  ASSUME HandsetHeld, HandsetConverging, NEW s \in Handset!Slots, Handset!AddressWritten(s)
  PROVE  HandsetConverging'
<1> DEFINE n == [refreshes[s] EXCEPT !.at = "repos"]
           m == refreshes[s].of
           f == refreshes[s].found
<1>1. refreshes[s] # None /\ refreshes[s].at = "features" /\ UNCHANGED <<view, hosts, granted>>
      /\ Handset!CompareFeatures(s, m, f.features, [refreshes EXCEPT ![s].at = "repos"])
  BY DEF Handset!AddressWritten
<1>2. HandsetChecks([refreshes EXCEPT ![s].at = "repos"])
  BY <1>1, HandsetStage
<1>3. [refreshes EXCEPT ![s].at = "repos"] = [refreshes EXCEPT ![s] = n]
  BY DEF HandsetHeld, HandsetChecks
<1>4. m \in DOMAIN refreshes[s].seen /\ f \in Facts
  BY <1>1, HandsetCheckOf
<1>5. ~(Handset!InView /\ newest = s)
  BY <1>1, HandsetAt
<1>6. HandsetChecks([refreshes EXCEPT ![s] = n])
      /\ Handset!CompareFeatures(s, m, f.features, [refreshes EXCEPT ![s] = n])
  BY <1>1, <1>2, <1>3
<1> HIDE DEF n, m, f
<1> QED
  BY <1>1, <1>4, <1>5, <1>6, HandsetCompared DEF m

\* Nothing is left to write where the newest check is at, if an answer to it that matters is not the host's.
LEMMA HandsetLeft ==
  ASSUME HandsetHeld, HandsetConverging, Handset!InView, NEW s \in Handset!Slots, newest = s,
         refreshes[s].at \in {"repos", "whoami"}, NEW ok \in Handset!Answers(refreshes[s].of, refreshes[s].found.lastGood),
         ok /\ granted[refreshes[s].of] = refreshes[s].seen[refreshes[s].of].token
           => hosts[refreshes[s].of].scopes = refreshes[s].seen[refreshes[s].of].scopes
  PROVE  HandsetAgrees(refreshes[s].of)
<1>1. HandsetNewest(refreshes[s]) /\ refreshes[s].seen = machines
  BY HandsetAt
<1> QED
  BY <1>1 DEF HandsetNewest, HandsetAgrees, Handset!Answers

LEMMA HandsetReposConverges ==
  ASSUME HandsetHeld, HandsetConverging, NEW s \in Handset!Slots, Handset!ReposAnswered(s)
  PROVE  HandsetConverging'
<1> DEFINE b == refreshes[s]
           n == [b EXCEPT !.at = "whoami"]
<1>1. b # None /\ b.at = "repos" /\ UNCHANGED <<view, hosts, granted>>
  BY DEF Handset!ReposAnswered
<1>2. PICK ok \in Handset!Answers(b.of, b.found.lastGood) :
        IF ok /\ granted[b.of] = b.seen[b.of].token
          THEN Handset!GoesOn([refreshes EXCEPT ![s].at = "whoami"])
          ELSE Handset!PassedBy(s, Handset!Past(s))
  BY DEF Handset!ReposAnswered
<1>3. [refreshes EXCEPT ![s].at = "whoami"] = [refreshes EXCEPT ![s] = n]
  BY DEF HandsetHeld, HandsetChecks
<1>4. CASE ~Handset!InView \/ newest # s
  <2>1. PICK c : Handset!Past(s) = [refreshes EXCEPT ![s] = c]
    BY DEF Handset!Past
  <2>2. Handset!GoesOn([refreshes EXCEPT ![s] = n]) \/ Handset!PassedBy(s, [refreshes EXCEPT ![s] = c])
    BY <1>2, <1>3, <2>1
  <2>3. \E x : Handset!GoesOn([refreshes EXCEPT ![s] = x]) \/ Handset!PassedBy(s, [refreshes EXCEPT ![s] = x])
    BY <2>2
  <2> HIDE DEF n, b
  <2> QED
    BY <1>1, <1>4, <2>3, HandsetAside
<1>5. CASE Handset!InView /\ newest = s
  <2>1. HandsetNewest(b) /\ b \in Handset!Check
    BY <1>5, HandsetAt
  <2>2. CASE ok /\ granted[b.of] = b.seen[b.of].token
    <3>1. n \in Handset!Check /\ n.left = b.left /\ n.at = "whoami" /\ n.seen = b.seen /\ n.of = b.of /\ n.found = b.found
      BY <2>1 DEF Handset!Check
    <3>2. n # None
      BY <3>1, HandsetAssumption
    <3> HIDE DEF n
    <3>3. HandsetNewest(n)
      BY <1>1, <2>1, <3>1, <3>2 DEF HandsetNewest
    <3> QED
      BY <1>1, <1>2, <1>3, <1>5, <2>2, <3>3, HandsetStaged
  <2>3. CASE ~(ok /\ granted[b.of] = b.seen[b.of].token)
    <3>1. HandsetAgrees(b.of)
      BY <1>1, <1>5, <2>3, HandsetLeft
    <3> QED
      BY <1>1, <1>2, <1>5, <2>3, <3>1, HandsetPasses
  <2> QED
    BY <2>2, <2>3
<1> QED
  BY <1>4, <1>5

LEMMA HandsetWhoamiConverges ==
  ASSUME HandsetHeld, HandsetConverging, NEW s \in Handset!Slots, Handset!WhoamiAnswered(s)
  PROVE  HandsetConverging'
<1> DEFINE b == refreshes[s]
           others == Handset!Past(s)
<1>1. b # None /\ b.at = "whoami" /\ UNCHANGED <<view, hosts, granted>>
  BY DEF Handset!WhoamiAnswered
<1>2. PICK ok \in Handset!Answers(b.of, b.found.lastGood) :
        IF ok /\ granted[b.of] = b.seen[b.of].token /\ hosts[b.of].scopes # b.seen[b.of].scopes
          THEN Handset!persist(Handset!updated(s, b.of, "scopes", hosts[b.of].scopes), others)
          ELSE Handset!PassedBy(s, others)
  BY DEF Handset!WhoamiAnswered
<1>3. CASE ok /\ granted[b.of] = b.seen[b.of].token /\ hosts[b.of].scopes # b.seen[b.of].scopes
  <2>1. b.of \in DOMAIN b.seen /\ b.of \in Machines
    BY <1>1, HandsetCheckOf
  <2>2. hosts[b.of] \in Facts
    BY <1>2, <1>3, <2>1 DEF HandsetHeld, HandsetHosts, Handset!Answers
  <2> DEFINE p == Handset!updated(s, b.of, "scopes", hosts[b.of].scopes)
  <2>3. p \in Handset!Lists /\ Handset!persist(p, others)
    BY <1>1, <1>2, <1>3, <2>1, <2>2, HandsetWrites
  <2>4. HandsetSounds(others)
    BY <1>1, HandsetPast DEF HandsetChecks, HandsetSounds
  <2> HIDE DEF p, others
  <2> QED
    BY <1>1, <2>3, <2>4, HandsetWritten
<1>4. CASE ~(ok /\ granted[b.of] = b.seen[b.of].token /\ hosts[b.of].scopes # b.seen[b.of].scopes)
  <2>1. Handset!PassedBy(s, others)
    BY <1>2, <1>4
  <2>2. CASE ~Handset!InView \/ newest # s
    <3>1. PICK c : others = [refreshes EXCEPT ![s] = c]
      BY DEF Handset!Past
    <3> QED
      BY <1>1, <2>1, <2>2, <3>1, HandsetAside
  <2>3. CASE Handset!InView /\ newest = s
    <3>1. HandsetAgrees(b.of)
      BY <1>1, <1>4, <2>3, HandsetLeft
    <3> QED
      BY <1>1, <2>1, <2>3, <3>1, HandsetPasses
  <2> QED
    BY <2>2, <2>3
<1> QED
  BY <1>3, <1>4

\* Steps that begin a check of the list there is.
LEMMA HandsetBeginConverges ==
  ASSUME HandsetHeld, Handset!Pulled \/ Handset!ToMachines \/ Handset!Restarted
  PROVE  HandsetConverging'
<1> DEFINE none == [s \in Handset!Slots |-> None]
<1>1. machines' = machines /\ (Handset!refresh(machines, refreshes) \/ Handset!refresh(machines, none))
  BY DEF Handset!Pulled, Handset!ToMachines, Handset!Restarted
<1>2. HandsetSounds(none) /\ HandsetSounds(refreshes) /\ machines \in Handset!Lists
  BY DEF HandsetHeld, HandsetList, HandsetChecks, HandsetSounds, HandsetSound
<1> HIDE DEF none
<1> QED
  BY <1>1, <1>2, HandsetAhead

\* Steps that write a list of their own.
LEMMA HandsetListConverges ==
  ASSUME HandsetHeld, Handset!Paired \/ Handset!Forgotten
  PROVE  HandsetConverging'
<1>1. HandsetSounds(refreshes)
  BY DEF HandsetHeld, HandsetChecks, HandsetSounds
<1>2. CASE Handset!Paired
  <2> DEFINE l == [m \in DOMAIN scan.seen \cup {scan.of} |->
                     IF m = scan.of THEN Handset!machineFromPairing ELSE scan.seen[m]]
  <2>1. scan # None /\ scan.at = "answer" /\ Handset!persist(l, refreshes)
    BY <1>2 DEF Handset!Paired
  <2>2. l \in Handset!Lists
    BY <2>1, HandsetPairedList
  <2>3. view' = view \/ (~Handset!InView /\ ~Handset!InView')
    BY <1>2 DEF Handset!Paired, Handset!InView, Handset!At
  <2> HIDE DEF l
  <2> QED
    BY <1>1, <2>1, <2>2, <2>3, HandsetWritten
<1>3. CASE Handset!Forgotten
  <2> DEFINE l == Handset!Without(alert.seen, alert.of)
  <2>1. alert # None /\ Handset!persist(l, refreshes) /\ view' = view
    BY <1>3 DEF Handset!Forgotten
  <2>2. alert.seen \in Handset!Lists
    BY <2>1 DEF HandsetHeld, HandsetAlert
  <2>3. l \in Handset!Lists
    BY <2>2, HandsetListOf DEF Handset!Without
  <2> HIDE DEF l
  <2> QED
    BY <1>1, <2>1, <2>3, HandsetWritten
<1> QED
  BY <1>2, <1>3

\* Steps that write none and begin none.
LEMMA HandsetOtherConverges ==
  ASSUME HandsetHeld, HandsetConverging,
         \/ \E m \in Machines : Handset!Scanned(m) \/ Handset!HostChanges(m) \/ Handset!HostRevokes(m)
         \/ Handset!ScanProbed \/ Handset!HostPairs \/ Handset!PairingFailed
         \/ Handset!ForgetAsked \/ Handset!ForgetCancelled \/ Handset!ToScreen \/ Handset!ToRepo
         \/ \E n \in Handset!Streams : Handset!StreamEnded(n)
         \/ \E t \in timers : Handset!StreamRetried(t)
         \/ UNCHANGED handsetVars
  PROVE  HandsetConverging'
<1>1. CASE Handset!ToScreen \/ Handset!ToRepo
  BY <1>1 DEF Handset!ToScreen, Handset!ToRepo, HandsetConverging, Handset!InView, Handset!At
<1>2. CASE ~(Handset!ToScreen \/ Handset!ToRepo)
  <2>1. changed \subseteq changed' /\ UNCHANGED <<machines, refreshes, newest, view>>
    BY <1>2 DEF Handset!Scanned, Handset!HostChanges, Handset!HostRevokes, Handset!ScanProbed, Handset!HostPairs,
                Handset!PairingFailed, Handset!ForgetAsked, Handset!ForgetCancelled, Handset!StreamEnded,
                Handset!StreamRetried, handsetVars
  <2>2. ASSUME NEW x \in Machines
        PROVE  x \in changed' \/ (hosts'[x] = hosts[x] /\ granted'[x] = granted[x])
    <3>1. ASSUME NEW m \in Machines, Handset!HostChanges(m) \/ Handset!HostRevokes(m)
          PROVE  x \in changed' \/ (hosts'[x] = hosts[x] /\ granted'[x] = granted[x])
      BY <3>1 DEF Handset!HostChanges, Handset!HostRevokes, HandsetHeld, HandsetHosts
    <3>2. ASSUME Handset!HostPairs
          PROVE  x \in changed' \/ (hosts'[x] = hosts[x] /\ granted'[x] = granted[x])
      BY <3>2 DEF Handset!HostPairs, HandsetHeld, HandsetHosts
    <3>3. CASE UNCHANGED <<hosts, granted>>
      BY <3>3
    <3> QED
      BY <1>2, <3>1, <3>2, <3>3 DEF Handset!Scanned, Handset!ScanProbed, Handset!PairingFailed,
         Handset!ForgetAsked, Handset!ForgetCancelled, Handset!StreamEnded, Handset!StreamRetried, handsetVars
  <2> QED
    BY <2>1, <2>2, HandsetNoted
<1> QED
  BY <1>1, <1>2

\* The invariant of the handset, from its start on.
HandsetInv == HandsetHeld /\ HandsetConverging

LEMMA HandsetStart ==
  ASSUME Handset!Init
  PROVE  HandsetInv
<1>1. machines \in Handset!Lists /\ Handset!TokensOf(machines) = kept /\ DOMAIN machines = {}
  BY HandsetListOf DEF Handset!Init, Handset!Nothing, Handset!TokensOf
<1>2. HandsetHosts /\ HandsetScan /\ HandsetAlert
  BY DEF Handset!Init, HandsetHosts, HandsetScan, HandsetAlert
<1>3. HandsetChecks(refreshes)
  BY DEF Handset!Init, HandsetChecks, HandsetSound
<1>4. HandsetConverging
  BY <1>1 DEF Handset!Init, HandsetConverging
<1> QED
  BY <1>1, <1>2, <1>3, <1>4 DEF HandsetInv, HandsetHeld, HandsetList, HandsetTrue

LEMMA HandsetStep == HandsetInv /\ [Handset!Next]_handsetVars => HandsetInv'
<1> SUFFICES ASSUME HandsetHeld, HandsetConverging, [Handset!Next]_handsetVars
             PROVE  HandsetHeld' /\ HandsetConverging'
  BY DEF HandsetInv
<1>1. ASSUME NEW s \in Handset!Slots, Handset!ProbeAnswered(s) \/ Handset!AddressWritten(s)
                                      \/ Handset!ReposAnswered(s) \/ Handset!WhoamiAnswered(s)
      PROVE  HandsetHeld' /\ HandsetConverging'
  <2>1. HandsetHeld'
    BY <1>1, HandsetProbeStep, HandsetAddressStep, HandsetReposStep, HandsetWhoamiStep
  <2>2. HandsetConverging'
    BY <1>1, HandsetProbeConverges, HandsetAddressConverges, HandsetReposConverges, HandsetWhoamiConverges
  <2> QED
    BY <2>1, <2>2
<1>2. CASE Handset!Pulled \/ Handset!ToMachines \/ Handset!Restarted
  BY <1>2, HandsetBeginStep, HandsetBeginConverges
<1>3. CASE Handset!Paired
  BY <1>3, HandsetPairedStep, HandsetListConverges
<1>4. CASE Handset!Forgotten
  BY <1>4, HandsetForgottenStep, HandsetListConverges
<1>5. CASE Handset!ScanProbed \/ Handset!HostPairs \/ Handset!PairingFailed
           \/ \E m \in Machines : Handset!Scanned(m)
  BY <1>5, HandsetScanStep, HandsetOtherConverges
<1>6. CASE Handset!ForgetAsked \/ Handset!ForgetCancelled
  BY <1>6, HandsetAskedStep, HandsetOtherConverges
<1>7. CASE Handset!ToScreen \/ Handset!ToRepo
  BY <1>7, HandsetOtherStep, HandsetOtherConverges
<1>8. CASE (\E n \in Handset!Streams : Handset!StreamEnded(n)) \/ (\E t \in timers : Handset!StreamRetried(t))
  BY <1>8, HandsetOtherStep, HandsetOtherConverges
<1>9. CASE (\E m \in Machines : Handset!HostChanges(m) \/ Handset!HostRevokes(m)) \/ UNCHANGED handsetVars
  BY <1>9, HandsetOtherStep, HandsetOtherConverges
<1> QED
  BY <1>1, <1>2, <1>3, <1>4, <1>5, <1>6, <1>7, <1>8, <1>9 DEF Handset!Next

\* What the invariant says of the list in view and of the checks.
LEMMA HandsetKeeps ==
  ASSUME HandsetInv
  PROVE  Handset!MachinesAreKept
<1>1. Handset!NoneIsLost
  BY DEF HandsetInv, HandsetHeld, HandsetList, HandsetTrue, Handset!NoneIsLost
<1>2. Handset!ChecksConverge
  <2> SUFFICES ASSUME Handset!InView, ~Handset!Checking
               PROVE  \A m \in DOMAIN machines : HandsetAgrees(m)
    BY DEF Handset!ChecksConverge, HandsetAgrees
  <2>1. newest = None
    BY DEF HandsetInv, HandsetConverging, HandsetNewest, Handset!Checking
  <2> QED
    BY <2>1 DEF HandsetInv, HandsetConverging
<1> QED
  BY <1>1, <1>2 DEF Handset!MachinesAreKept

\* The list a phone keeps loses no machine and brings none back unless two changes met, and shows what the hosts
\* answer once its checks are through (AppState, MachinesScreen).
THEOREM MachinesKept == SideBySide => []MachinesAreKept
<1>1. Start => HandsetInv
  BY HandsetStart DEF Start
<1>2. HandsetInv /\ [Step]_<<focus, windowVars, shellVars, dockVars, toolsVars, accountsVars, updaterVars,
                            serverVars, phoneVars, reviewVars, handsetVars>> => HandsetInv'
  <2>1. [Step]_<<focus, windowVars, shellVars, dockVars, toolsVars, accountsVars, updaterVars, serverVars, phoneVars,
                 reviewVars, handsetVars>> => [Handset!Next]_handsetVars
    BY DEF Step
  <2> QED
    BY <2>1, HandsetStep
<1>3. HandsetInv => MachinesAreKept
  BY HandsetKeeps DEF MachinesAreKept
<1> QED
  BY <1>1, <1>2, <1>3, PTL DEF SideBySide

\* The phone's diffs and its machines.
THEOREM PhonesAreSound == SideBySide => []PhoneIsSound
BY CachesAreSound, MachinesKept, PTL DEF PhoneIsSound
=============================================================================
