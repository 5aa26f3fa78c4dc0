------------------------------ MODULE TabStack ------------------------------
(***************************************************************************)
(* The project shell's tabs (frontend/src/state/useTabStack.ts): the stack *)
(* and its active tab, the address bar two effects of AppShell.tsx keep in *)
(* step with it, and the copy that a PUT after every change leaves on the  *)
(* server for the next launch.                                             *)
(***************************************************************************)
EXTENDS Naturals, Sequences, SequencesExt

CONSTANTS
    None,
    Pages,          \* the tabs there can be; each has one path
    Dashboard,      \* the one that is never closed
    Untitled,       \* those opened without a title
    MaxMoves,       \* bound: clicks and steps through the history
    MaxLost         \* bound: PUTs that fail

VARIABLES
    stack, activeTab, loaded,
    url, past, future,  \* the browser's history: the page, before and after it
    syncing,            \* syncingRef
    due,                \* the effect the last render left to run
    title,              \* readers that wait for a title: the tab active then
    stored,             \* what the server has, and the PUT it came with
    saving, persisted,  \* the PUTs in flight, and how many there were
    stale,              \* history: the last PUT named a tab no longer active
    skipped,            \* history: an effect left the address bar behind
    moves, failed

stackVars == <<stack, activeTab, loaded, url, past, future, syncing, due,
    title, stored, saving, persisted, stale, skipped, moves, failed>>
history == <<url, past, future>>
server == <<stored, failed>>

TypeOK ==
    /\ stack \in Seq(Pages) /\ IsInjective(stack)
    /\ activeTab \in ToSet(stack) \cup {None} /\ loaded \in BOOLEAN
    /\ url \in Pages /\ past \in Seq(Pages) /\ future \in Seq(Pages)
    /\ syncing \in {"none", "fromUrl", "fromState"}
    /\ due \in {"none", "toUrl", "fromUrl"}
    /\ title \in [Untitled -> Pages \cup {None}]
    /\ stored.put \in 0 .. persisted /\ \A p \in saving : p.put \in 1 .. persisted
    /\ \A s \in saving \cup {stored} :
          s.stack \in Seq(Pages) /\ s.active \in Pages \cup {None}
    /\ stale \in BOOLEAN /\ skipped \in BOOLEAN
    /\ loaded => Dashboard \in ToSet(stack)

\* A new project has no stack; a launch opens any page.
Init ==
    /\ \E s \in {<<>>, <<Dashboard>>} \cup {<<Dashboard, p>> : p \in Pages \ {Dashboard}} :
          stored = [stack |-> s, active |-> IF s = <<>> THEN None ELSE Last(s),
                    put |-> 0]
    /\ url \in Pages /\ past = <<>> /\ future = <<>>
    /\ stack = <<>> /\ activeTab = None /\ loaded = FALSE
    /\ syncing = "none" /\ due = "none"
    /\ title = [r \in Untitled |-> None]
    /\ saving = {} /\ persisted = 0
    /\ stale = FALSE /\ skipped = FALSE /\ moves = 0 /\ failed = 0

-----------------------------------------------------------------------------

\* persist: the PUT is not awaited, and nothing looks at how it ends.
Persist(s, a) ==
    /\ saving' = saving \cup {[stack |-> s, active |-> a, put |-> persisted + 1]}
    /\ persisted' = persisted + 1 /\ stale' = FALSE

\* Untitled that mount without a title ask for it, and keep the tab that is
\* active as they do.
Mounted(rs, a) == [r \in Untitled |-> IF r \in rs THEN a ELSE title[r]]

With(s, p) == IF p \in ToSet(s) THEN s ELSE Append(s, p)

openTab(p) ==
    /\ stack' = With(stack, p) /\ activeTab' = p
    /\ Persist(With(stack, p), p)

activateTab(p) ==
    /\ activeTab' = p /\ Persist(stack, p)
    /\ UNCHANGED <<stack, title>>

\* The render that a change of the active tab leads to runs the effect that
\* pushes its path.
Rendered == due' = IF activeTab' = activeTab THEN "none" ELSE "toUrl"

Move ==
    /\ loaded /\ due = "none"
    /\ moves < MaxMoves /\ moves' = moves + 1

\* A paper opened from a list comes with its title, one from a citation not.
OpenTab(p) ==
    /\ Move /\ openTab(p) /\ Rendered
    /\ \E rs \in SUBSET ((Untitled \cap {p}) \ ToSet(stack)) :
          title' = Mounted(rs, p)
    /\ UNCHANGED <<loaded, history, syncing, server, skipped>>

ActivateTab(p) ==
    /\ Move /\ p \in ToSet(stack)
    /\ activateTab(p) /\ Rendered
    /\ UNCHANGED <<loaded, history, syncing, server, skipped>>

\* A stack without some tabs: they unmount, and the last one left is active
\* if the active one is gone.
Close(next, nextActive) ==
    /\ stack' = next /\ activeTab' = nextActive
    /\ Persist(next, nextActive)
    /\ title' = [r \in Untitled |-> IF r \in ToSet(next) THEN title[r] ELSE None]
    /\ Rendered
    /\ UNCHANGED <<loaded, history, syncing, server, skipped>>

\* Mutant: what is stored still names the tab that was closed.
CloseTab_KeepActive(p) ==
    LET next == Remove(stack, p)
        nextActive == IF activeTab = p THEN Last(next) ELSE activeTab
    IN  /\ Move /\ p \in ToSet(stack) \ {Dashboard}
        /\ stack' = next /\ activeTab' = nextActive
        /\ Persist(next, activeTab)
        /\ title' = [r \in Untitled |-> IF r = p THEN None ELSE title[r]]
        /\ Rendered
        /\ UNCHANGED <<loaded, history, syncing, server, skipped>>

CloseTab(p) ==
    LET next == Remove(stack, p)
    IN  /\ Move /\ p \in ToSet(stack) \ {Dashboard}
        /\ Close(next, IF activeTab = p THEN Last(next) ELSE activeTab)

CloseAllTabs == Move /\ Len(stack) > 1 /\ Close(<<Dashboard>>, Dashboard)

\* reorderTab: p to the place before q, or to the end.
ReorderTab(p, q) ==
    LET rest == Remove(stack, p)
        next == IF q = None THEN Append(rest, p)
                ELSE InsertAt(rest, CHOOSE i \in DOMAIN rest : rest[i] = q, p)
    IN  /\ Move /\ p \in ToSet(stack) /\ q \in (ToSet(stack) \ {p}) \cup {None}
        /\ stack' = next /\ Persist(next, activeTab)
        /\ UNCHANGED <<activeTab, loaded, history, syncing, due, title,
                       server, skipped>>

\* The title arrives, and updateTabLabel persists with the active tab of the
\* render in which the reader asked for it.
TitleResolves(r) ==
    /\ due = "none" /\ title[r] # None
    /\ saving' = saving \cup
                    {[stack |-> stack, active |-> title[r], put |-> persisted + 1]}
    /\ persisted' = persisted + 1 /\ stale' = (title[r] # activeTab)
    /\ title' = [title EXCEPT ![r] = None]
    /\ UNCHANGED <<stack, activeTab, loaded, history, syncing, due, server,
                   skipped, moves>>

-----------------------------------------------------------------------------
(* The effects that keep the address bar and the active tab in step.       *)

\* Mutant: the flag is not cleared by the effect it was set for.
FromUrl_KeepFlag ==
    /\ due = "fromUrl"
    /\ IF syncing = "fromState" \/ url = activeTab
       THEN /\ due' = "none"
            /\ UNCHANGED <<stack, activeTab, title, saving, persisted, stale, syncing>>
       ELSE /\ syncing' = "fromUrl" /\ due' = "toUrl"
            /\ IF url \in ToSet(stack) THEN activateTab(url)
               ELSE openTab(url) /\ title' = Mounted({url}, url)
    /\ UNCHANGED <<loaded, history, server, skipped, moves>>

\* URL -> state: unless the other effect pushed this path, activate its tab,
\* opened if need be.
FromUrl ==
    /\ due = "fromUrl"
    /\ IF syncing = "fromState" \/ url = activeTab
       THEN /\ due' = "none"
            /\ syncing' = IF syncing = "fromState" THEN "none" ELSE syncing
            /\ UNCHANGED <<stack, activeTab, title, saving, persisted, stale>>
       ELSE /\ syncing' = "fromUrl" /\ due' = "toUrl"
            /\ IF url \in ToSet(stack) THEN activateTab(url)
               ELSE openTab(url) /\ title' = Mounted({url}, url)
    /\ UNCHANGED <<loaded, history, server, skipped, moves>>

Push(p) == url' = p /\ past' = Append(past, url) /\ future' = <<>>

\* State -> URL: push the active tab's path, unless the other effect activated
\* it.  That path is then the current one already, and the early return for
\* it leaves the flag set, for the next change of the active tab to find.
ToUrl ==
    /\ due = "toUrl"
    /\ \/ /\ activeTab = url
          /\ due' = "none" /\ skipped' = FALSE
          /\ UNCHANGED <<history, syncing>>
       \/ /\ activeTab # url /\ syncing = "fromUrl"
          /\ syncing' = "none" /\ due' = "none" /\ skipped' = TRUE
          /\ UNCHANGED history
       \/ /\ activeTab # url /\ syncing # "fromUrl"
          /\ Push(activeTab)
          /\ syncing' = "fromState" /\ due' = "fromUrl" /\ skipped' = FALSE
    /\ UNCHANGED <<stack, activeTab, loaded, title, server, saving, persisted,
                   stale, moves>>

Back ==
    /\ Move /\ past # <<>>
    /\ url' = Last(past) /\ past' = Front(past) /\ future' = <<url>> \o future
    /\ due' = "fromUrl"
    /\ UNCHANGED <<stack, activeTab, loaded, syncing, title, server, saving,
                   persisted, stale, skipped>>

Forward ==
    /\ Move /\ future # <<>>
    /\ url' = Head(future) /\ future' = Tail(future) /\ past' = Append(past, url)
    /\ due' = "fromUrl"
    /\ UNCHANGED <<stack, activeTab, loaded, syncing, title, server, saving,
                   persisted, stale, skipped>>

-----------------------------------------------------------------------------
(* The launch, and the server.                                             *)

\* The stored stack is shown.  Every effect runs for this render, with what it
\* shows: the first pushes the active tab's path over the one the launch came
\* with, and the flag it sets keeps the second from looking at that one.
LoadStack ==
    /\ ~loaded /\ stored.stack # <<>>
    /\ loaded' = TRUE
    /\ stack' = stored.stack /\ activeTab' = stored.active
    /\ \E rs \in SUBSET (Untitled \cap ToSet(stored.stack)) :
          title' = Mounted(rs, stored.active)
    /\ IF url = stored.active THEN UNCHANGED history ELSE Push(stored.active)
    /\ UNCHANGED <<syncing, due, server, saving, persisted, stale, skipped, moves>>

\* An empty one: the second effect opens the launch's page, the third the
\* dashboard, each with a PUT of its own.
LoadEmpty ==
    LET next == With(<<url>>, Dashboard)
    IN  /\ ~loaded /\ stored.stack = <<>>
        /\ loaded' = TRUE
        /\ stack' = next /\ activeTab' = Dashboard
        /\ title' = Mounted({url}, Dashboard)
        /\ saving' = {[stack |-> <<url>>, active |-> url, put |-> 1],
                      [stack |-> next, active |-> Dashboard, put |-> 2]}
        /\ persisted' = 2 /\ stale' = FALSE
        /\ syncing' = "fromUrl" /\ due' = "toUrl"
        /\ UNCHANGED <<history, server, skipped, moves>>

\* save_tab_stack: the whole row, in whatever order the PUTs arrive.
SaveTabStack(p) ==
    /\ stored' = p /\ saving' = saving \ {p}
    /\ UNCHANGED <<stack, activeTab, loaded, history, syncing, due, title,
                   persisted, stale, skipped, moves, failed>>

SaveFails(p) ==
    /\ failed < MaxLost /\ failed' = failed + 1
    /\ saving' = saving \ {p}
    /\ UNCHANGED <<stack, activeTab, loaded, history, syncing, due, title,
                   stored, persisted, stale, skipped, moves>>

-----------------------------------------------------------------------------

Next ==
    \/ \E p \in Pages :
        \/ OpenTab(p) \/ ActivateTab(p) \/ CloseTab(p)
        \/ \E q \in Pages \cup {None} : ReorderTab(p, q)
    \/ CloseAllTabs \/ Back \/ Forward
    \/ \E r \in Untitled : TitleResolves(r)
    \/ ToUrl \/ FromUrl \/ LoadStack \/ LoadEmpty
    \/ \E p \in saving : SaveTabStack(p) \/ SaveFails(p)

Spec == Init /\ [][Next]_stackVars

-----------------------------------------------------------------------------

\* When the effects have run, the address bar shows the active tab, so that a
\* reload and the history come back to it, unless one of them skipped a push
\* for a flag it should not have found.
UrlShowsTab == (loaded /\ due = "none") => url = activeTab \/ skipped

\* "Restored on launch": whatever closure persisted it, the newest PUT carries the
\* tabs on the screen, so that the next launch shows them once it is the last
\* one stored; only a title that comes late may name a tab left meanwhile.
StackRestored ==
    (loaded /\ stored.put = persisted /\ ~stale) =>
        stored.stack = stack /\ stored.active = activeTab

\* The address bar and the store both keep what the screen shows.
TabsKept == UrlShowsTab /\ StackRestored
=============================================================================
