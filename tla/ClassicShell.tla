---------------------------- MODULE ClassicShell ----------------------------
(***************************************************************************)
(* The web interface's frame, apps/web/src/classic/ClassicShell.tsx, and   *)
(* the pages in it, over the API of Tenancy: who is signed in, which       *)
(* workspace is selected, what the stop switch shows, and which items a    *)
(* page lists.                                                             *)
(*                                                                         *)
(* Calls are not cancelled and their answers come in any order. A page     *)
(* takes its workspace from localStorage when it is clicked, and its list  *)
(* from the workspace that was stored when it was opened.                  *)
(*                                                                         *)
(* Abstracted: one browser; the compose page and the inbox stand for the   *)
(* pages; the LinkedIn badge, messages and languages are left out.         *)
(***************************************************************************)
EXTENDS Tenancy

VARIABLES
  user,      \* userId, None before sign in
  listed,    \* workspaces of the selector
  selected,  \* workspaceId
  stored,    \* localStorage[workspaceStorageKey]
  shown,     \* paused, as the button shows it
  shelf,     \* the items of the page that is open
  doubt      \* history: since the last read of the switch on its own, a call
             \* about it failed or overlapped another

shell == <<user, listed, selected, stored, shown, shelf, doubt>>
vars == <<tenancyVars, shell>>

Init ==
  /\ InitTenancy
  /\ user = None
  /\ listed = {}
  /\ selected = None
  /\ stored = None
  /\ shown = FALSE
  /\ shelf = {}
  /\ doubt = FALSE

-----------------------------------------------------------------------------
\* Calls about the switch, this one left aside.
Asking(r) == \E q \in Calls \ {r} : at[q] # "idle" /\ call[q].op \in {"read", "toggle"}

\* Bound: what is left suffices for the calls in flight and one more.
Spare(left, op) == Cardinality(left) > Cardinality({q \in Calls : at[q] # "idle" /\ call[q].op = op})

\* Bound: one call of a page at a time.
PageFree == \A q \in Calls : at[q] # "idle" => call[q].op \notin {"draft", "inbox", "act"}

\* A click makes a call.
Click(r, op, w, arg) ==
  /\ at[r] = "idle"
  /\ Send(r, op, w, arg)
  /\ UNCHANGED <<role, tables, conn, faults>>

\* An answer arrives, and the call is over ...
Hear(r, op) == at[r] = "answer" /\ call[r].op = op

\* A plausible bug: a call that is over is not let go.
OverKeeping(r) ==
  /\ at' = [at EXCEPT ![r] = "idle"]
  /\ UNCHANGED <<role, tables, conn, faults, call>>

Over(r) ==
  /\ at' = [at EXCEPT ![r] = "idle"]
  /\ call' = [call EXCEPT ![r] = None]
  /\ UNCHANGED <<role, tables, conn, faults>>

\* ... or makes the next one.
Then(r, op, w, arg) == Send(r, op, w, arg) /\ UNCHANGED <<role, tables, conn, faults>>

\* Signing in again lists again, and is left out.
signIn(r, u) ==
  /\ user # u
  /\ Click(r, "signin", None, u)
  /\ UNCHANGED shell

\* The page is loaded again: what the browser stored is selected, and all else
\* is asked for. Bound: nothing is in flight.
mount(r, q) ==
  /\ r # q /\ \A p \in Calls : at[p] = "idle"
  /\ user # None /\ stored # None
  /\ selected' = stored /\ listed' = {} /\ shown' = FALSE /\ shelf' = {}
  /\ at' = [at EXCEPT ![r] = "ready", ![q] = "ready"]
  /\ call' = [call EXCEPT ![r] = Call("list", None, user), ![q] = Call("read", stored, None)]
  /\ doubt' = FALSE
  /\ UNCHANGED <<role, tables, conn, faults, user, stored>>

signedIn(r) ==
  /\ Hear(r, "signin")
  /\ IF call[r].said = None THEN Over(r) /\ UNCHANGED user
     ELSE user' = call[r].said /\ Then(r, "list", None, call[r].said)
  /\ UNCHANGED <<listed, selected, stored, shown, shelf, doubt>>

wasListed(r) ==
  /\ Hear(r, "list")
  /\ listed' = IF call[r].said = None THEN listed ELSE call[r].said
  /\ Over(r)
  /\ UNCHANGED <<user, selected, stored, shown, shelf, doubt>>

\* The effect of another selection: it is stored, and its switch is read. An
\* empty one is not stored.
Selected(w) ==
  /\ selected' = w
  /\ stored' = IF w = None THEN stored ELSE w

select(r, w) ==
  /\ w # selected
  /\ Selected(w)
  /\ Click(r, "read", w, None)
  /\ doubt' = Asking(r)
  /\ UNCHANGED <<user, listed, shown, shelf>>

deselect ==
  /\ selected # None
  /\ Selected(None)
  /\ UNCHANGED <<tenancyVars, user, listed, shown, shelf, doubt>>

createWorkspace(r, name) ==
  /\ user # None
  /\ Spare({w \in Workspaces : workspaces[w] = None}, "create")
  /\ SerialCreate => \A q \in Calls : at[q] # "idle" => call[q].op # "create"
  /\ Click(r, "create", None, [name |-> name, owner |-> user])
  /\ UNCHANGED shell

created(r) ==
  /\ Hear(r, "create")
  /\ IF call[r].said = None
     THEN Over(r) /\ UNCHANGED <<listed, selected, stored, doubt>>
     ELSE /\ listed' = listed \cup {call[r].said}
          /\ Selected(call[r].said)
          /\ Then(r, "read", call[r].said, None)
          /\ doubt' = Asking(r)
  /\ UNCHANGED <<user, shown, shelf>>

toggleKillswitch(r) ==
  /\ selected # None
  /\ Click(r, "toggle", selected, ~shown)
  /\ doubt' = (doubt \/ Asking(r))
  /\ UNCHANGED <<user, listed, selected, stored, shown, shelf>>

\* A plausible bug: the answer of a read is not shown.
switchHeardToggle(r) ==
  /\ Hear(r, "read") \/ Hear(r, "toggle")
  /\ shown' = IF call[r].said = None \/ call[r].op = "read" THEN shown ELSE call[r].said.paused
  /\ doubt' = (doubt \/ call[r].said = None)
  /\ Over(r)
  /\ UNCHANGED <<user, listed, selected, stored, shelf>>

\* Whatever is selected by now.
switchHeard(r) ==
  /\ Hear(r, "read") \/ Hear(r, "toggle")
  /\ shown' = IF call[r].said = None THEN shown ELSE call[r].said.paused
  /\ doubt' = (doubt \/ call[r].said = None)
  /\ Over(r)
  /\ UNCHANGED <<user, listed, selected, stored, shelf>>

\* The compose page: the draft and its submission are for one workspace.
saveDraft(r) ==
  /\ stored # None /\ PageFree
  /\ Spare({i \in Items : home[i] = None}, "draft")
  /\ Click(r, "draft", stored, None)
  /\ UNCHANGED shell

draftSaved(r) ==
  /\ Hear(r, "draft")
  /\ IF call[r].said = None THEN Over(r) ELSE Then(r, "act", call[r].workspace, call[r].said)
  /\ UNCHANGED shell

\* The inbox, as it is opened and after every decision.
refresh(r) ==
  /\ stored # None /\ PageFree
  /\ Click(r, "inbox", stored, None)
  /\ UNCHANGED shell

refreshed(r) ==
  /\ Hear(r, "inbox")
  /\ shelf' = IF call[r].said = None THEN shelf ELSE call[r].said
  /\ Over(r)
  /\ UNCHANGED <<user, listed, selected, stored, shown, doubt>>

decide(r, i) ==
  /\ stored # None /\ PageFree
  /\ Click(r, "act", stored, i)
  /\ UNCHANGED shell

decided(r) ==
  /\ Hear(r, "act")
  /\ Then(r, "inbox", stored, None)
  /\ UNCHANGED shell

Operate(r) ==
  \/ \E u \in Users : signIn(r, u)
  \/ \E q \in Calls : mount(r, q)
  \/ \E w \in listed : select(r, w)
  \/ \E n \in Names : createWorkspace(r, n)
  \/ toggleKillswitch(r) \/ saveDraft(r) \/ refresh(r)
  \/ \E i \in shelf : decide(r, i)

Deliver(r) ==
  \/ signedIn(r) \/ wasListed(r) \/ created(r) \/ switchHeard(r)
  \/ draftSaved(r) \/ refreshed(r) \/ decided(r)

\* The API: a call is served, or waits for a connection.
Progress(r) == Serve(r) /\ UNCHANGED shell
Connect(r) == (\E d \in Conns : Open(r, d)) /\ UNCHANGED shell

Next ==
  \/ \E r \in Calls : Operate(r) \/ Deliver(r) \/ Progress(r) \/ Connect(r)
  \/ \E r \in Calls : Mishap(r) /\ UNCHANGED shell
  \/ deselect

Spec == Init /\ [][Next]_vars

-----------------------------------------------------------------------------
\* Properties.

TypeOK ==
  /\ role \in Roles
  /\ operators \subseteq Users
  /\ workspaces \in [Workspaces -> [name: Names, owner: Users] \cup {None}]
  /\ switch \in [Workspaces -> BOOLEAN \cup {None}]
  /\ home \in [Items -> Workspaces \cup {None}]
  /\ settled \subseteq {i \in Items : home[i] # None}
  /\ conn \in [Conns -> [holder: Calls \cup {None}, scope: Workspaces \cup {None},
                         open: BOOLEAN, broken: BOOLEAN]]
  /\ \A r \in Calls : at[r] = "idle" <=> call[r] = None
  /\ faults \in 0..MaxFaults
  /\ user \in Users \cup {None}
  /\ listed \subseteq Workspaces
  /\ {selected, stored} \subseteq Workspaces \cup {None}
  /\ shown \in BOOLEAN
  /\ shelf \subseteq Items

\* With nothing asked and no doubt about what was, the button shows the switch
\* of the workspace that is selected (ClassicShell.tsx:78-126).
ShellShowsSwitch ==
  role = "scriora_app" /\ selected # None /\ ~doubt /\ ~Asking(None)
    => shown = switch[selected]
=============================================================================
