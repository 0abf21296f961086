---------------------------- MODULE ConfigViews ----------------------------
(***************************************************************************)
(* What the two clients make of the device snapshot (DeviceState).         *)
(*                                                                         *)
(* The desktop program copies each published field into its settings form  *)
(* unless the user is editing that section (watchers.rs, ui/settings/):    *)
(* an edit marks the section dirty, Apply sends it and clears the mark, so *)
(* does the end of a configuration burst.                                  *)
(*                                                                         *)
(* The Android bridge subscribes to every field when Kotlin sets its       *)
(* listener, pushes what there is, and then every change; the node map     *)
(* only where it changed (mesh_service.rs).                                *)
(***************************************************************************)
EXTENDS DeviceState

CONSTANTS MaxEdits, MaxApplies, MaxHooks   \* bounds of the runs

VARIABLES
    form,       \* what the settings form shows
    dirty,      \* sections being edited
    buffer,     \* the key field of each channel row keeps what was typed
    applying,      \* Apply under way: the section, its value, the addressee
    kotlin,     \* what Kotlin was told
    pushed,     \* pushed_nodes
    to_push,    \* fields of the first snapshot still to be pushed
    edits, applies, hooks,   \* counted against the bounds
    typed       \* history: what the user last entered in each section

desktop == <<form, dirty, buffer, applying, edits, applies, typed>>
android == <<kotlin, pushed, to_push, hooks>>
vars == <<dvars, desktop, android>>

\* Every part of the form that is dirty on its own: a card, or a channel row.
Tags == {<<f, 0>> : f \in Cards} \cup {<<"channels", i>> : i \in Chans}

ValueAt(rows, i) == IF i \in DOMAIN rows THEN rows[i] ELSE None

Shown(tag) ==
    IF tag[1] \in Cards THEN form.card[tag[1]] ELSE ValueAt(form.rows, tag[2])

FormWith(tag, v) ==
    IF tag[1] \in Cards THEN [form EXCEPT !.card[tag[1]] = v]
                        ELSE [form EXCEPT !.rows[tag[2]] = v]

ViewsInit ==
    /\ Init
    /\ form = [card |-> [f \in Cards |-> None], rows |-> <<>>]
    /\ dirty = {} /\ buffer = [i \in Chans |-> None]
    /\ applying = [pc |-> "none", tag |-> <<"channels", 0>>, value |-> None, to |-> None]
    /\ kotlin = [f \in Fields |-> Empty(f)] /\ pushed = <<>> /\ to_push = <<>>
    /\ edits = 0 /\ applies = 0 /\ hooks = 0
    /\ typed = [t \in Tags |-> None]

-----------------------------------------------------------------------------
(* Desktop: watchers *)

\* A slip: all rows are replaced.
MergedRows_Fresh(rows) == rows

\* Rows being edited stay, the others are what was published.
MergedRows(rows) ==
    LET kept == {i \in DOMAIN form.rows : <<"channels", i>> \in dirty}
        fresh == {i \in DOMAIN rows : <<"channels", i>> \notin dirty}
    IN  [i \in kept \cup fresh |-> IF i \in kept THEN form.rows[i] ELSE rows[i]]

WatcherCopies(f) ==
    /\ client = "desktop" /\ f \in unseen
    /\ unseen' = unseen \ {f}
    /\ form' = CASE f \in Cards /\ <<f, 0>> \notin dirty -> [form EXCEPT !.card[f] = mirror[f]]
                 [] f = "channels" -> [form EXCEPT !.rows = MergedRows(mirror["channels"])]
                 [] OTHER -> form
    /\ UNCHANGED <<radio, state, mirror, client, listening, completes, overtaken, refresher, troubles, changes, dirty, buffer, applying, edits, applies, typed, android>>

\* The end of a burst ends every edit.
HearsComplete ==
    /\ client = "desktop" /\ completes > 0
    /\ completes' = completes - 1
    /\ dirty' = {}
    /\ UNCHANGED <<radio, state, mirror, client, listening, unseen, overtaken, refresher, troubles, changes, form, buffer, applying, edits, applies, typed, android>>

-----------------------------------------------------------------------------
(* Desktop: the form *)

\* Drawing a channel row: the key field shows its own text, and a valid text
\* that is not the row's key is taken for an edit.
DrawsRow(i) ==
    LET tag == <<"channels", i>>
        text == IF buffer[i] = None THEN Shown(tag) ELSE buffer[i]
    IN  /\ client = "desktop" /\ Shown(tag) # None
        /\ text # buffer[i] \/ text # Shown(tag)
        /\ buffer' = [buffer EXCEPT ![i] = text]
        /\ form' = FormWith(tag, text)
        /\ dirty' = IF text # Shown(tag) THEN dirty \cup {tag} ELSE dirty
        /\ UNCHANGED <<dvars, applying, edits, applies, typed, android>>

Edit(tag, v) ==
    /\ client = "desktop" /\ edits < MaxEdits /\ edits' = edits + 1
    /\ Shown(tag) # None
    /\ dirty' = dirty \cup {tag}
    /\ form' = FormWith(tag, v)
    /\ typed' = [typed EXCEPT ![tag] = v]
    /\ buffer' = IF tag[1] \in Cards THEN buffer ELSE [buffer EXCEPT ![tag[2]] = v]
    /\ UNCHANGED <<dvars, applying, applies, android>>

ClickApply(tag) ==
    /\ client = "desktop" /\ applies < MaxApplies /\ applies' = applies + 1
    /\ applying.pc = "none" /\ Shown(tag) # None
    /\ applying' = [pc |-> "clicked", tag |-> tag, value |-> Shown(tag), to |-> None]
    /\ UNCHANGED <<dvars, form, dirty, buffer, edits, typed, android>>

\* Without a node number on record the write fails and the mark stays.
ApplyAddresses ==
    /\ applying.pc = "clicked"
    /\ applying' = IF state.my_info = None THEN [applying EXCEPT !.pc = "none"]
                                        ELSE [applying EXCEPT !.pc = "addressed", !.to = state.my_info]
    /\ UNCHANGED <<dvars, form, dirty, buffer, edits, applies, typed, android>>

ApplyWrites ==
    /\ applying.pc = "addressed"
    /\ applying' = [applying EXCEPT !.pc = IF up THEN "returns" ELSE "none"]
    /\ device' = Written(applying.to, applying.tag[1], applying.tag[2], applying.value)
    /\ UNCHANGED <<line, events, peer, up, service, client, refresher, troubles, changes,
                   form, dirty, buffer, edits, applies, typed, android>>

ApplyReturns ==
    /\ applying.pc = "returns"
    /\ applying' = [applying EXCEPT !.pc = "none"]
    /\ dirty' = dirty \ {applying.tag}
    /\ UNCHANGED <<dvars, form, buffer, edits, applies, typed, android>>

-----------------------------------------------------------------------------
(* Android: the configuration listener *)

Pushes(f) == IF f \in Callbacks THEN <<f>> ELSE <<>>

PushOrder ==
    Pushes("my_info") \o Pushes("nodes") \o SetToSeq(Sections \cap Callbacks)
    \o Pushes("channels") \o Pushes("owner") \o Pushes("metadata")

\* What Kotlin knows after field f is pushed: absent values are not, rows
\* and nodes one at a time.
Overlaid(known, told, only) ==
    [n \in DOMAIN known \cup only |-> IF n \in only THEN told[n] ELSE known[n]]

Told(f, only) ==
    CASE f = "nodes" -> [kotlin EXCEPT ![f] = Overlaid(@, mirror[f], only)]
      [] f = "channels" -> [kotlin EXCEPT ![f] = Overlaid(@, mirror[f], DOMAIN mirror[f])]
      [] f \notin {"nodes", "channels"} ->
            IF mirror[f] = None THEN kotlin ELSE [kotlin EXCEPT ![f] = mirror[f]]

\* A new listener starts from nothing; the task of the one before is aborted.
\* Every field is subscribed to before the first is pushed.
set_config_listener ==
    /\ client = "android" /\ hooks < MaxHooks /\ hooks' = hooks + 1
    /\ listening' = TRUE /\ unseen' = {} /\ completes' = 0
    /\ kotlin' = [f \in Fields |-> Empty(f)] /\ pushed' = <<>>
    /\ to_push' = PushOrder
    /\ UNCHANGED <<radio, state, mirror, overtaken, client, refresher, troubles, changes, desktop>>

PushesFirst ==
    /\ to_push # <<>>
    /\ kotlin' = Told(Head(to_push), DOMAIN mirror["nodes"])
    /\ pushed' = IF Head(to_push) = "nodes" THEN mirror["nodes"] ELSE pushed
    /\ to_push' = Tail(to_push)
    /\ UNCHANGED <<radio, state, mirror, listening, unseen, completes, overtaken, client, refresher, troubles, changes, hooks, desktop>>

\* A slip: only nodes never seen before are pushed.
ChangedNodes_New(snap) == DOMAIN snap \ DOMAIN pushed

ChangedNodes(snap) ==
    {n \in DOMAIN snap : n \notin DOMAIN pushed \/ pushed[n] # snap[n]}

\* The select is biased to the fields, but one published after it was polled
\* may come after the end of the burst: any order is possible.
PushesChange(f) ==
    /\ client = "android" /\ listening /\ to_push = <<>> /\ f \in unseen
    /\ unseen' = unseen \ {f}
    /\ kotlin' = Told(f, ChangedNodes(mirror["nodes"]))
    /\ pushed' = IF f = "nodes" THEN mirror["nodes"] ELSE pushed
    /\ UNCHANGED <<radio, state, mirror, listening, completes, overtaken, client, refresher, troubles, changes, to_push, hooks, desktop>>

PushesComplete ==
    /\ client = "android" /\ to_push = <<>> /\ completes > 0
    /\ completes' = completes - 1
    /\ UNCHANGED <<radio, state, mirror, listening, unseen, overtaken, client, refresher, troubles, changes, desktop, android>>

-----------------------------------------------------------------------------
DesktopStep ==
    \/ \E f \in Fields : WatcherCopies(f)
    \/ HearsComplete
    \/ \E i \in Chans : DrawsRow(i)
    \/ \E t \in Tags : ClickApply(t) \/ \E v \in Values : Edit(t, v)
    \/ ApplyAddresses \/ ApplyWrites \/ ApplyReturns

AndroidStep ==
    \/ set_config_listener \/ PushesFirst \/ PushesComplete
    \/ \E f \in Fields : PushesChange(f)

Next ==
    \/ DeviceNext /\ UNCHANGED <<desktop, android>>
    \/ DesktopStep
    \/ AndroidStep

Spec == ViewsInit /\ [][Next]_vars

-----------------------------------------------------------------------------
(* Properties *)

Published(tag) ==
    IF tag[1] \in Cards THEN mirror[tag[1]] ELSE ValueAt(mirror["channels"], tag[2])

\* What the user entered last, and what the key field of a row still holds.
Own(tag) == ({typed[tag]} \cup (IF tag[1] = "channels" THEN {buffer[tag[2]]} ELSE {})) \ {None}

\* The form never shows something nobody said.  A section being edited shows
\* what the user entered last, whatever the radio published meanwhile; any
\* other, once its watcher has caught up, that or what was published last.
FormTruthful ==
    client = "desktop" =>
        \A t \in Tags :
            IF t \in dirty THEN Shown(t) \in Own(t)
            ELSE t[1] \in unseen \/ Shown(t) \in Own(t) \cup {Published(t)}

\* Kotlin is never left behind: with nothing left to push it holds the last
\* published value of every field it is told of, and every node and channel
\* of the published lists as they are.
KotlinCurrent ==
    client = "android" /\ listening /\ to_push = <<>> =>
        \A f \in Callbacks \ unseen :
            IF f \in {"nodes", "channels"}
              THEN \A n \in DOMAIN mirror[f] : n \in DOMAIN kotlin[f] /\ kotlin[f][n] = mirror[f][n]
              ELSE mirror[f] \in {None, kotlin[f]}

=============================================================================
