------------------------------ MODULE Shortcuts ------------------------------
(***************************************************************************)
(* The shortcut registry (shortcuts.ts) and the two keydown handlers of    *)
(* the canvas renderer that ask it.  A key press goes to the bindings the  *)
(* host configured first; what none of them takes goes to the default of   *)
(* that key, unless the host has configured a binding under its id.        *)
(*                                                                         *)
(* What a command needs (a callback of the editor, a cell, a state of the  *)
(* edit) is the set "able" chosen at each press.  A key stands for the key *)
(* or the code an event and a stroke may name.  Typing and navigation come *)
(* after the defaults and are left out, and so is the Escape that closes   *)
(* an open context menu.                                                   *)
(***************************************************************************)
EXTENDS Integers, SequencesExt, FiniteSetsExt

CONSTANTS
    Defaults,       \* DEFAULT_BINDINGS: Seq([id, strokes, command, scopes, priority, loose])
    Offers,         \* what a host configures: [valid, bindings: sequence of the same and
                    \* [enabled, allowRepeat]]
    Presses,        \* key events: [key, ctrl, meta, alt, shift, repeat, altGraph]
    Abilities,      \* the sets of commands that can be run at some time
    LongestBinding  \* strokes of the longest binding

\* normalizeBinding refuses a binding without strokes and a priority out of range.
ASSUME ShortcutAssumption ==
    /\ LongestBinding \in Nat
    /\ \A offer \in Offers :
         /\ offer.bindings \in Seq(ToSet(offer.bindings))
         /\ offer.valid =>
              \A b \in ToSet(offer.bindings) : /\ b.strokes \in Seq(ToSet(b.strokes))
                                               /\ Len(b.strokes) \in 1..LongestBinding
                                               /\ b.priority \in -1000..1000

VARIABLES
    configured,     \* #configured, in order of insertion
    pendingStrokes, \* #pending: the strokes of a sequence that is under way
    keyScope,       \* who is asked: "focused", "editing" or "dragging"
    typed,          \* ghost: the strokes since the last interruption
    pressed         \* ghost: what the last press did

shortcutVars == <<configured, pendingStrokes, keyScope, typed, pressed>>

NotPressed == [by |-> "nobody", id |-> "", strokes |-> <<>>, command |-> "", scope |-> "",
               able |-> {}, prefix |-> <<>>, repeat |-> FALSE]

ShortcutInit ==
    /\ configured = <<>>
    /\ pendingStrokes = <<>>
    /\ keyScope = "focused"
    /\ typed = <<>>
    /\ pressed = NotPressed

isDefaultEnabled(id) == \A i \in DOMAIN configured : configured[i].id # id

-----------------------------------------------------------------------------
(* Strokes.  One of a binding says Primary, Ctrl or Meta; one of an event  *)
(* is primary when either key is down.                                     *)

eventStroke(e) == [key |-> e.key, ctrl |-> e.ctrl, meta |-> e.meta,
                   primary |-> e.ctrl \/ e.meta, alt |-> e.alt, shift |-> e.shift]

strokeMatches(event, expected) ==
    /\ event.key = expected.key
    /\ event.alt = expected.alt /\ event.shift = expected.shift
    /\ IF expected.primary THEN event.primary
       ELSE /\ event.ctrl = expected.ctrl /\ event.meta = expected.meta
            /\ expected.ctrl \/ expected.meta \/ ~event.primary

sameStrokes(first, second) ==
    /\ Len(first) = Len(second)
    /\ \A i \in DOMAIN first : /\ strokeMatches(first[i], second[i])
                               /\ strokeMatches(second[i], first[i])

-----------------------------------------------------------------------------
(* Configuration.                                                          *)

\* A configured binding may take the stroke of a default if it ranks higher.
mayShareStrokes(first, second, isDefault) == isDefault /\ second.priority > first.priority

conflict(first, second, isDefault) ==
    /\ first.scopes \cap second.scopes # {}
    /\ sameStrokes(first.strokes, second.strokes)
    /\ ~mayShareStrokes(first, second, isDefault)

detectConflicts(bindings) ==
    LET ids == {bindings[i].id : i \in DOMAIN bindings}
        kept == SelectSeq(Defaults, LAMBDA d : d.id \notin ids)
        enabled == SelectSeq(bindings, LAMBDA b : b.enabled)
    IN \/ \E i \in DOMAIN kept : \E j \in DOMAIN enabled : conflict(kept[i], enabled[j], TRUE)
       \/ \E i, j \in DOMAIN enabled : i < j /\ conflict(enabled[i], enabled[j], FALSE)

isAccepted(offer) ==
    /\ offer.valid
    /\ \A i, j \in DOMAIN offer.bindings : offer.bindings[i].id = offer.bindings[j].id => i = j
    /\ ~detectConflicts(offer.bindings)

(* Mutant: a sequence that is under way survives the configuration.        *)
keepsPending == UNCHANGED <<pendingStrokes, typed>>

forgetsPending == pendingStrokes' = <<>> /\ typed' = <<>>

\* What is refused changes nothing.
Configure(offer) ==
    /\ isAccepted(offer)
    /\ configured' = offer.bindings
    /\ forgetsPending
    /\ pressed' = NotPressed
    /\ UNCHANGED keyScope

Reset ==
    /\ configured # <<>>
    /\ configured' = <<>>
    /\ forgetsPending
    /\ pressed' = NotPressed
    /\ UNCHANGED keyScope

-----------------------------------------------------------------------------
(* A press.                                                                *)

isPrefix(prefix, strokes) ==
    /\ Len(prefix) <= Len(strokes)
    /\ \A i \in DOMAIN prefix : strokeMatches(prefix[i], strokes[i])

candidates(e, prefix) ==
    {i \in DOMAIN configured :
       /\ configured[i].enabled /\ keyScope \in configured[i].scopes
       /\ configured[i].allowRepeat \/ ~e.repeat
       /\ isPrefix(prefix, configured[i].strokes)}

\* The highest priority; the first of several.
chooseWinner(complete) ==
    CHOOSE i \in complete : \A j \in complete :
        \/ configured[i].priority > configured[j].priority
        \/ configured[i].priority = configured[j].priority /\ i <= j

\* A stroke that does not go on with the sequence may begin another.
prefixFor(e, before) ==
    LET longer == Append(before, eventStroke(e))
    IN IF candidates(e, longer) = {} /\ before # <<>> THEN <<eventStroke(e)>>
       ELSE longer

Nothing == [kind |-> "none", prefix |-> <<>>, winner |-> 0]

consume(e, late) ==
    IF e.altGraph THEN Nothing
    ELSE LET prefix == prefixFor(e, IF late THEN <<>> ELSE pendingStrokes)
             all == candidates(e, prefix)
             complete == {i \in all : Len(configured[i].strokes) = Len(prefix)}
         IN CASE all = {} -> Nothing
              [] all # {} /\ complete = {} -> [kind |-> "pending", prefix |-> prefix, winner |-> 0]
              [] complete # {} ->
                   [kind |-> "matched", prefix |-> prefix, winner |-> chooseWinner(complete)]

EditingCommands == {"cancel-edit", "fill-selection", "commit-enter", "commit-tab",
                    "commit-shift-tab"}
FocusedCommands == {"copy", "copy-branch", "cut-branch", "select-all", "select-row",
                    "select-column", "undo", "redo", "clear-selection", "fill-down",
                    "fill-series", "delete-subtree", "insert-sibling", "insert-child",
                    "expand-all", "collapse-all", "move-up", "move-down", "indent", "outdent",
                    "resize-column-left", "resize-column-right", "reorder-column-left",
                    "reorder-column-right", "hide-column", "show-all-columns",
                    "insert-column", "delete-column", "freeze-column-start",
                    "freeze-column-end", "unfreeze-column", "request-edit"}

\* These need nothing but their scope: the in-cell editor has an address, and
\* a copy that cannot be written keeps the press all the same.
AlwaysAble == {"copy", "cut", "copy-branch", "cut-branch", "select-all", "cancel-edit",
               "commit-enter", "commit-tab", "commit-shift-tab"}

isAble(command, able) == command \in AlwaysAble \cup able

\* dispatchConfiguredShortcut: a command of the host's own, and cut, take
\* the press anywhere.
takes(command, scope, able) ==
    /\ command \in EditingCommands => scope = "editing" /\ isAble(command, able)
    /\ command \in FocusedCommands => scope = "focused" /\ isAble(command, able)

\* The keys of the in-cell editor, Enter and F2 are looked at alone.
looseMatch(e, d) ==
    /\ e.key = d.strokes[1].key
    /\ keyScope = "focused" => ~e.alt /\ ~e.meta
    /\ d.command = "commit-enter" => ~(e.ctrl \/ e.meta)
    /\ d.command \in {"commit-tab", "commit-shift-tab"} => e.shift = d.strokes[1].shift

\* These defaults also answer to a key that is held down, and with AltGraph.
HeldCommands == {"copy", "cut", "copy-branch", "cut-branch", "select-all",
                 "resize-column-left", "resize-column-right", "reorder-column-left",
                 "reorder-column-right"}

isFresh(e) == ~e.repeat /\ ~e.altGraph

answersTo(e, d) ==
    IF d.loose THEN looseMatch(e, d)
    ELSE /\ d.command \in HeldCommands \/ isFresh(e)
         /\ strokeMatches(eventStroke(e), d.strokes[1])

\* The handlers ask for one id, for undo and redo for two; no handler looks
\* for the stroke of fill-series.
guards(d) ==
    CASE d.command = "undo" -> {"grid.undo", "grid.redo-shift"}
      [] d.command = "redo" -> {"grid.redo", "grid.redo-shift"}
      [] OTHER -> {d.id}

defaultFor(e) ==
    {i \in DOMAIN Defaults :
       /\ keyScope \in Defaults[i].scopes
       /\ Defaults[i].command # "fill-series"
       /\ answersTo(e, Defaults[i])}

runsDefault(d, able) ==
    /\ \E id \in guards(d) : isDefaultEnabled(id)
    /\ isAble(d.command, able)

did(by, b, e, result, able) ==
    [by |-> by, id |-> b.id, strokes |-> b.strokes, command |-> b.command, scope |-> keyScope,
     able |-> able, prefix |-> result.prefix, repeat |-> e.repeat]

afterwards(e, result, able) ==
    IF result.kind = "matched" /\ takes(configured[result.winner].command, keyScope, able)
    THEN did("configured", configured[result.winner], e, result, able)
    ELSE IF result.kind = "pending" \/ keyScope = "dragging" \/ defaultFor(e) = {} THEN NotPressed
    ELSE LET d == Defaults[Min(defaultFor(e))]
         IN IF runsDefault(d, able) THEN did("default", d, e, result, able) ELSE NotPressed

lastOf(strokes) ==
    IF Len(strokes) <= LongestBinding THEN strokes
    ELSE SubSeq(strokes, Len(strokes) - LongestBinding + 1, Len(strokes))

\* onGridKeyDown and onPortalKeyDown.  A press made by an input method never
\* gets here.  "late": the sequence timed out.
Press(e, able, late) ==
    /\ late => pendingStrokes # <<>>
    /\ \E result \in {consume(e, late)} :
         /\ pendingStrokes' = IF result.kind = "pending" THEN result.prefix ELSE <<>>
         /\ pressed' = afterwards(e, result, able)
    /\ typed' = IF e.altGraph THEN <<>>
                ELSE lastOf(Append(IF late THEN <<>> ELSE typed, eventStroke(e)))
    /\ UNCHANGED <<configured, keyScope>>

-----------------------------------------------------------------------------
(* Where the keys go.                                                      *)

\* A gesture that begins or ends calls clearPending.  Selecting and filling
\* take the keys; sizing and moving columns and dragging rows do not.
DragBegins ==
    /\ keyScope # "dragging"
    /\ keyScope' = "dragging"
    /\ forgetsPending
    /\ pressed' = NotPressed
    /\ UNCHANGED configured

DragEnds ==
    /\ keyScope = "dragging"
    /\ keyScope' = "focused"
    /\ forgetsPending
    /\ pressed' = NotPressed
    /\ UNCHANGED configured

OtherGesture ==
    /\ pendingStrokes # <<>>
    /\ forgetsPending
    /\ pressed' = NotPressed
    /\ UNCHANGED <<configured, keyScope>>

\* The in-cell editor opens and closes without that.
EditOpensOrCloses ==
    /\ keyScope # "dragging"
    /\ keyScope' = IF keyScope = "focused" THEN "editing" ELSE "focused"
    /\ pressed' = NotPressed
    /\ UNCHANGED <<configured, pendingStrokes, typed>>

ShortcutNext ==
    \/ \E offer \in Offers : Configure(offer)
    \/ Reset
    \/ \E e \in Presses : \E able \in Abilities, late \in BOOLEAN : Press(e, able, late)
    \/ DragBegins \/ DragEnds \/ OtherGesture \/ EditOpensOrCloses

-----------------------------------------------------------------------------
(* Properties.                                                             *)

endsWith(strokes, binding) ==
    /\ Len(binding) <= Len(strokes)
    /\ \A i \in DOMAIN binding :
         strokeMatches(strokes[Len(strokes) - Len(binding) + i], binding[i])

isConfigured(id) == \E i \in DOMAIN configured : configured[i].id = id

(* The bindings of the strokes that the last press completed.               *)
alsoPressed ==
    {i \in DOMAIN configured :
       /\ configured[i].enabled /\ pressed.scope \in configured[i].scopes
       /\ configured[i].allowRepeat \/ ~pressed.repeat
       /\ Len(configured[i].strokes) = Len(pressed.prefix)
       /\ isPrefix(pressed.prefix, configured[i].strokes)}

ranksFirst(i) == \A j \in alsoPressed :
    \/ configured[j].priority < configured[i].priority
    \/ configured[j].priority = configured[i].priority /\ i <= j

(* A configured command runs when the strokes of an enabled binding of it  *)
(* were typed, all of them and one after the other, since the registry was *)
(* configured and since a time-out, a gesture or a foreign character broke *)
(* a sequence (shortcuts.ts:264), and no other binding of these strokes    *)
(* ranks higher.  A default runs only if the command of the binding that   *)
(* ranks highest could not be run there.  A sequence that is under way can *)
(* be completed by a binding that is configured.                           *)
StrokesRunTheirBinding ==
    /\ pressed.by = "configured" =>
         /\ endsWith(typed, pressed.strokes)
         /\ \E i \in alsoPressed : configured[i].id = pressed.id /\ ranksFirst(i)
    /\ pressed.by = "default" =>
         \A i \in alsoPressed :
            ranksFirst(i) => ~takes(configured[i].command, pressed.scope, pressed.able)
    /\ pendingStrokes # <<>> =>
         /\ endsWith(typed, pendingStrokes)
         /\ \E i \in DOMAIN configured : /\ configured[i].enabled
                                         /\ Len(pendingStrokes) < Len(configured[i].strokes)
                                         /\ isPrefix(pendingStrokes, configured[i].strokes)

(* A default does not run once the host has configured a binding under its *)
(* id, be it disabled or on other keys: "enabled: false therefore behaves  *)
(* as an explicit unbind" (shortcuts.ts, isDefaultEnabled).  Undo and redo *)
(* look at a second id as well, so disabling one of them has no effect.    *)
OverriddenDefaultIsSilent == pressed.by = "default" => ~isConfigured(pressed.id)

=============================================================================
