------------------------------ MODULE MCEditor ------------------------------
(* The parts of the editor that the user's hands reach, each checked from its  *)
(* own initial states: a behaviour is a behaviour of one part, and the others  *)
(* stand still.  Parts names the ones a run checks.                            *)
EXTENDS VisibleProjection, TreeView, EditorHistory, CellCommands, GridGestures, Clipboard, Shortcuts

CONSTANT Parts

VARIABLE part

MCRows == {"a", "b", "c", "d", "e", "f", "g", "h", "i"}
MCKids == [p \in MCRows \cup {"root"} |->
    CASE p = "root" -> <<"a", "h">>
      [] p = "a" -> <<"b", "c", "g">>
      [] p = "c" -> <<"d", "e", "f">>
      [] p = "d" -> <<"i">>
      [] OTHER -> <<>>]
MCQueries ==
    {[filtered |-> FALSE, matches |-> {}, backwards |-> b] : b \in BOOLEAN} \cup
    {[filtered |-> TRUE, matches |-> {"d", "g"}, backwards |-> FALSE]}

MCTreeRows == {"a", "b", "c", "d", "n"}
MCFirstTree == [p \in MCTreeRows \cup {"root"} |->
    CASE p = "root" -> <<"a", "d">> [] p = "a" -> <<"b">> [] p = "b" -> <<"c">> [] OTHER -> <<>>]
MCOtherTree == [p \in MCTreeRows \cup {"root"} |->
    CASE p = "root" -> <<"d", "b">> [] p = "b" -> <<"c">> [] OTHER -> <<>>]
MCColumns == <<1, 2>>
MCMatches == {MCTreeRows, {"c"}, {}}

MCColumn(i, shows, freezes) == [id |-> i, shown |-> shows, frozen |-> freezes, object |-> 0]
MCFirstLayout == <<MCColumn(1, TRUE, "start"), MCColumn(2, TRUE, "no")>>
MCOtherLayout == <<MCColumn(3, TRUE, "no"), MCColumn(1, FALSE, "no")>>

MCFirstColumns == <<"p", "q", "s">>
MCFirstValues == [r \in 1..3 |-> [c \in {"p", "q", "s"} |->
    CASE c = "p" -> r [] c = "q" /\ r = 2 -> NoValue [] OTHER -> 7]]
MCRange(a, f) == [anchor |-> a, focus |-> f]
MCSelections ==
    {[active |-> <<2, "p">>, axis |-> FALSE, ranges |-> <<>>]} \cup
    {[active |-> r.focus, axis |-> FALSE, ranges |-> <<r>>] :
        r \in {MCRange(<<1, "p">>, <<3, "p">>), MCRange(<<1, "p">>, <<2, "q">>)}} \cup
    {[active |-> <<3, "p">>, axis |-> TRUE, ranges |-> <<MCRange(<<1, "p">>, <<3, "p">>)>>],
     [active |-> <<3, "p">>, axis |-> FALSE,
      ranges |-> <<MCRange(<<1, "p">>, <<2, "p">>), MCRange(<<2, "p">>, <<3, "p">>)>>]}
MCPasted == <<<<4, 6>>>>

MCParents == ("a" :> "none" @@ "b" :> "a" @@ "c" :> "none")
MCGestureViews ==
    {[columns |-> <<1, 2, 3, 5, 4>>, hidden |-> {2}, group |-> <<"start", "no", "no", "end", "no">>,
      rows |-> <<"a", "b", "c">>, parent |-> MCParents, selected |-> {"b", "c"}, lastSource |-> 1,
      active |-> 3, axis |-> "cells", range |-> {}],
     [columns |-> <<1, 3, 4>>, hidden |-> {}, group |-> <<"no", "no", "no", "no">>,
      rows |-> <<"c", "a">>, parent |-> ("c" :> "none" @@ "a" :> "c"), selected |-> {}, lastSource |-> 0,
      active |-> 4, axis |-> "column", range |-> {3, 4}]}

MCFirstForest ==
    1 :> [under |-> Top, value |-> 91, group |-> TRUE] @@
    2 :> [under |-> 1, value |-> 92, group |-> FALSE] @@
    3 :> [under |-> Top, value |-> 93, group |-> FALSE]
MCFreshRows == {11, 12}

stroke(key, primary, shift) == [key |-> key, ctrl |-> FALSE, meta |-> FALSE, primary |-> primary,
                               alt |-> FALSE, shift |-> shift]
byDefault(id, strokes, command, scope, loose) ==
    [id |-> id, strokes |-> strokes, command |-> command, scopes |-> {scope}, priority |-> 0,
     loose |-> loose]
MCDefaults ==
    <<byDefault("grid.undo", <<stroke("z", TRUE, FALSE)>>, "undo", "focused", FALSE),
      byDefault("grid.redo-shift", <<stroke("z", TRUE, TRUE)>>, "redo", "focused", FALSE),
      byDefault("grid.clear", <<stroke("delete", FALSE, FALSE)>>, "clear-selection", "focused", FALSE),
      byDefault("grid.select-all", <<stroke("a", TRUE, FALSE)>>, "select-all", "focused", FALSE),
      byDefault("grid.request-edit-enter", <<stroke("enter", FALSE, FALSE)>>, "request-edit", "focused", TRUE),
      byDefault("portal.commit-enter", <<stroke("enter", FALSE, FALSE)>>, "commit-enter", "editing", TRUE)>>
bound(id, strokes, command, scopes, priority) ==
    [id |-> id, strokes |-> strokes, command |-> command, scopes |-> scopes, priority |-> priority,
     enabled |-> TRUE, allowRepeat |-> FALSE]
offered(bindings) == [valid |-> TRUE, bindings |-> bindings]
MCOffers ==
    {offered(<<bound("save", <<stroke("z", TRUE, FALSE), stroke("delete", FALSE, FALSE)>>, "host.save",
                     {"focused", "editing", "dragging"}, 0),
               bound("quick", <<stroke("delete", FALSE, FALSE)>>, "fill-down", {"focused"}, 1)>>),
     offered(<<bound("save", <<stroke("z", TRUE, FALSE), stroke("z", TRUE, FALSE)>>, "host.save",
                     {"focused"}, 0),
               [bound("grid.undo", <<stroke("z", TRUE, FALSE)>>, "undo", {"focused"}, 0) EXCEPT
                  !.enabled = FALSE]>>),
     offered(<<[bound("move", <<[stroke("z", FALSE, FALSE) EXCEPT !.ctrl = TRUE]>>, "fill-down",
                      {"focused", "dragging"}, 1) EXCEPT !.allowRepeat = TRUE],
               bound("also", <<stroke("z", TRUE, FALSE)>>, "host.save", {"focused"}, 2)>>),
     offered(<<bound("move", <<[stroke("z", FALSE, FALSE) EXCEPT !.ctrl = TRUE]>>, "fill-down",
                     {"focused"}, 2),
               bound("also", <<stroke("z", TRUE, FALSE)>>, "host.save", {"focused"}, 1)>>),
     offered(<<bound("taken", <<stroke("delete", FALSE, FALSE)>>, "host.save", {"focused"}, 0)>>),
     offered(<<bound("grid.clear", <<stroke("enter", FALSE, FALSE)>>, "clear-selection", {"editing"}, 1)>>),
     offered(<<[bound("grid.undo", <<stroke("z", TRUE, FALSE)>>, "undo", {"focused"}, 0) EXCEPT
                  !.enabled = FALSE]>>)}
press(key, ctrl, shift) == [key |-> key, ctrl |-> ctrl, meta |-> FALSE, alt |-> FALSE, shift |-> shift,
                            repeat |-> FALSE, altGraph |-> FALSE]
MCPresses ==
    {press("z", TRUE, FALSE), [press("z", TRUE, FALSE) EXCEPT !.repeat = TRUE], press("z", TRUE, TRUE),
     press("delete", FALSE, FALSE), press("enter", FALSE, FALSE),
     [press("a", TRUE, FALSE) EXCEPT !.repeat = TRUE],
     [press("delete", FALSE, FALSE) EXCEPT !.altGraph = TRUE]}
MCAbilities == {{}, {"undo", "redo", "clear-selection", "fill-down", "request-edit", "commit-enter"},
                {"undo", "redo"}}

editorVars == <<part, projectionVars, treeVars, historyVars, cellVars, gestureVars, clipVars, shortcutVars>>

EditorInit ==
    /\ part \in Parts
    /\ ProjectionInit /\ TreeInit /\ EditorHistoryInit /\ CellInit
    /\ GestureInit /\ ClipboardInit /\ ShortcutInit
    /\ part # "gestures" => viewModel = CHOOSE v \in Views : TRUE

(* The variables of every part but one.                                    *)
StandStill(moving) ==
    /\ UNCHANGED part
    /\ moving # "projection" => UNCHANGED projectionVars
    /\ moving # "tree"       => UNCHANGED treeVars
    /\ moving # "history"    => UNCHANGED historyVars
    /\ moving # "cells"      => UNCHANGED cellVars
    /\ moving # "gestures"   => UNCHANGED gestureVars
    /\ moving # "clipboard"  => UNCHANGED clipVars
    /\ moving # "shortcuts"  => UNCHANGED shortcutVars

EditorNext ==
    \/ part = "projection" /\ ProjectionNext /\ StandStill("projection")
    \/ part = "tree" /\ TreeNext /\ StandStill("tree")
    \/ part = "history" /\ EditorHistoryNext /\ StandStill("history")
    \/ part = "cells" /\ CellNext /\ StandStill("cells")
    \/ part = "gestures" /\ GestureNext /\ StandStill("gestures")
    \/ part = "clipboard" /\ ClipboardNext /\ StandStill("clipboard")
    \/ part = "shortcuts" /\ ShortcutNext /\ StandStill("shortcuts")

Spec == EditorInit /\ [][EditorNext]_editorVars

=============================================================================
