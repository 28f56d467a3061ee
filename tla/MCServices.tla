----------------------------- MODULE MCServices -----------------------------
(* The services around a document, each checked from its own initial states:  *)
(* a behaviour is a behaviour of one part, and the others stand still.        *)
EXTENDS TransactionEngine, SourceReads, DataExchange, EventHub, ResourceRegistry, ClipboardText,
        PluginHost, Proposals

CONSTANT Parts

VARIABLE part

\* Two materials and a group.  The value "raw" is another way to write "v", and
\* "bad" breaks the schema.
MCIds       == {"a", "b", "g"}
MCMaterials == {"a", "b"}
MCValues    == {"v", "raw", "bad"}
MCInputs    == {"raw", "bad"}
MCRefused   == {"bad"}
MCCodes     == {"c", "d"}
MCSides     == {"first"}
MCPatchKeys == {<<0>>}
MCFirstNodes ==
    [i \in {"a", "g"} |->
        IF i = "a" THEN [newNode(i, Root, <<middle, middle>>) EXCEPT !.fields = Empty]
        ELSE newNode(i, "a", <<middle>>)]
MCCanonical == [x \in MCValues |-> IF x = "raw" THEN "v" ELSE x]

MCPageCount == [p \in {"a", "b"} |-> IF p = "a" THEN 2 ELSE 1]

MCBookRows == {"a", "b", "c", "d"}
MCBook ==
    [parent |-> [r \in MCBookRows |-> IF r \in {"b", "c"} THEN "a" ELSE "top"],
     key    |-> [r \in MCBookRows |-> IF r \in {"a", "b"} THEN 1 ELSE 2],
     cells  |-> [r \in MCBookRows |-> [f \in {"name", "in", "level"} |-> "-"]]]
MCLevels ==
    [c \in {"1", "2", "3", "-", "", "x", "a", "b", "c", "d"} |->
        CASE c = "1" -> 1 [] c = "2" -> 2 [] c = "3" -> 3 [] OTHER -> 0]
imports(format, rows, header, fields, mapping, parent, level, preview) ==
    [format |-> format, rows |-> rows, header |-> header, fields |-> fields, mapping |-> mapping,
     parentField |-> parent, levelField |-> level, preview |-> preview]
MCImports ==
    {imports("csv",  <<<<"level", "name">>, <<"1", "x">>, <<"2", "x">>, <<"2", "x">>, <<"1", "x">>>>,
             TRUE, <<>>, <<>>, "", "level", FALSE),
     imports("xlsx", <<<<"1">>, <<"2">>, <<"3">>>>, FALSE, <<>>, <<<<"level", 1>>>>, "", "level", TRUE),
     imports("tsv",  <<<<"in", "name">>, <<"", "x">>, <<"d", "x">>>>, TRUE, <<"in">>, <<>>, "in", "", FALSE),
     imports("tsv",  <<<<"in", "name">>, <<"d", "x">>, <<"", "x">>>>, TRUE, <<"name">>, <<>>, "in", "", FALSE),
     imports("tsv",  <<<<"b">>, <<"">>>>, FALSE, <<"in">>, <<>>, "in", "", FALSE),
     imports("xlsx", <<<<"1", "">>, <<"2", "c">>>>, FALSE, <<"level", "in">>, <<>>, "in", "level", FALSE),
     imports("csv",  <<<<"x", "1">>, <<"x">>>>, FALSE, <<>>, <<>>, "", "", FALSE),
     imports("csv",  <<<<"x", "1">>>>, FALSE, <<>>, <<>>, "", "", FALSE)}
MCExports ==
    {[fields |-> {"name", "in", "level"}, mode |-> "completeData", scope |-> "all"],
     [fields |-> {"name"}, mode |-> "currentView", scope |-> "visible"]}
noMask == [f \in {} |-> ""]
MCAnswers ==
    {[allowed |-> FALSE, fields |-> {}, masks |-> noMask],
     [allowed |-> TRUE, fields |-> {"name", "in", "level"}, masks |-> noMask],
     [allowed |-> TRUE, fields |-> {"name"}, masks |-> [f \in {"name"} |-> "redact"]],
     [allowed |-> TRUE, fields |-> {"name", "in", "level"}, masks |-> [f \in {"in"} |-> "omit"]]}
MCShown == <<"name", "level">>

MCTexts == {<<>>, <<Letter>>, <<Quote>>, <<Tab>>, <<Cr, Lf>>, <<Comma>>}
MCGrids ==
    {<<<<a, b>>>> : a, b \in MCTexts} \cup {<<<<a>>, <<b>>>> : a, b \in MCTexts} \cup
    {<<<<a, <<Letter>>>>, <<b, <<Comma>>>>>> : a, b \in MCTexts}

MCEngineVersion == <<1, 2, 0>>
MCHostAbis == {<<1, 0, 0>>, <<1, 1, 0>>, <<2, 0, 0>>}
within(kind, of) == [kind |-> kind, of |-> of]
offered(i, v, needed, r) ==
    [id |-> i, version |-> v, needs |-> needed, rules |-> r, abi |-> <<1, 0, 5>>,
     engine |-> within("caret", <<1, 1, 9>>), capabilities |-> {"validate"}]
MCBasePlugin == offered("a", <<0, 3, 1>>, {}, {"r"})
MCUnfit == offered("b", <<2, 0, 0>>, {}, {})
MCOffers ==
    {MCBasePlugin, offered("a", <<0, 4, 0>>, {}, {"s"}),
     offered("b", <<1, 0, 0>>, {[id |-> "a", range |-> within("caret", <<0, 3, 0>>)]}, {"r", "s"}),
     [MCUnfit EXCEPT !.abi = <<3, 0, 0>>],
     [MCUnfit EXCEPT !.engine = within("tilde", <<1, 1, 0>>)],
     [MCUnfit EXCEPT !.engine = within("bounds", <<[op |-> ">=", of |-> <<1, 0, 0>>],
                                                   [op |-> "<", of |-> <<1, 2, 0>>]>>)],
     [MCUnfit EXCEPT !.engine = within("wildcard", <<1, 3>>)],
     [MCUnfit EXCEPT !.engine = within("exact", <<1, 2, 1>>)],
     [MCUnfit EXCEPT !.capabilities = {"validate", "paint"}],
     [MCUnfit EXCEPT !.needs = {[id |-> "b", range |-> within("any", <<>>)]}]}
MCInitialOffers == {MCBasePlugin}

MCImpacts == {[fields |-> {1}, structural |-> {}], [fields |-> {}, structural |-> {1}]}

servicesVars ==
    <<part, engineVars, sourceVars, exchangeVars, hubVars, registryVars, textVars, pluginVars, proposalVars>>

\* One initial state for each of the parts that stand still.
ServicesInit ==
    /\ part \in Parts
    /\ EngineInit /\ SourceInit /\ ExchangeInit /\ HubInit /\ RegistryInit
    /\ TextInit /\ PluginInit /\ ProposalInit
    /\ part # "engine" => completeness = "complete"
    /\ part # "text" => copied = NoGrid

(* The variables of every part but one.                                       *)
StandStill(moving) ==
    /\ UNCHANGED part
    /\ moving # "engine"    => UNCHANGED engineVars
    /\ moving # "reads"     => UNCHANGED sourceVars
    /\ moving # "exchange"  => UNCHANGED exchangeVars
    /\ moving # "events"    => UNCHANGED hubVars
    /\ moving # "registry"  => UNCHANGED registryVars
    /\ moving # "text"      => UNCHANGED textVars
    /\ moving # "plugins"   => UNCHANGED pluginVars
    /\ moving # "proposals" => UNCHANGED proposalVars

ServicesNext ==
    \/ part = "engine" /\ EngineNext /\ StandStill("engine")
    \/ part = "reads" /\ SourceNext /\ StandStill("reads")
    \/ part = "exchange" /\ ExchangeNext /\ StandStill("exchange")
    \/ part = "events" /\ HubNext /\ StandStill("events")
    \/ part = "registry" /\ RegistryNext /\ StandStill("registry")
    \/ part = "text" /\ TextNext /\ StandStill("text")
    \/ part = "plugins" /\ PluginNext /\ StandStill("plugins")
    \/ part = "proposals" /\ ProposalNext /\ StandStill("proposals")

Spec == ServicesInit /\ [][ServicesNext]_servicesVars

=============================================================================
