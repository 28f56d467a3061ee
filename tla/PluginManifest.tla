--------------------------- MODULE PluginManifest ---------------------------
(***************************************************************************)
(* What the editor demands of a plugin's manifest before it runs any of    *)
(* its hooks.  A version is <<major, minor, patch>>; a range is the parsed *)
(* text, [kind, of], whose kind "invalid" stands for every text outside    *)
(* the grammar.                                                            *)
(***************************************************************************)
EXTENDS Naturals, Sequences, FiniteSets

CONSTANTS
    EngineVersion,          \* the version of the editor
    HostAbis,               \* the plugin interfaces it supports, a set of versions
    SupportedCapabilities

\* compareSemanticVersions(v, w) < 0
isBelow(v, w) == \E i \in 1..3 : v[i] < w[i] /\ \A j \in 1..(i - 1) : v[j] = w[j]

\* The first version that is not compatible: the next of the leftmost
\* number that is not zero.
caretUpperBound(v) ==
    CASE v[1] > 0 -> <<v[1] + 1, 0, 0>>
      [] v[1] = 0 /\ v[2] > 0 -> <<0, v[2] + 1, 0>>
      [] OTHER -> <<0, 0, v[3] + 1>>

tildeUpperBound(v) == <<v[1], v[2] + 1, 0>>

compares(v, comparator) ==
    CASE comparator.op = ">=" -> ~isBelow(v, comparator.of)
      [] comparator.op = ">"  -> isBelow(comparator.of, v)
      [] comparator.op = "<=" -> ~isBelow(comparator.of, v)
      [] comparator.op = "<"  -> isBelow(v, comparator.of)

\* A wildcard names the first one or two numbers.
engineRangeSatisfies(v, range) ==
    CASE range.kind = "any"      -> TRUE
      [] range.kind = "exact"    -> v = range.of
      [] range.kind = "caret"    -> ~isBelow(v, range.of) /\ isBelow(v, caretUpperBound(range.of))
      [] range.kind = "tilde"    -> ~isBelow(v, range.of) /\ isBelow(v, tildeUpperBound(range.of))
      [] range.kind = "wildcard" -> \A i \in DOMAIN range.of : v[i] = range.of[i]
      [] range.kind = "bounds"   -> \A i \in DOMAIN range.of : compares(v, range.of[i])
      [] range.kind = "invalid"  -> FALSE

\* The newest interface of the plugin's major version, or the plugin's own
\* where that is older; none of another major version will do.
negotiatePluginAbiVersion(abi) ==
    LET same == {h \in HostAbis : h[1] = abi[1]}
    IN {IF isBelow(h, abi) THEN h ELSE abi :
          h \in {n \in same : \A o \in same : ~isBelow(n, o)}}

negotiatePlugin(offer) ==
    /\ negotiatePluginAbiVersion(offer.abi) # {}
    /\ engineRangeSatisfies(EngineVersion, offer.engine)
    /\ offer.capabilities \subseteq SupportedCapabilities

\* normalizePluginManifest answers; the engine range is parsed when negotiated.
isManifest(offer) ==
    /\ offer.capabilities # {}
    /\ \A n \in offer.needs : n.id # offer.id /\ n.range.kind # "invalid"

=============================================================================
