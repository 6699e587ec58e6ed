------------------------------ MODULE Taxonomy ------------------------------
(***************************************************************************)
(* taxonomy_engine.py: the category, severity and tags of a failure, and   *)
(* what the indexer derives from them.  A message is a function from the   *)
(* parts it consists of to what they say: "text" and, when the pattern     *)
(* that read it left them there, a file, a time, a component and so on;    *)
(* "details" for the text of a JUnit failure below its message.  The words *)
(* of a message are what the engine's patterns look at.                    *)
(***************************************************************************)
EXTENDS Lists

CONSTANTS
    NoPhase,      \* a failure that comes with no phase
    MaxTags,      \* the tags an event keeps: the lesser of the engine's limit (20)
                  \* and security.max_tags_per_event
    Cues,         \* Cues[words]: the rule groups whose patterns the words match
    Protocols,    \* Protocols[words]: the protocols whose keywords they contain
    Vendors       \* Vendors[words]: the vendors whose keywords they contain

\* The rule groups, in the order in which they are tried.
RuleOrder == <<"compile", "elab", "assertion", "timeout", "xprop", "scoreboard",
               "protocol", "runtime">>
ProtocolOrder == <<"axi4", "apb", "ahb", "pcie", "usb", "jtag", "i2c", "spi">>
VendorOrder == <<"vcs", "questa", "xcelium", "verilator", "riviera">>
RoleOrder == <<"driver", "monitor", "scoreboard", "sequencer">>

\* What the patterns look at: none depends on a number where a time can stand.
Words(message) == [part \in DOMAIN message \ {"time"} |-> message[part]]

FirstOf(order, found) == Cut(Among(order, found), 1)

\* _normalize_severity of the severities the two parsers pass. A JUnit failure passes
\* "error", which none of the tests for a severity recognizes: the default is error.
NormalizeSeverity(raw) == IF raw = "UVM_FATAL" THEN "fatal" ELSE "error"

\* _categorize: the first rule group that matches.
Category(words) == IF FirstOf(RuleOrder, Cues[words]) = << >> THEN "unknown"
                   ELSE Head(FirstOf(RuleOrder, Cues[words]))

\* The name of an assertion, which is a tag as well, is left out.
CategoryTags(words) ==
    CASE Category(words) = "unknown"   -> << >>
      [] Category(words) = "assertion" -> <<"assertion", "sva">>
      [] OTHER                        -> <<Category(words)>>

PhaseTags(phase) == IF phase = NoPhase THEN << >> ELSE <<"phase">>

\* Tags that are there already are not added.
AddTags(tags, more) == tags \o Among(more, Range(more) \ Range(tags))

BuildTagsRolesFirst(words, phase, roles, framework) == \* mutant: roles come before protocols
    LET named == AddTags(CategoryTags(words), << framework >>)
        placed == AddTags(named, Among(RoleOrder, roles))
        spoken == AddTags(placed, Among(ProtocolOrder, Protocols[words]))
        sold == AddTags(spoken, FirstOf(VendorOrder, Vendors[words]))
    IN  AddTags(sold, PhaseTags(phase))

\* _build_tags: category, framework, protocols, one vendor, phase, roles.
BuildTags(words, phase, roles, framework) ==
    LET named == AddTags(CategoryTags(words), << framework >>)
        spoken == AddTags(named, Among(ProtocolOrder, Protocols[words]))
        sold == AddTags(spoken, FirstOf(VendorOrder, Vendors[words]))
        phased == AddTags(sold, PhaseTags(phase))
    IN  AddTags(phased, Among(RoleOrder, roles))

\* classify, and the cut of the indexer.
Tags(words, phase, roles, framework) ==
    Cut(BuildTags(words, phase, roles, framework), MaxTags)

\* The first tag the indexer knows as a protocol; jtag is not.
Known == Range(ProtocolOrder) \ {"jtag"}
Protocol(tags) ==
    LET known == {i \in DOMAIN tags : tags[i] \in Known}
    IN  IF known = {} THEN "none" ELSE tags[Min(known)]

\* signature_normalize_summary: numbers, times and paths of instances become placeholders. The
\* rest of what a pattern left before the text is kept, and the details are no part of a summary.
Summary(message) ==
    [part \in DOMAIN message \ {"details"} |->
        IF part \in {"time", "unit", "component"} THEN "placeholder" ELSE message[part]]

Signature(message, tags) ==
    [category |-> Category(Words(message)), summary |-> Summary(message),
     protocol |-> Protocol(tags)]
=============================================================================
