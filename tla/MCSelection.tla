---------------------------- MODULE MCSelection ----------------------------
(* Selection with a detector in two versions, one without versions and the  *)
(* two extras, one of them enabled by default as well; lists of up to two   *)
(* of eight selectors.                                                     *)
EXTENDS Selection

Id(type, version) == [type |-> type, version |-> version]

MCTypes == {"Github", "AWS", "Generic", "CustomRegex"}
MCBase == <<Id("Github", 1), Id("Github", 2), Id("AWS", 0), Id("Generic", 0)>>

MCFragile == {Id("Github", 2), Id("CustomRegex", 0)}

\* Names, one version, a range of IDs, and a name trufflehog does not know.
MCSelectors == {"all", "HighEntropy", "Github", "Github.v2", "AWS", "Generic", "1-10", "Githb"}
MCTypos == {"HighEntropy", "Githb"}
MCExpansion == [s \in MCSelectors |->
    CASE s = "all" -> {Id(type, 0) : type \in MCTypes}
      [] s = "Github.v2" -> {Id("Github", 2)}
      [] s = "1-10" -> {Id("AWS", 0), Id("Generic", 0)}
      [] s \in MCTypos -> {}
      [] OTHER -> {Id(s, 0)}]

MCProfiles == [minimal |-> {"Github.v2"}, core |-> {"Github", "AWS"},
               all |-> {"all"}, paranoid |-> {"all", "HighEntropy"}]
MCConfigProfiles == DOMAIN MCProfiles \cup {"", "medium"}
=============================================================================
