----------------------------- MODULE Selection -----------------------------
(***************************************************************************)
(* Making a scanner: New (go/scanner/scanner.go) has resolveDetectors      *)
(* (config.go) turn the profile and the include and exclude lists of a     *)
(* Config into sets of detector IDs and walk the pool of all detectors,    *)
(* keeping the ones that are wanted, and then warms the regex engine and   *)
(* every detector kept.  Python never sets skip_warmup.                    *)
(*                                                                         *)
(* A detector is its DetectorID, a type and a version, where version 0 in  *)
(* a set stands for every version of the type.  How a selector is spelled  *)
(* is left to trufflehog's parser: Expansion says what each stands for.    *)
(***************************************************************************)
EXTENDS Naturals, Sequences, FiniteSets, SequencesExt

CONSTANTS Types,          \* detector types of trufflehog's enum
          Selectors,      \* entries of the lists, trimmed and in one case
          All,            \* "all", the group of every type
          HighEntropy,    \* catchAllSelector
          Typos,          \* selectors thconfig.ParseDetectors rejects
          Expansion,      \* what each of the others stands for
          Base,           \* defaults.DefaultDetectors()
          GenericType, CatchAllType, \* types of the two extra detectors
          Profiles,       \* profile -> its selectors
          Unset, DefaultProfile,
          Fragile,        \* detectors whose warm-up may panic
          ConfigProfiles, \* bound: profiles a config may name
          MaxListed       \* bound: selectors in one list

ID == [type : Types, version : Nat]
Whole(type) == [type |-> type, version |-> 0]

ASSUME ParserAssumption ==
    /\ {All, HighEntropy} \subseteq Selectors /\ Typos \subseteq Selectors
    /\ Expansion \in [Selectors -> SUBSET ID]
    /\ Expansion[All] = {Whole(type) : type \in Types}
    /\ All \notin Typos /\ HighEntropy \in Typos
ASSUME DetectorsAssumption ==
    Base \in Seq(ID) /\ {GenericType, CatchAllType} \subseteq Types /\ Fragile \subseteq ID
\* TestProfilesResolve: every name of a profile is one trufflehog knows.
ASSUME ProfilesAssumption ==
    /\ DefaultProfile \in DOMAIN Profiles /\ Unset \notin DOMAIN Profiles
    /\ \A p \in DOMAIN Profiles : Profiles[p] \subseteq (Selectors \ Typos) \cup {HighEntropy}

VARIABLES cfg,      \* profile, include_detectors, exclude_detectors
          pc,       \* the list to parse next, "filter", "warm", "built" or "failed"
          selected, \* IDs of the profile and the includes
          excludes, \* IDs of the excludes
          explicit, \* IDs asked for otherwise than by a group
          at,       \* loop index over the pool
          out,      \* the effective list
          warmAt,   \* loop index of the warm-up, 0 for the regex engine
          errs,     \* WarmupErrors: the indices of what failed
          warmed    \* history: the indices of the detectors called

sets == <<selected, excludes, explicit>>
warmup == <<warmAt, errs, warmed>>
vars == <<cfg, pc, sets, at, out, warmup>>

Lists == {S \in SUBSET Selectors : Cardinality(S) <= MaxListed}

Init ==
    /\ cfg \in [profile : ConfigProfiles, include : Lists, exclude : Lists]
    /\ pc = "profile" /\ at = 1 /\ out = <<>>
    /\ selected = {} /\ excludes = {} /\ explicit = {}
    /\ warmAt = 0 /\ errs = <<>> /\ warmed = {}

-----------------------------------------------------------------------------
(* Selectors.                                                              *)

CatchAllID == Whole(CatchAllType)
ExtraDetectors == <<Whole(GenericType), CatchAllID>>

\* parseDetectorIDs resolves the catch-all's selector itself.
ParseFails(list) == (list \ {HighEntropy}) \cap Typos # {}
ParseDetectorIDs(list) ==
    UNION {IF s = HighEntropy THEN {CatchAllID} ELSE Expansion[s] : s \in list}

InSet(d, set) == d \in set \/ (d.version # 0 /\ Whole(d.type) \in set)

GroupsToo(list) == list
NamedSelectors(list) == list \ {All}

\* withDefaults and profileNames.
Profile == IF cfg.profile = Unset THEN DefaultProfile ELSE cfg.profile
ProfileNames == Profiles[Profile]

BaseAndExtras == Base \o ExtraDetectors
\* What allDetectors has put on its list after so many detectors of the pool.
Kept[n \in 0 .. Len(BaseAndExtras)] ==
    IF n = 0 THEN <<>>
    ELSE IF BaseAndExtras[n] \in ToSet(Kept[n - 1]) THEN Kept[n - 1]
    ELSE Append(Kept[n - 1], BaseAndExtras[n])
AllDetectors == Kept[Len(BaseAndExtras)]

-----------------------------------------------------------------------------
(* resolveDetectors.                                                       *)

Fail ==
    pc' = "failed" /\ UNCHANGED <<cfg, sets, at, out, warmup>>

UnknownProfile ==
    pc = "profile" /\ Profile \notin DOMAIN Profiles /\ Fail

ParseProfile ==
    /\ pc = "profile" /\ Profile \in DOMAIN Profiles
    /\ selected' = ParseDetectorIDs(ProfileNames)
    /\ pc' = "include"
    /\ UNCHANGED <<cfg, excludes, explicit, at, out, warmup>>

IncludesFail ==
    pc = "include" /\ ParseFails(cfg.include) /\ Fail

ParseIncludes ==
    /\ pc = "include" /\ ~ParseFails(cfg.include)
    /\ selected' = selected \cup ParseDetectorIDs(cfg.include)
    /\ pc' = "exclude"
    /\ UNCHANGED <<cfg, excludes, explicit, at, out, warmup>>

ExcludesFail ==
    pc = "exclude" /\ ParseFails(cfg.exclude) /\ Fail

ParseExcludes ==
    /\ pc = "exclude" /\ ~ParseFails(cfg.exclude)
    /\ excludes' = ParseDetectorIDs(cfg.exclude)
    /\ pc' = "explicit"
    /\ UNCHANGED <<cfg, selected, explicit, at, out, warmup>>

\* These selectors were parsed before, so this time none is rejected.
ParseExplicit ==
    /\ pc = "explicit"
    /\ explicit' = ParseDetectorIDs(NamedSelectors(ProfileNames) \cup NamedSelectors(cfg.include))
    /\ pc' = "filter"
    /\ UNCHANGED <<cfg, selected, excludes, at, out, warmup>>

IsExtra(d) == d \in ToSet(ExtraDetectors)
Wanted(d) == InSet(d, IF IsExtra(d) THEN explicit ELSE selected)

ConsiderDetector ==
    LET d == AllDetectors[at] IN
    /\ pc = "filter" /\ at <= Len(AllDetectors)
    /\ out' = IF Wanted(d) /\ ~InSet(d, excludes) THEN Append(out, d) ELSE out
    /\ at' = at + 1
    /\ UNCHANGED <<cfg, pc, sets, warmup>>

EmptyAllowed == FALSE
SelectionEmpty == out = <<>>

ZeroDetectors ==
    pc = "filter" /\ at > Len(AllDetectors) /\ SelectionEmpty /\ Fail

Resolved ==
    /\ pc = "filter" /\ at > Len(AllDetectors) /\ ~SelectionEmpty
    /\ pc' = "warm"
    /\ UNCHANGED <<cfg, sets, at, out, warmup>>

-----------------------------------------------------------------------------
(* warm: one call of the regex engine, one of each detector, each in a      *)
(* function of its own that recovers.                                      *)

Warming == pc = "warm" /\ UNCHANGED <<cfg, sets, at, out>>

\* The pattern matches; or its compilation panics, or it fails to match.
WarmRegex ==
    /\ Warming /\ warmAt = 0 /\ warmAt' = 1
    /\ errs' \in {errs, Append(errs, 0)}
    /\ UNCHANGED <<pc, warmed>>

\* Its results and its error are ignored.
WarmDetector ==
    /\ Warming /\ warmAt \in 1 .. Len(out)
    /\ warmAt' = warmAt + 1 /\ warmed' = warmed \cup {warmAt}
    /\ UNCHANGED <<pc, errs>>

WarmDetectorPanics ==
    /\ Warming /\ warmAt \in 1 .. Len(out) /\ out[warmAt] \in Fragile
    /\ warmAt' = warmAt + 1 /\ warmed' = warmed \cup {warmAt}
    /\ errs' = Append(errs, warmAt)
    /\ UNCHANGED pc

NewReturns ==
    /\ Warming /\ warmAt = Len(out) + 1 /\ pc' = "built"
    /\ UNCHANGED warmup

Next ==
    \/ UnknownProfile \/ ParseProfile \/ IncludesFail \/ ParseIncludes
    \/ ExcludesFail \/ ParseExcludes \/ ParseExplicit
    \/ ConsiderDetector \/ ZeroDetectors \/ Resolved
    \/ WarmRegex \/ WarmDetector \/ WarmDetectorPanics \/ NewReturns

Spec == Init /\ [][Next]_vars

-----------------------------------------------------------------------------
\* Type invariant of one resolution; a detector is never listed, and so never
\* run or counted, twice, also where trufflehog enables an extra by default.
TypeOK ==
    /\ cfg \in [profile : ConfigProfiles, include : Lists, exclude : Lists]
    /\ pc \in {"profile", "include", "exclude", "explicit", "filter", "warm", "built",
               "failed"}
    /\ selected \subseteq ID /\ excludes \subseteq ID /\ explicit \subseteq ID
    /\ at \in 1 .. Len(AllDetectors) + 1
    /\ warmAt \in 0 .. Len(out) + 1 /\ warmed \subseteq DOMAIN out
    /\ errs \in Seq(0 .. Len(out)) /\ IsInjective(errs)
    /\ IsInjective(out) /\ ToSet(out) \subseteq ToSet(Base) \cup ToSet(ExtraDetectors)

\* Reference: a selector means a detector if it stands for its type as a whole
\* or for that very version of it.
Means(s, d) ==
    \E id \in IF s = HighEntropy THEN {CatchAllID} ELSE Expansion[s] :
        id.type = d.type /\ id.version \in {0, d.version}
Requested == ProfileNames \cup cfg.include
Effective ==
    {d \in ToSet(Base) \cup ToSet(ExtraDetectors) :
        /\ \E s \in Requested : Means(s, d) /\ (s = All => ~IsExtra(d))
        /\ \A s \in cfg.exclude : ~Means(s, d)}

\* The list is the profile plus the includes minus the excludes, version by
\* version: an exclude wins over every include, a selector of one version
\* leaves the others alone, and the group "all" never brings in a catch-all
\* detector, not even next to a selector that brings in something else.  A
\* warm-up that panics takes no detector off the list and keeps none of the others
\* from being warmed before the first request.
ListIsEffective == pc = "built" => ToSet(out) = Effective /\ warmed = DOMAIN out

\* A configuration mistake surfaces as an error and never as a scanner that
\* looks for less: a config is rejected exactly if it names an unknown profile
\* or selector, or leaves no detector at all; a failed warm-up rejects none.
RejectedIfMistaken ==
    pc \in {"built", "failed"} =>
        (pc = "failed") =
            \/ Profile \notin DOMAIN Profiles
            \/ \E s \in cfg.include \cup cfg.exclude : s \in Typos \ {HighEntropy}
            \/ Effective = {}
=============================================================================
