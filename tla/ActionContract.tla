--------------------------- MODULE ActionContract ---------------------------
(***************************************************************************)
(* The public contract of the action and the bump a change of it requires: *)
(* compare_action_contracts (scripts/action_contract.py) on action.yml and *)
(* classify_compatibility_change (scripts/release_metadata.py) on          *)
(* action-compatibility.json, joined by classify_release_requirement.      *)
(***************************************************************************)
EXTENDS BumpRanks

CONSTANTS
    Names,      \* of inputs and outputs
    Values,     \* defaults, output values, deprecation messages
    Runtimes,   \* runs.using
    Pythons,
    Packages,
    None        \* an absent input, output, value, message or manifest

ASSUME NoneAssumption == None \notin Values

\* `default` is None exactly when has_default is False.
InputContracts ==
    [required : BOOLEAN, default : Values \cup {None}, deprecation : Values \cup {None}]

OutputContracts == [value : Values \cup {None}]

Manifests == [python : SUBSET Pythons, package : Packages]

Contracts ==
    [using : Runtimes,
     inputs : [Names -> InputContracts \cup {None}],
     outputs : [Names -> OutputContracts \cup {None}],
     manifest : Manifests \cup {None}]

ASSUME AbsenceAssumption ==
    None \notin InputContracts /\ None \notin OutputContracts /\ None \notin Manifests

Higher(a, b) == IF a >= b THEN a ELSE b

-----------------------------------------------------------------------------
(* compare_action_contracts: the reasons for each bump, input by input and *)
(* output by output.                                                       *)

MutInputBreaks(old, new) ==
    \/ old # None /\ new = None
    \/ old = None /\ new # None /\ new.required /\ new.default = None
    \/ old # None /\ new # None /\ old.default # new.default

InputBreaks(old, new) ==
    \/ old # None /\ new = None
    \/ old = None /\ new # None /\ new.required /\ new.default = None
    \/ old # None /\ new # None /\ old.default # new.default
    \/ old # None /\ new # None /\ ~old.required /\ new.required

InputExtends(old, new) ==
    \/ old = None /\ new # None
    \/ /\ old # None /\ new # None
       /\ \/ old.required /\ ~new.required
          \/ old.deprecation = None /\ new.deprecation # None

InputAmends(old, new) ==
    old # None /\ new # None /\ old.deprecation # None /\ old.deprecation # new.deprecation

OutputBreaks(old, new) == old # None /\ old # new

OutputExtends(old, new) == old = None /\ new # None

Breaks(a, b) ==
    \/ a.using # b.using
    \/ \E n \in Names : InputBreaks(a.inputs[n], b.inputs[n])
    \/ \E n \in Names : OutputBreaks(a.outputs[n], b.outputs[n])

Extends(a, b) ==
    \/ \E n \in Names : InputExtends(a.inputs[n], b.inputs[n])
    \/ \E n \in Names : OutputExtends(a.outputs[n], b.outputs[n])

Amends(a, b) == \E n \in Names : InputAmends(a.inputs[n], b.inputs[n])

ActionBump(a, b) ==
    IF Breaks(a, b) THEN Major
    ELSE IF Extends(a, b) THEN Minor
    ELSE IF Amends(a, b) THEN Patch
    ELSE Skip

\* classify_compatibility_change
ManifestBump(old, new) ==
    IF old = None THEN Patch
    ELSE IF ~(old.python \subseteq new.python) THEN Major
    ELSE IF ~(new.python \subseteq old.python) THEN Minor
    ELSE IF old.package # new.package THEN Patch
    ELSE Skip

\* classify_release_requirement; the current commit must have a manifest.
RequiredBump(a, b) == Higher(ActionBump(a, b), ManifestBump(a.manifest, b.manifest))
=============================================================================
