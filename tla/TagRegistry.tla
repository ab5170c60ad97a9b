---------------------------- MODULE TagRegistry ----------------------------
(***************************************************************************)
(* What release publication promises to everyone who reads the tags        *)
(* (docs/how-to/release-action.md): a registry to which one tag at a time  *)
(* is appended.  A tag never moves, is never deleted and never reused, and *)
(* every new tag is the highest version and a strict descendant of every   *)
(* release before it.                                                      *)
(***************************************************************************)
EXTENDS TagGraph

CONSTANT InitialTags

VARIABLE registry

Init == registry = InitialTags

MayAppend(v, object) ==
    /\ object.meta \in Metas
    /\ \A w \in Tagged(registry) :
          /\ w < v
          /\ IsAncestor(registry[w].commit, object.commit)
          /\ registry[w].commit # object.commit

Append ==
    \E v \in Versions, object \in Objects :
        /\ MayAppend(v, object)
        /\ registry' = WithTag(registry, v, object)

Spec == Init /\ [][Append]_registry
=============================================================================
